---------------------------- MODULE GtpoAlgorithms ----------------------------
(***************************************************************************)
(* The algorithms of the new GTpo on the graphs of GtpoGraph: traversals,  *)
(* the tests for trees and acyclic graphs (algorithm.hpp), the depth first *)
(* iterator (algorithm.h), the functions that build a graph from another   *)
(* one (functional.h) and the tree generator (generator.hpp).  Each is     *)
(* compared with a definition of what it computes in every reachable graph.*)
(***************************************************************************)
EXTENDS GtpoGraph, FiniteSetsExt

(* std::stack: push at the end, several nodes one after the other *)
Pop(stack) == SubSeq(stack, 1, Len(stack) - 1)
Unmarked(s, marks) == SelectSeq(s, LAMBDA n : n \notin marks)

------------------------------------------------------------------------------
(* linearize_dfs_impl(): t holds the nodes listed so far and the marks. *)
RECURSIVE LinearizeFrom(_, _, _)
LinearizeFrom(g, stack, t) ==
  IF stack = <<>> THEN t
  ELSE LET n == Last(stack) IN
       IF n \in t.marks THEN LinearizeFrom(g, Pop(stack), t)
       ELSE LET marks == t.marks \cup {n} IN
            LinearizeFrom(g, Pop(stack) \o Unmarked(g.outNodes[n], marks),
                          [marks |-> marks, list |-> Append(t.list, n)])

(* linearize_dfs(): from the nodes without in edge, then from what is left. *)
Linearize(g) ==
  LET From(t, n) == IF n \in t.marks THEN t ELSE LinearizeFrom(g, <<n>>, t)
      isRoot(n) == InDegree(g, n) = 0
      first == FoldLeft(From, [marks |-> {}, list |-> <<>>], SelectSeq(g.nodes, isRoot))
  IN FoldLeft(From, first, SelectSeq(g.nodes, LAMBDA n : ~isRoot(n))).list

(* is_dag_impl_rec(): marks survive the return from a node, so that a node met *)
(* twice is taken for a cycle.                                                 *)
RECURSIVE DagFrom(_, _, _)
DagFrom(g, t, n) ==
  IF ~t.ok \/ n \in t.marks THEN [t EXCEPT !.ok = FALSE]
  ELSE FoldLeft(LAMBDA u, m : IF u.ok THEN DagFrom(g, u, m) ELSE u,
                [t EXCEPT !.marks = @ \cup {n}], g.outNodes[n])

(* Mutant of IsDag: starts from the roots only. *)
IsDagFromRoots(g) ==
  FoldLeft(LAMBDA t, n : IF t.ok /\ n \notin t.marks THEN DagFrom(g, t, n) ELSE t,
           [ok |-> TRUE, marks |-> {}], g.roots).ok

IsDag(g) ==
  FoldLeft(LAMBDA t, n : IF t.ok /\ n \notin t.marks THEN DagFrom(g, t, n) ELSE t,
           [ok |-> TRUE, marks |-> {}], g.nodes).ok

(* is_tree_impl_rec(), is_tree_rec(): and no node may have two in nodes. *)
RECURSIVE TreeFrom(_, _, _)
TreeFrom(g, t, n) ==
  IF ~t.ok \/ Len(g.inNodes[n]) > 1 \/ n \in t.marks THEN [t EXCEPT !.ok = FALSE]
  ELSE FoldLeft(LAMBDA u, m : IF u.ok THEN TreeFrom(g, u, m) ELSE u,
                [t EXCEPT !.marks = @ \cup {n}], g.outNodes[n])

IsTree(g) ==
  FoldLeft(LAMBDA t, n : IF t.ok /\ n \notin t.marks THEN TreeFrom(g, t, n) ELSE t,
           [ok |-> TRUE, marks |-> {}], g.nodes).ok

(* tree_depth_impl_rec(): the depth found under one child is where the next    *)
(* child starts.                                                               *)
RECURSIVE DepthFrom(_, _, _)
DepthFrom(g, n, d) ==
  FoldLeft(LAMBDA e, m : Max({e, DepthFrom(g, m, e)}), d + 1, g.outNodes[n])

TreeDepth(g) == FoldLeft(LAMBDA r, n : Max({r, DepthFrom(g, n, 0)}), 0, g.roots)

(* linearize_tree_dfs_rec() *)
RECURSIVE TreeListFrom(_, _, _)
TreeListFrom(g, list, n) ==
  FoldLeft(LAMBDA l, m : TreeListFrom(g, l, m), Append(list, n), g.outNodes[n])

LinearizeTree(g) == FoldLeft(LAMBDA l, n : TreeListFrom(g, l, n), <<>>, g.roots)

(* levelize_tree_dfs_impl_rec(): level l is entry l + 1 *)
RECURSIVE LevelsFrom(_, _, _, _)
LevelsFrom(g, r, n, l) ==
  LET wide == IF Len(r) < l + 1 THEN Append(r, <<>>) ELSE r IN
  FoldLeft(LAMBDA s, m : LevelsFrom(g, s, m, l + 1),
           [wide EXCEPT ![l + 1] = Append(@, n)], g.outNodes[n])

(* Mutant of Levelize: levels are taken under the first root only. *)
LevelizeFirst(g) == IF g.roots = <<>> THEN <<>> ELSE LevelsFrom(g, <<>>, Head(g.roots), 0)

Levelize(g) == FoldLeft(LAMBDA r, n : LevelsFrom(g, r, n, 0), <<>>, g.roots)

------------------------------------------------------------------------------
(* bfs_iterator (which goes depth first): at and late are its positions in the *)
(* nodes and in the candidates, the nodes set aside for the second pass.       *)
(* step(): one new start, or the end of a pass. *)
Step(g, it) ==
  IF it.at <= Len(g.nodes)
  THEN LET rest == SubSeq(g.nodes, it.at, Len(g.nodes))
           new == Unmarked(rest, it.marks)
           roots == SelectSeq(new, LAMBDA n : InDegree(g, n) = 0)
           stop == IF roots = <<>> THEN Len(g.nodes) ELSE SelectInSeq(g.nodes, LAMBDA n : n = Head(roots))
           passed == SelectSeq(new, LAMBDA n : SelectInSeq(g.nodes, LAMBDA m : m = n) < stop
                                                 \/ roots = <<>>)
       IN [it EXCEPT !.at = stop + 1, !.candidates = @ \o passed,
                     !.stack = IF roots = <<>> THEN @ ELSE <<Head(roots)>>]
  ELSE LET left == {i \in it.late .. Len(it.candidates) : it.candidates[i] \notin it.marks} IN
       IF left = {} THEN [it EXCEPT !.late = Len(it.candidates) + 1]
       ELSE [it EXCEPT !.late = Min(left) + 1, !.stack = <<it.candidates[Min(left)]>>]

(* The loop of operator++: down the stack to a node that is not marked. When   *)
(* there is none, the iterator stays where it was.                             *)
RECURSIVE Unstack(_, _)
Unstack(g, it) ==
  IF it.stack = <<>> THEN it
  ELSE LET n == Last(it.stack) IN
       IF n \in it.marks THEN Unstack(g, [it EXCEPT !.stack = Pop(@)])
       ELSE [it EXCEPT !.node = n, !.marks = @ \cup {n},
                       !.stack = Pop(@) \o Unmarked(g.outNodes[n], it.marks \cup {n})]

Advance(g, it) ==
  LET fed == IF it.stack = <<>> THEN Step(g, it) ELSE it IN
  IF fed.stack = <<>> /\ fed.at > Len(g.nodes) /\ fed.late > Len(fed.candidates)
  THEN [fed EXCEPT !.node = NoNode]
  ELSE Unstack(g, fed)

Begin(g) ==
  Advance(g, [node |-> NoNode, at |-> 1, late |-> 1, candidates |-> <<>>, marks |-> {}, stack |-> <<>>])

(* The nodes met by a loop from begin_dfs() to end_dfs(), which ends when the  *)
(* iterator is at no node.                                                     *)
RECURSIVE IterateFrom(_, _)
IterateFrom(g, it) ==
  IF it.node = NoNode THEN [list |-> <<>>, candidates |-> it.candidates]
  ELSE LET rest == IterateFrom(g, Advance(g, it)) IN [rest EXCEPT !.list = <<it.node>> \o @]

Iterate(g) == IterateFrom(g, Begin(g))

(* The constructor reserves room for so many candidates; when more are set     *)
(* aside, the vector moves and its iterator dangles.                           *)
Reserved(g) == Max({1, Len(g.nodes) \div 3})

------------------------------------------------------------------------------
(* filter(): clones keep the identity of their source here. *)
CloneEdge(src, dst, e) == Linked(dst, e, src.src[e], src.dst[e])

(* Mutant of Filter: an edge is kept with its source. *)
FilterBySource(g, keep) ==
  LET kept == SelectSeq(g.nodes, LAMBDA n : n \in keep)
      inside == SelectSeq(g.edges, LAMBDA e : g.src[e] \in keep)
  IN FoldLeft(LAMBDA d, e : CloneEdge(g, d, e), FoldLeft(Inserted, EmptyGraph, kept), inside)

Filter(g, keep) ==
  LET kept == SelectSeq(g.nodes, LAMBDA n : n \in keep)
      inside == SelectSeq(g.edges, LAMBDA e : g.src[e] \in keep /\ g.dst[e] \in keep)
  IN FoldLeft(LAMBDA d, e : CloneEdge(g, d, e), FoldLeft(Inserted, EmptyGraph, kept), inside)

(* map(), copy() *)
Copy(g) ==
  FoldLeft(LAMBDA d, e : CloneEdge(g, d, e), FoldLeft(Inserted, EmptyGraph, g.nodes), g.edges)

(* filter_map(): a node that is kept is mapped to clone[n]; the edges between   *)
(* kept nodes are created again between the nodes theirs were mapped to.       *)
FilterMap(g, keep, clone) ==
  LET selected == SelectSeq(g.nodes, LAMBDA n : n \in keep)
      mapped == FoldLeft(LAMBDA d, n : Inserted(d, clone[n]), EmptyGraph, selected)
  IN FoldLeft(LAMBDA d, e : IF {g.src[e], g.dst[e]} \subseteq keep
                            THEN Linked(d, e, clone[g.src[e]], clone[g.dst[e]]) ELSE d,
              mapped, g.edges)

(* complete_tree_impl_rec(): ids and links are what create_node() and          *)
(* create_edge() will return.                                                  *)
RECURSIVE SubTree(_, _, _, _, _, _)
SubTree(g, n, depth, degree, ids, links) ==
  FoldLeft(LAMBDA t, i :
             LET k == Len(t.nodes)
                 grown == Linked(Inserted(t, ids[k + 1]), links[k], n, ids[k + 1])
             IN IF depth - 1 > 0 THEN SubTree(grown, ids[k + 1], depth - 1, degree, ids, links)
                                 ELSE grown,
           g, [i \in 1 .. degree |-> i])

(* complete_tree_rec() *)
CompleteTree(depth, degree, ids, links) ==
  LET root == Inserted(EmptyGraph, ids[1]) IN
  IF depth = 0 THEN root ELSE SubTree(root, ids[1], depth, degree, ids, links)

------------------------------------------------------------------------------
(* Reference definitions, on the neighbours the nodes list. *)
NextTo(g) == {<<n, m>> \in ToSet(g.nodes) \X ToSet(g.nodes) : Contains(g.outNodes[n], m)}

RECURSIVE Descendants(_, _)
Descendants(g, N) ==
  LET wider == N \cup {m \in ToSet(g.nodes) : \E n \in N : <<n, m>> \in NextTo(g)} IN
  IF wider = N THEN N ELSE Descendants(g, wider)

Acyclic(g) ==
  \A n \in ToSet(g.nodes) :
    n \notin Descendants(g, {m \in ToSet(g.nodes) : <<n, m>> \in NextTo(g)})

Forest(g) == Acyclic(g) /\ \A n \in ToSet(g.nodes) : InDegree(g, n) <= 1

Depth(g, n) == Cardinality({m \in ToSet(g.nodes) : n \in Descendants(g, {m})}) - 1

(* The caches are exact: every root once, as many neighbours as edges. *)
CachesExact(g) ==
  /\ IsInjective(g.roots)
  /\ ToSet(g.roots) = {n \in ToSet(g.nodes) : InDegree(g, n) = 0}
  /\ \A n \in ToSet(g.nodes) :
       Len(g.outNodes[n]) = Len(g.outEdges[n]) /\ Len(g.inNodes[n]) = Len(g.inEdges[n])

(* A graph the recursive tests accept has the shape they stand for, with caches *)
(* that are exact; they refuse many that have it too (algorithm.hpp:127-195).   *)
(* A generated tree is accepted, with degree ^ l nodes at level l               *)
(* (generator.hpp).                                                             *)
TestsSound ==
  /\ CachesExact(graph) =>
       /\ IsDag(graph) => Acyclic(graph)
       /\ IsTree(graph) => Forest(graph)
  /\ graph = EmptyGraph =>
       \A depth \in 0 .. 2, degree \in 1 .. 2 :
         (depth = 2 => degree = 1) =>
           LET tree == CompleteTree(depth, degree, SetToSeq(Node), SetToSeq(Edge))
               levels == Levelize(tree)
           IN /\ IsTree(tree) /\ Forest(tree) /\ CachesExact(tree)
              /\ Len(levels) = depth + 1
              /\ \A l \in 0 .. depth : Len(levels[l + 1]) = degree ^ l

(* linearize_dfs() lists every node of any graph once, the nodes that a root    *)
(* leads to first (algorithm.hpp:57-119).  On a forest with exact caches, the   *)
(* traversals of trees list every node once, level l holds the nodes of depth   *)
(* l and the depth is never underestimated.  There the iterator meets the nodes *)
(* in the order of linearize_dfs(), some of them several times, as long as the  *)
(* nodes it sets aside fit in the room it reserved (algorithm.hpp:200-285,      *)
(* algorithm.h:155-329).                                                        *)
TraversalsAgree ==
  LET list == Linearize(graph)
      roots == {n \in ToSet(graph.nodes) : InDegree(graph, n) = 0}
      reached == Descendants(graph, roots)
  IN /\ IsInjective(list) /\ ToSet(list) = ToSet(graph.nodes)
     /\ \A i, j \in DOMAIN list : list[i] \in reached /\ list[j] \notin reached => i < j
     /\ Forest(graph) /\ CachesExact(graph) =>
          LET levels == Levelize(graph)
              steps == Iterate(graph)
              Once(l, n) == IF Contains(l, n) THEN l ELSE Append(l, n)
          IN /\ Len(LinearizeTree(graph)) = Len(graph.nodes)
             /\ ToSet(LinearizeTree(graph)) = ToSet(graph.nodes)
             /\ \A l \in DOMAIN levels :
                  /\ IsInjective(levels[l])
                  /\ ToSet(levels[l]) = {n \in ToSet(graph.nodes) : Depth(graph, n) = l - 1}
             /\ TreeDepth(graph) >= Len(levels)
             /\ Len(steps.candidates) <= Reserved(graph)
                  => FoldLeft(Once, <<>>, steps.list) = list

(* A copy or a filtered graph has the nodes and links that were kept, and its   *)
(* caches are exact whatever happened to those of the source, apart from the    *)
(* self loops of roots.  To filter and to map at once gives the same graph, up  *)
(* to the nodes the clones are (functional.h:67-135, 138-206, 226-297).         *)
CopiesAreClean ==
  \A keep \in SUBSET ToSet(graph.nodes) :
    LET d == Filter(graph, keep) IN
    /\ ToSet(d.nodes) = keep
    /\ Links(d) = {l \in Links(graph) : l[1] \in keep /\ l[3] \in keep}
    /\ \A n \in keep : Len(d.outNodes[n]) = Len(d.outEdges[n])
    /\ IsInjective(d.roots)
    /\ keep = ToSet(graph.nodes) => d = Copy(graph)
    /\ \A clone \in {f \in [Node -> Node] : IsInjective(f)} :
         LET m == FilterMap(graph, keep, clone) IN
         /\ \A i \in DOMAIN d.nodes : m.nodes[i] = clone[d.nodes[i]]
         /\ Links(m) = {<<clone[l[1]], l[2], clone[l[3]]>> : l \in Links(d)}
         /\ ToSet(m.roots) = {clone[n] : n \in ToSet(d.roots)}
==============================================================================
