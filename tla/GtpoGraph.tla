------------------------------ MODULE GtpoGraph ------------------------------
(***************************************************************************)
(* gtpo::graph, the rewrite of GTpo in GTpo/src/gtpo: topology, groups     *)
(* that are nodes themselves, and what the observers of the graph and of   *)
(* its nodes are told.  A graph is a record whose fields are the members   *)
(* of graph, node and edge; an operation is an operator from graphs to     *)
(* graphs, so that the functions that build graphs (GtpoAlgorithms) are    *)
(* made of the operations themselves.                                      *)
(*                                                                         *)
(* All containers are std::vectors: insertion appends, removal erases      *)
(* every occurrence.  A weak_ptr to a destroyed node reads NoNode.         *)
(***************************************************************************)
EXTENDS Vectors, FiniteSets

CONSTANTS
  Node,        \* identities of nodes
  Group,       \* those of them that are groups
  Edge,        \* identities of edges
  NoNode,      \* an empty or expired weak_ptr to a node
  MaxRoots,    \* bound of the model: length of the root node cache
  MaxSize,     \* bound of the model: edges and group members together
  MaxGroups    \* bound of the model: length of the list of groups

ASSUME ConstantsAssumption ==
  /\ Group \subseteq Node
  /\ NoNode \notin Node
  /\ MaxRoots \in Nat /\ MaxSize \in Nat /\ MaxGroups \in Nat

VARIABLE graph

EmptyGraph ==
  [nodes |-> <<>>, roots |-> <<>>, edges |-> <<>>,
   src |-> [e \in Edge |-> NoNode], dst |-> [e \in Edge |-> NoNode],
   outEdges |-> [n \in Node |-> <<>>], inEdges |-> [n \in Node |-> <<>>],
   outNodes |-> [n \in Node |-> <<>>], inNodes |-> [n \in Node |-> <<>>],
   groups |-> <<>>, groupOf |-> [n \in Node |-> NoNode], members |-> [n \in Group |-> <<>>],
   \* what observers were told: the nodes and edges of the graph and, for each
   \* node, how many more neighbours were inserted than removed
   toldNodes |-> {}, toldEdges |-> {},
   toldOut |-> [n \in Node |-> 0], toldIn |-> [n \in Node |-> 0]]

Has(g, n) == Contains(g.nodes, n)
InDegree(g, n) == Len(g.inEdges[n])
Between(g, s, d) == Kept(g.edges, {e \in Edge : g.src[e] = s /\ g.dst[e] = d})
Links(g) == {<<g.src[e], e, g.dst[e]>> : e \in ToSet(g.edges)}

------------------------------------------------------------------------------
(* enable_graph_dynamic_behaviour finds the observers of the graph through the *)
(* graph pointer of the primitive: without it nobody is told.                  *)
TellNodeRemoved(g, n, attached) ==
  IF attached THEN [g EXCEPT !.toldNodes = @ \ {n}] ELSE g

(* enable_node_dynamic_behaviour tells the observers of the node itself, with  *)
(* or without a graph; d is 1 for an insertion, -1 for a removal.              *)
TellOut(g, n, d) == [g EXCEPT !.toldOut[n] = @ + d]
TellIn(g, n, d) == [g EXCEPT !.toldIn[n] = @ + d]

(* insert_node(), create_node(): the graph is set before the observers are told. *)
Inserted(g, n) ==
  [g EXCEPT !.nodes = Append(@, n), !.roots = Append(@, n), !.toldNodes = @ \cup {n}]

(* add_out_edge(), add_in_edge() *)
WithOutEdge(g, e) ==
  LET s == g.src[e] IN
  TellOut([g EXCEPT !.outEdges[s] = Append(@, e), !.outNodes[s] = Append(@, g.dst[e])], s, 1)

WithInEdge(g, e) ==
  LET d == g.dst[e] IN
  TellIn([g EXCEPT !.inEdges[d] = Append(@, e), !.inNodes[d] = Append(@, g.src[e])], d, 1)

(* create_edge(), insert_edge(): unless the edge is a self loop, its           *)
(* destination is no longer a root.                                            *)
Linked(g, e, s, d) ==
  LET known == [g EXCEPT !.edges = Append(@, e), !.src[e] = s, !.dst[e] = d]
      ends == WithInEdge(WithOutEdge(known, e), e)
  IN [ends EXCEPT !.roots = IF s = d THEN @ ELSE Erased(@, d),
                  !.toldEdges = @ \cup {e}]

(* install_root_node(), called when a node has no in edge (any more). *)
RootInstalled(g, n) == IF InDegree(g, n) = 0 THEN [g EXCEPT !.roots = Append(@, n)] ELSE g

(* remove_out_edge(), remove_in_edge(): the node on the other side is erased   *)
(* with every occurrence.                                                      *)
WithoutOutEdge(g, e) ==
  LET s == g.src[e] IN
  RootInstalled(TellOut([g EXCEPT !.outEdges[s] = Erased(@, e),
                                  !.outNodes[s] = Erased(@, g.dst[e])], s, -1), s)

(* Mutant of WithoutInEdge: the observers of the node are not told. *)
WithoutInEdgeUntold(g, e) ==
  LET d == g.dst[e] IN
  RootInstalled([g EXCEPT !.inEdges[d] = Erased(@, e), !.inNodes[d] = Erased(@, g.src[e])], d)

WithoutInEdge(g, e) ==
  LET d == g.dst[e] IN
  RootInstalled(TellIn([g EXCEPT !.inEdges[d] = Erased(@, e),
                                 !.inNodes[d] = Erased(@, g.src[e])], d, -1), d)

(* remove_edge(edge) *)
Unlinked(g, e) ==
  [WithoutInEdge(WithoutOutEdge(g, e), e) EXCEPT
     !.edges = Erased(@, e), !.src[e] = NoNode, !.dst[e] = NoNode, !.toldEdges = @ \ {e}]

(* The edges of a list, one after the other: out of the graph, out of the list *)
(* of their source, out of the list of their destination.                      *)
UnlinkedAll(g, es) ==
  LET after[i \in 0 .. Len(es)] == IF i = 0 THEN g ELSE Unlinked(after[i - 1], es[i])
  IN after[Len(es)]

WithoutOutEdges(g, es) ==
  LET after[i \in 0 .. Len(es)] == IF i = 0 THEN g ELSE WithoutOutEdge(after[i - 1], es[i])
  IN after[Len(es)]

WithoutInEdges(g, es) ==
  LET after[i \in 0 .. Len(es)] == IF i = 0 THEN g ELSE WithoutInEdge(after[i - 1], es[i])
  IN after[Len(es)]

(* group_node(): no look at the group the node is in already. *)
Grouped(g, n, h) ==
  [g EXCEPT !.groupOf[n] = h, !.members[h] = Append(@, n)]

(* ungroup_node(), from the group the node is in *)
Ungrouped(g, n) ==
  [g EXCEPT !.members[g.groupOf[n]] = Erased(@, n), !.groupOf[n] = NoNode]

(* The node is destroyed: weak pointers to it expire, its own lists go. *)
Destroyed(g, n) ==
  [g EXCEPT !.nodes = Erased(@, n), !.roots = Erased(@, n),
            !.groups = ReplaceAll(@, n, NoNode),
            !.groupOf = [m \in Node |-> IF @[m] = n THEN NoNode ELSE @[m]],
            !.members = [h \in Group |-> IF h = n THEN <<>> ELSE ReplaceAll(@[h], n, NoNode)],
            !.toldOut[n] = 0, !.toldIn[n] = 0]

(* Mutant of Removed: the out edges are left to the destruction of the node. *)
RemovedInEdgesOnly(g, n, attached) ==
  LET alone == IF g.groupOf[n] = NoNode THEN g ELSE Ungrouped(g, n)
      told == TellNodeRemoved(alone, n, attached)
  IN Destroyed(UnlinkedAll(told, told.inEdges[n]), n)

(* remove_node(): every edge is first taken out of the lists of the node,     *)
(* then removed from the graph, which takes it out of these lists again.      *)
(* attached is false when the graph pointer of the node was reset before:     *)
(* the observers of the graph are then reached by nobody.                     *)
Removed(g, n, attached) ==
  LET alone == IF g.groupOf[n] = NoNode THEN g ELSE Ungrouped(g, n)
      told == TellNodeRemoved(alone, n, attached)
      in == told.inEdges[n]
      noIn == UnlinkedAll(WithoutInEdges(told, in), in)
      out == noIn.outEdges[n]
  IN Destroyed(UnlinkedAll(WithoutOutEdges(noIn, out), out), n)

------------------------------------------------------------------------------
Init == graph = EmptyGraph

(* Bounds of the model: duplicates in the root node cache and in groups, and   *)
(* the expired entries that groups removed as nodes leave in the list.         *)
Becomes(g) ==
  /\ Len(g.roots) <= MaxRoots
  /\ Len(g.groups) <= MaxGroups
  /\ \A h \in Group : Len(g.edges) + Len(g.members[h]) <= MaxSize
  /\ graph' = g

InsertNode(n) == ~Has(graph, n) /\ n \notin Group /\ Becomes(Inserted(graph, n))

(* insert_group(): a group is inserted as a node. *)
InsertGroup(h) ==
  /\ ~Has(graph, h)
  /\ Becomes([Inserted(graph, h) EXCEPT !.groups = Append(@, h)])

CreateEdge(e, s, d) ==
  /\ ~Contains(graph.edges, e)
  /\ Has(graph, s) /\ Has(graph, d)
  /\ Becomes(Linked(graph, e, s, d))

RemoveEdge(e) == Contains(graph.edges, e) /\ Becomes(Unlinked(graph, e))

(* remove_edge(source, destination): the first edge found *)
RemoveFirstEdge(s, d) ==
  /\ Between(graph, s, d) # <<>>
  /\ Becomes(Unlinked(graph, Head(Between(graph, s, d))))

RemoveAllEdges(s, d) ==
  /\ Has(graph, s) /\ Has(graph, d)
  /\ Becomes(UnlinkedAll(graph, Between(graph, s, d)))

(* remove_node() on a node or on a group *)
RemoveNode(n) == Has(graph, n) /\ Becomes(Removed(graph, n, TRUE))

(* remove_group(): resets the graph pointer of the group, then removes it as  *)
(* a node.                                                                    *)
RemoveGroup(h) ==
  /\ Has(graph, h)
  /\ Becomes(Removed([graph EXCEPT !.groups = Erased(@, h)], h, FALSE))

GroupNode(n, h) ==
  /\ Has(graph, n) /\ Has(graph, h) /\ n # h
  /\ Becomes(Grouped(graph, n, h))

UngroupNode(n) ==
  /\ Has(graph, n) /\ graph.groupOf[n] # NoNode
  /\ Becomes(Ungrouped(graph, n))

(* clear(): the behaviours go with the content, new ones start from nothing. *)
Clear == graph' = EmptyGraph

Next ==
  \/ \E n \in Node : InsertNode(n) \/ RemoveNode(n) \/ UngroupNode(n)
  \/ \E h \in Group : InsertGroup(h) \/ RemoveGroup(h)
  \/ \E n \in Node, h \in Group : GroupNode(n, h)
  \/ \E e \in Edge : RemoveEdge(e)
  \/ \E e \in Edge, s, d \in Node : CreateEdge(e, s, d)
  \/ \E s, d \in Node : RemoveFirstEdge(s, d) \/ RemoveAllEdges(s, d)
  \/ Clear

Spec == Init /\ [][Next]_graph

------------------------------------------------------------------------------
(* What is recorded on several sides stays in step. The observers of the graph *)
(* know its edges and nodes, except that a group removed by remove_group()     *)
(* (graph.hpp:341, its graph pointer is reset before the notification) stays   *)
(* known; the observers of each node count its edges, although remove_node()   *)
(* reports the edges of the other nodes while it takes them out of its own     *)
(* lists twice; and a node that has a group is listed by it, the group by the  *)
(* graph (graph.hpp:93-129, 357-388).                                          *)
ObserversFollow ==
  LET g == graph IN
  /\ g.toldEdges = ToSet(g.edges)
  /\ ToSet(g.nodes) \subseteq g.toldNodes
  /\ g.toldNodes \ ToSet(g.nodes) \subseteq Group
  /\ \A n \in ToSet(g.nodes) :
       /\ g.toldOut[n] = Len(g.outEdges[n])
       /\ g.toldIn[n] = Len(g.inEdges[n])
       /\ LET h == g.groupOf[n] IN
          h # NoNode => Has(g, h) /\ Contains(g.members[h], n) /\ Contains(g.groups, h)

(* The lists of the nodes are the directed multigraph of module Digraph, and   *)
(* every operation is one of its operations: removing a node removes exactly   *)
(* its edges, whatever the number of times it visits them (graph.hpp:93-129).  *)
Abstract == INSTANCE Digraph WITH
  nodes <- ToSet(graph.nodes),
  links <- {l \in Node \X Edge \X Node :
              Contains(graph.outEdges[l[1]], l[2]) /\ Contains(graph.inEdges[l[3]], l[2])}
ImplementsDigraph == Abstract!Spec
==============================================================================
