---------------------------- MODULE GTpoBehaviours ----------------------------
(***************************************************************************)
(* The behaviours of gtpo::GenGraph (the observers a client installs on a  *)
(* graph, a node or a group) and the restricted hyper edges, whose         *)
(* destination is another edge.                                            *)
(*                                                                         *)
(* A removal is a sequence of calls that notify, edit a list and call each *)
(* other: a node removes its edges, an edge the hyper edges that end at    *)
(* it, in the middle of their own removals, and any call may throw with    *)
(* the work half done.  The operators on a graph g below are these calls,  *)
(* one for one; g.thrown is set while an exception unwinds them, and every *)
(* call that would follow is then skipped.                                 *)
(*                                                                         *)
(* Behaviours are represented by what they have been told: the nodes,      *)
(* edges and groups inserted and not removed since the installation, added *)
(* to a snapshot taken then.  An edge or a node nobody owns any more is    *)
(* expired, and pointers to it are empty.                                  *)
(***************************************************************************)
EXTENDS Integers, SequencesExt

CONSTANTS
  Node, Edge, Group,    \* identities a client can create
  None                  \* an empty weak_ptr, or no behaviour

ASSUME BehavioursAssumption == None \notin Node \cup Edge \cup Group

VARIABLES
  graph,     \* the graph with its nodes, edges, groups and behaviours
  failed     \* whether an operation has thrown

vars == <<graph, failed>>

(* nodes, edges, groups: GenGraph::_nodes, _edges, _groups                  *)
(* src, dst, hdst, hin:  GenEdge::_src, _dst, _hDst, _inHEdges              *)
(* out, in, group:       GenNode::_outEdges, _inEdges, _group               *)
(* members:              GenGroup::_nodes                                   *)
(* seen, told, toldOf:   what the behaviour of the graph, of a node and of  *)
(*                       a group was told; seen.on is Behaviour::_enabled   *)
EmptyGraph ==
  [ nodes |-> {}, edges |-> <<>>, groups |-> {},
    src |-> [e \in Edge |-> None], dst |-> [e \in Edge |-> None],
    hdst |-> [e \in Edge |-> None], hin |-> [e \in Edge |-> <<>>],
    out |-> [n \in Node |-> <<>>], in |-> [n \in Node |-> <<>>],
    group |-> [n \in Node |-> None], members |-> [k \in Group |-> {}],
    seen |-> None, told |-> [n \in Node |-> None], toldOf |-> [k \in Group |-> None],
    thrown |-> FALSE ]

Init == graph = EmptyGraph /\ failed = FALSE

Throw(g) == [g EXCEPT !.thrown = TRUE]

------------------------------------------------------------------------------
(* notifyBehaviours(): a behaviour that was told all of "told" before, if    *)
(* there is one.  Nobody asks whether it is enabled.                        *)
Notified(behaviour, told) == IF behaviour = None THEN None ELSE told

(* notifyNodeInserted(), notifyEdgeInserted(), notifyGroupInserted() *)
Inserted(g, what, x) ==
  [g EXCEPT !.seen = Notified(@, [@ EXCEPT ![what] = @ \cup {x}])]

(* notifyNodeRemoved(), notifyEdgeRemoved(), notifyGroupRemoved() *)
Removed(g, what, x) ==
  [g EXCEPT !.seen = Notified(@, [@ EXCEPT ![what] = @ \ {x}])]

(* notifyInNodeInserted(), notifyOutNodeInserted(), and with by = -1 the    *)
(* calls for a removal: the behaviour of n is told of the edge e.           *)
Tell(g, n, side, e, by) ==
  [g EXCEPT !.told[n] = Notified(@, [@ EXCEPT ![side][e] = @ + by])]

(* GenNode::addOutEdge(): nothing is told of a hyper edge, it has no node   *)
(* as destination.                                                          *)
AddOutEdge(g, n, e) ==
  LET added == [g EXCEPT !.out[n] = Append(@, e)]
  IN IF g.dst[e] = None THEN added ELSE Tell(added, n, "out", e, 1)

(* GenNode::addInEdge() *)
AddInEdge(g, n, e) == Tell([g EXCEPT !.in[n] = Append(@, e)], n, "in", e, 1)

(* Mutant of RemoveOutEdge: told of hyper edges too. *)
RemoveOutEdgeToldAlways(g, n, e) ==
  IF g.thrown THEN g
  ELSE [Tell(g, n, "out", e, -1) EXCEPT !.out[n] = Remove(@, e)]

(* GenNode::removeOutEdge() *)
RemoveOutEdge(g, n, e) ==
  IF g.thrown THEN g
  ELSE LET told == IF g.dst[e] = None THEN g ELSE Tell(g, n, "out", e, -1)
       IN [told EXCEPT !.out[n] = Remove(@, e)]

(* GenNode::removeInEdge(): throws when the source has expired. *)
RemoveInEdge(g, n, e) ==
  IF g.thrown THEN g
  ELSE IF g.src[e] = None THEN Throw(g)
  ELSE [Tell(g, n, "in", e, -1) EXCEPT !.in[n] = Remove(@, e)]

(* Mutant of RemoveInHEdge: the edge stays listed. *)
ResetHDst(g, d, h) == IF g.thrown THEN g ELSE [g EXCEPT !.hdst[h] = None]

(* GenEdge::removeInHEdge() *)
RemoveInHEdge(g, d, h) ==
  IF g.thrown THEN g
  ELSE [g EXCEPT !.hdst[h] = None, !.hin[d] = Remove(@, h)]

(* The edge e leaves the containers of the graph, its only owner. *)
DropEdge(g, e) ==
  IF g.thrown THEN g
  ELSE [g EXCEPT !.edges = Remove(@, e), !.src[e] = None, !.dst[e] = None,
                 !.hin[e] = <<>>,
                 !.hdst = [h \in Edge |-> IF h = e \/ @[h] = e THEN None ELSE @[h]]]

(* Mutant of EndsExpired: hyper edges are not looked at. *)
NoDestination(g, e) == g.src[e] = None \/ g.dst[e] = None

(* The end points removeEdge() insists on. *)
EndsExpired(g, e) == g.src[e] = None \/ (g.dst[e] = None /\ g.hdst[e] = None)

(* Mutant of RemoveHyperEdges: the edge goes without them. *)
HyperEdgesStay(g, e, i, count) == g

RECURSIVE RemoveEdgeFrom(_, _), RemoveHyperEdges(_, _, _, _)

(* The loop of removeEdge() over the hyper edges that end at e, a           *)
(* reference to the list the calls it makes shorten.  Its end was taken     *)
(* before the first call (count), so past the current end it meets slots    *)
(* whose element was moved to the front and left empty, an expired edge.    *)
RemoveHyperEdges(g, e, i, count) ==
  IF g.thrown \/ i > count THEN g
  ELSE IF i > Len(g.hin[e]) THEN Throw(g)
  ELSE RemoveHyperEdges(RemoveEdgeFrom(g, g.hin[e][i]), e, i + 1, count)

(* removeEdge(WeakEdge) *)
RemoveEdgeFrom(g, e) ==
  IF g.thrown THEN g
  ELSE IF ~Contains(g.edges, e) \/ EndsExpired(g, e) THEN Throw(g)
  ELSE LET told == Removed(g, "edges", e)
           noOut == RemoveOutEdge(told, g.src[e], e)
           noIn == IF g.dst[e] = None THEN noOut ELSE RemoveInEdge(noOut, g.dst[e], e)
           noHIn == IF g.hdst[e] = None THEN noIn ELSE RemoveInHEdge(noIn, g.hdst[e], e)
       IN DropEdge(RemoveHyperEdges(noHIn, e, 1, Len(noHIn.hin[e])), e)

Apply(Op(_, _), g, es) == FoldLeft(Op, g, es)

(* The node n leaves the containers and is destroyed with its behaviours. *)
DropNode(g, n) ==
  IF g.thrown THEN g
  ELSE [g EXCEPT !.nodes = @ \ {n}, !.out[n] = <<>>, !.in[n] = <<>>,
                 !.group[n] = None, !.told[n] = None,
                 !.src = [e \in Edge |-> IF @[e] = n THEN None ELSE @[e]],
                 !.dst = [e \in Edge |-> IF @[e] = n THEN None ELSE @[e]]]

(* removeNode(): in edges first, out of a copy of the list, then the out    *)
(* edges that are left.  Each edge leaves the lists of n twice, once by     *)
(* itself and once in removeEdge().                                         *)
RemoveNodeFrom(g, n) ==
  LET RemoveOut(h, e) == RemoveOutEdge(h, n, e)
      RemoveIn(h, e) == RemoveInEdge(h, n, e)
      told == Removed(g, "nodes", n)
      ins == told.in[n]
      noIns == Apply(RemoveEdgeFrom, FoldLeft(RemoveIn, told, ins), ins)
      outs == noIns.out[n]
      noOuts == Apply(RemoveEdgeFrom, FoldLeft(RemoveOut, noIns, outs), outs)
  IN DropNode(noOuts, n)

------------------------------------------------------------------------------
(* The operation ends with the graph g, normally or by its exception. *)
Becomes(g) ==
  /\ graph' = [g EXCEPT !.thrown = FALSE]
  /\ failed' = (failed \/ g.thrown)

Registered(e) == Contains(graph.edges, e)

(* createNode(), insertNode().  A group keeps the expired entry of a member *)
(* that was removed, which is not the new node.                             *)
InsertNode(n) ==
  /\ n \notin graph.nodes
  /\ \A k \in Group : n \notin graph.members[k]
  /\ Becomes(Inserted([graph EXCEPT !.nodes = @ \cup {n}], "nodes", n))

(* createEdge(node, node), insertEdge() with a node as destination. *)
InsertEdge(e, s, d) ==
  /\ ~Registered(e)
  /\ {s, d} \subseteq graph.nodes
  /\ LET created == [graph EXCEPT !.edges = Append(@, e), !.src[e] = s, !.dst[e] = d]
     IN Becomes(Inserted(AddInEdge(AddOutEdge(created, s, e), d, e), "edges", e))

(* createEdge(node, edge), insertEdge() with an edge as destination, and    *)
(* GenEdge::addInHEdge().                                                   *)
InsertHyperEdge(h, s, d) ==
  /\ ~Registered(h) /\ Registered(d)
  /\ s \in graph.nodes
  /\ LET created == [graph EXCEPT !.edges = Append(@, h), !.src[h] = s, !.hdst[h] = d]
         listed == [AddOutEdge(created, s, h) EXCEPT !.hin[d] = Append(@, h)]
     IN Becomes(Inserted(listed, "edges", h))

RemoveEdge(e) == Registered(e) /\ Becomes(RemoveEdgeFrom(graph, e))

(* removeAllEdges(): the first edge from s to d, until none is left. *)
RemoveAllEdges(s, d) ==
  /\ {s, d} \subseteq graph.nodes
  /\ LET Parallel(e) == graph.src[e] = s /\ graph.dst[e] = d
         parallel == SelectSeq(graph.edges, Parallel)
     IN parallel # <<>> /\ Becomes(Apply(RemoveEdgeFrom, graph, parallel))

RemoveNode(n) == n \in graph.nodes /\ Becomes(RemoveNodeFrom(graph, n))

(* createGroup(), insertGroup() *)
InsertGroup(k) ==
  /\ k \notin graph.groups
  /\ Becomes(Inserted([graph EXCEPT !.groups = @ \cup {k}], "groups", k))

(* removeGroup(): its members are not told, their group expires. *)
RemoveGroup(k) ==
  /\ k \in graph.groups
  /\ Becomes([Removed(graph, "groups", k) EXCEPT
                !.groups = @ \ {k}, !.members[k] = {}, !.toldOf[k] = None,
                !.group = [n \in Node |-> IF @[n] = k THEN None ELSE @[n]]])

(* groupNode(): a former group is not asked to let the node go. *)
GroupNode(k, n) ==
  /\ k \in graph.groups /\ n \in graph.nodes
  /\ Becomes([graph EXCEPT !.group[n] = k, !.members[k] = @ \cup {n},
                            !.toldOf[k] = Notified(@, @ \cup {n})])

(* ungroupNode(): refused, before anything changed, unless n is in k. *)
UngroupNode(k, n) ==
  /\ k \in graph.groups /\ n \in graph.nodes /\ graph.group[n] = k
  /\ Becomes([graph EXCEPT !.members[k] = @ \ {n}, !.group[n] = None,
                            !.toldOf[k] = Notified(@, @ \ {n})])

(* clear(): the behaviours of the graph go too, nobody is told. *)
Clear == graph' = EmptyGraph /\ failed' = FALSE

------------------------------------------------------------------------------
(* The behaviour of a node, told of the edges it has when it is installed. *)
Known(n) ==
  [ in |-> [e \in Edge |-> IF Contains(graph.in[n], e) THEN 1 ELSE 0],
    out |-> [e \in Edge |-> IF Contains(graph.out[n], e) /\ graph.dst[e] # None
                            THEN 1 ELSE 0] ]

(* addGraphBehaviour(), addNodeBehaviour() through Node::installBehaviour(), *)
(* and addGroupBehaviour().                                                  *)
AddGraphBehaviour ==
  /\ graph.seen = None
  /\ Becomes([graph EXCEPT !.seen = [nodes |-> graph.nodes, edges |-> ToSet(graph.edges),
                                     groups |-> graph.groups, on |-> TRUE]])

AddNodeBehaviour(n) ==
  /\ n \in graph.nodes /\ graph.told[n] = None
  /\ Becomes([graph EXCEPT !.told[n] = Known(n)])

AddGroupBehaviour(k) ==
  /\ k \in graph.groups /\ graph.toldOf[k] = None
  /\ Becomes([graph EXCEPT !.toldOf[k] = graph.members[k]])

(* Behaviour::enable(), disable() *)
SetEnabled(on) ==
  /\ graph.seen # None
  /\ Becomes([graph EXCEPT !.seen.on = on])

(* After an exception, which bad_topology_error calls unrecoverable, a      *)
(* client does nothing with the graph but clear it.                         *)
Next ==
  \/ Clear
  \/ /\ ~failed
     /\ \/ \E n \in Node : InsertNode(n)
        \/ \E e \in Edge, s, d \in Node : InsertEdge(e, s, d)
        \/ \E h, d \in Edge, s \in Node : InsertHyperEdge(h, s, d)
        \/ \E e \in Edge : RemoveEdge(e)
        \/ \E s, d \in Node : RemoveAllEdges(s, d)
        \/ \E n \in Node : RemoveNode(n)
        \/ \E k \in Group : InsertGroup(k)
        \/ \E k \in Group : RemoveGroup(k)
        \/ \E k \in Group, n \in Node : GroupNode(k, n)
        \/ \E k \in Group, n \in Node : UngroupNode(k, n)
        \/ AddGraphBehaviour
        \/ \E n \in Node : AddNodeBehaviour(n)
        \/ \E k \in Group : AddGroupBehaviour(k)
        \/ \E on \in BOOLEAN : SetEnabled(on)

Spec == Init /\ [][Next]_vars

------------------------------------------------------------------------------
(* As long as nothing has thrown, an edge of the graph has one destination, *)
(* of the graph too, that lists it, and so does its source; no node or edge *)
(* lists another one.  removeEdge() and removeNode() edit these lists while *)
(* they remove edges in edges.                                              *)
HypergraphCoherent ==
  ~failed =>
    /\ \A e \in ToSet(graph.edges) :
         /\ Contains(graph.out[graph.src[e]], e)
         /\ \/ graph.hdst[e] = None /\ Contains(graph.in[graph.dst[e]], e)
            \/ graph.dst[e] = None /\ Contains(graph.hin[graph.hdst[e]], e)
    /\ \A n \in Node, e \in Edge :
         /\ Contains(graph.out[n], e) => graph.src[e] = n
         /\ Contains(graph.in[n], e) => graph.dst[e] = n
    /\ \A d, h \in Edge : Contains(graph.hin[d], h) => graph.hdst[h] = d

(* Whenever and on whatever a behaviour was installed, enabled or not, what *)
(* it was told adds up to what it observes: the graph to its nodes, edges   *)
(* and groups, a group to its members, a node that was not removed to its   *)
(* edges to and from nodes, each told once.                                 *)
BehavioursFollow ==
  ~failed =>
    /\ graph.seen # None =>
         /\ graph.seen.nodes = graph.nodes
         /\ graph.seen.edges = ToSet(graph.edges)
         /\ graph.seen.groups = graph.groups
    /\ \A n \in graph.nodes : graph.told[n] \in {None, Known(n)}
    /\ \A k \in graph.groups : graph.toldOf[k] \in {None, graph.members[k]}

(* The edges that end at e, at an edge that ends at e, and so on. *)
RECURSIVE EndingAt(_, _)
EndingAt(g, e) == {e} \cup UNION {EndingAt(g, h) : h \in ToSet(g.hin[e])}

(* An edge that goes takes exactly the hyper edges with it that end at it,  *)
(* directly or not, whether it was removed itself or one of its nodes was.  *)
CascadeExact ==
  [][LET gone == ToSet(graph.edges) \ ToSet(graph'.edges)
         first == {e \in gone : graph.hdst[e] \notin gone}
     IN ~failed' => gone = UNION {EndingAt(graph, e) : e \in first}]_vars

(* A removal that throws leaves the graph half edited.  From a coherent     *)
(* graph it happens in two cases only: two hyper edges end at one edge, or  *)
(* an edge and a hyper edge that ends at it have the same source.           *)
ThrowsOnlyOnHyperEdges ==
  [][failed' /\ ~failed =>
       \/ \E e \in Edge : Len(graph.hin[e]) > 1
       \/ \E e \in Edge : \E h \in EndingAt(graph, e) \ {e} :
            graph.src[h] = graph.src[e]]_vars
==============================================================================
