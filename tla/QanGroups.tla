------------------------------- MODULE QanGroups -------------------------------
(***************************************************************************)
(* Groups of nodes: gtpo::GenGroup with its two adjacent edges behaviours, *)
(* qan::Graph's group operations, and the part of qan::GroupItem that      *)
(* keeps the scene in step with them (which item is the visual parent of a *)
(* node item, which edge items a collapsed group hides).                   *)
(*                                                                         *)
(* The graph underneath is module Digraph, which the adjacency lists of    *)
(* GTpoTopology implement.  A membership is recorded twice, in the node    *)
(* (groupOf) and in the group (members), and the adjacent edges of a group *)
(* are a cache maintained by callbacks; the code lets a client group a     *)
(* node that is in a group already, and removes nodes without ungrouping.  *)
(*                                                                         *)
(* Abstractions.  A container of weak pointers is a set: a node is erased  *)
(* from the list of a group with all its entries, so how many there are is *)
(* never looked at.  A pointer to a destroyed object is the entry Expired, *)
(* whichever object it was.  Groups inside groups are outside this module, *)
(* and so is the geometry of an edge: moving one of its ends always yields *)
(* a line that can be drawn.                                               *)
(***************************************************************************)
EXTENDS FiniteSets

CONSTANTS
  Node, Edge,   \* identities of nodes and edges
  Group,        \* identities of groups
  NoGroup,      \* an empty or expired weak_ptr to a group
  Canvas,       \* the graph container item, parent of every ungrouped item
  Expired       \* an expired weak_ptr left in a container

ASSUME GroupAssumption ==
  /\ NoGroup \notin Group
  /\ Canvas \notin Group
  /\ Expired \notin Node \cup Edge

VARIABLES
  nodes, links,    \* the graph, see Digraph
  groups,          \* GenGraph::_groups
  groupOf,         \* GenNode::_group
  members,         \* GenGroup::_nodes
  adjacentEdges,   \* GenGroup::_adjacentEdges
  itemParent,      \* the parent item of the node's item
  collapsed,       \* GroupItem::_collapsed
  hidden           \* edges whose item is not visible

grouping == <<groups, groupOf, members, adjacentEdges, itemParent, collapsed, hidden>>
vars == <<nodes, links, grouping>>

G == INSTANCE Digraph

edges == {l[2] : l \in links}
EdgesOf(n) == {l[2] : l \in G!Touching(n)}

Init ==
  /\ G!Init
  /\ groups = {}
  /\ groupOf = [n \in Node |-> NoGroup]
  /\ members = [g \in Group |-> {}]
  /\ adjacentEdges = [g \in Group |-> {}]
  /\ itemParent = [n \in Node |-> Canvas]
  /\ collapsed = [g \in Group |-> FALSE]
  /\ hidden = {}

------------------------------------------------------------------------------
(* Changes of the graph, with the behaviour that keeps the adjacent edges. *)

InsertNode(n) == G!AddNode(n) /\ UNCHANGED grouping

(* insertEdge(), edgeInserted(): the edge becomes adjacent to the groups of *)
(* its ends.  Its item is drawn, whether these groups are collapsed or not. *)
InsertEdge(s, e, d) ==
  /\ G!AddLink(s, e, d)
  /\ adjacentEdges' = [g \in Group |-> IF g \in {groupOf[s], groupOf[d]}
                                       THEN adjacentEdges[g] \cup {e}
                                       ELSE adjacentEdges[g]]
  /\ UNCHANGED <<groups, groupOf, members, itemParent, collapsed, hidden>>

(* edgeRemoved() for each link of X: the edge leaves the sets of its ends'  *)
(* present groups; a set of any other group keeps an expired entry.         *)
AdjacentWithout(X) ==
  [g \in Group |->
     LET told == {l[2] : l \in {k \in X : g \in {groupOf[k[1]], groupOf[k[3]]}}}
         gone == {l[2] : l \in X}
     IN  (adjacentEdges[g] \ gone)
           \cup {Expired : e \in (adjacentEdges[g] \cap gone) \ told}]

DropLinks(X) ==
  /\ adjacentEdges' = AdjacentWithout(X)
  /\ hidden' = hidden \ {l[2] : l \in X}

RemoveEdge(l) ==
  /\ G!RemoveLink(l)
  /\ DropLinks({l})
  /\ UNCHANGED <<groups, groupOf, members, itemParent, collapsed>>

RemoveAllEdges(s, d) ==
  /\ G!Parallel(s, d) # {}
  /\ G!RemoveParallel(s, d)
  /\ DropLinks(G!Parallel(s, d))
  /\ UNCHANGED <<groups, groupOf, members, itemParent, collapsed>>

(* removeNode(): the node is destroyed but not ungrouped, the lists of its  *)
(* groups keep expired entries.                                             *)
RemoveNode(n) ==
  /\ G!RemoveNode(n)
  /\ DropLinks(G!Touching(n))
  /\ groupOf' = [groupOf EXCEPT ![n] = NoGroup]
  /\ itemParent' = [itemParent EXCEPT ![n] = Canvas]
  /\ members' = [g \in Group |-> IF n \in members[g]
                                 THEN (members[g] \ {n}) \cup {Expired}
                                 ELSE members[g]]
  /\ UNCHANGED <<groups, collapsed>>

(* clear(): edges, nodes and groups are destroyed. *)
Clear ==
  /\ G!Clear
  /\ groups' = {}
  /\ groupOf' = [n \in Node |-> NoGroup]
  /\ members' = [g \in Group |-> {}]
  /\ adjacentEdges' = [g \in Group |-> {}]
  /\ itemParent' = [n \in Node |-> Canvas]
  /\ collapsed' = [g \in Group |-> FALSE]
  /\ hidden' = {}

------------------------------------------------------------------------------
(* Moving the item of a node (by the user, or because its parent changed)   *)
(* updates the items of its edges, and an updated edge item is made visible. *)
Moved(N) == hidden \ UNION {EdgesOf(n) : n \in N}

MoveNode(n) ==
  /\ n \in nodes
  /\ hidden' = Moved({n})
  /\ UNCHANGED <<nodes, links, groups, groupOf, members, adjacentEdges, itemParent, collapsed>>

InsertGroup(g) ==
  /\ g \notin groups
  /\ groups' = groups \cup {g}
  /\ UNCHANGED <<nodes, links, groupOf, members, adjacentEdges, itemParent, collapsed, hidden>>

(* groupNode(): the node forgets its previous group, but that group does    *)
(* not forget the node.  nodeInserted() makes its edges adjacent, then      *)
(* groupNodeItem() reparents its item, which may change its position.       *)
GroupNode(g, n) ==
  /\ g \in groups
  /\ n \in nodes
  /\ groupOf' = [groupOf EXCEPT ![n] = g]
  /\ members' = [members EXCEPT ![g] = @ \cup {n}]
  /\ adjacentEdges' = [adjacentEdges EXCEPT ![g] = @ \cup EdgesOf(n)]
  /\ itemParent' = [itemParent EXCEPT ![n] = g]
  /\ \E N \in SUBSET {n} : hidden' = Moved(N)
  /\ UNCHANGED <<nodes, links, groups, collapsed>>

(* Mutant of LeavingWith: out edges stay. *)
InEdgesLeavingWith(n, g) == {l[2] : l \in {k \in links : k[3] = n /\ groupOf[k[1]] # g}}

(* The edges nodeRemoved() takes from the adjacent edges of g when n leaves *)
(* it: those whose other end is not in g.  The node itself is still in g    *)
(* when it looks, so a self loop stays.                                     *)
LeavingWith(n, g) ==
  {l[2] : l \in {k \in links : k[3] = n /\ groupOf[k[1]] # g}}
    \cup {l[2] : l \in {k \in links : k[1] = n /\ groupOf[k[3]] # g}}

(* Mutants of UngroupNode: the node keeps its group; its item is not moved. *)
UngroupNodeKeepingGroup(n) ==
  LET g == groupOf[n] IN
  /\ n \in nodes
  /\ g # NoGroup
  /\ itemParent' = [itemParent EXCEPT ![n] = Canvas]
  /\ members' = [members EXCEPT ![g] = @ \ {n}]
  /\ adjacentEdges' = [adjacentEdges EXCEPT ![g] = @ \ LeavingWith(n, g)]
  /\ UNCHANGED <<nodes, links, groups, groupOf, collapsed, hidden>>

UngroupNodeKeepingItem(n) ==
  LET g == groupOf[n] IN
  /\ n \in nodes
  /\ g # NoGroup
  /\ members' = [members EXCEPT ![g] = @ \ {n}]
  /\ adjacentEdges' = [adjacentEdges EXCEPT ![g] = @ \ LeavingWith(n, g)]
  /\ groupOf' = [groupOf EXCEPT ![n] = NoGroup]
  /\ UNCHANGED <<nodes, links, groups, itemParent, collapsed, hidden>>

(* ungroupNode(): first ungroupNodeItem(), then the node leaves the list of *)
(* its present group with all its entries.                                  *)
UngroupNode(n) ==
  LET g == groupOf[n] IN
  /\ n \in nodes
  /\ g # NoGroup
  /\ itemParent' = [itemParent EXCEPT ![n] = Canvas]
  /\ members' = [members EXCEPT ![g] = @ \ {n}]
  /\ adjacentEdges' = [adjacentEdges EXCEPT ![g] = @ \ LeavingWith(n, g)]
  /\ groupOf' = [groupOf EXCEPT ![n] = NoGroup]
  /\ \E N \in SUBSET {n} : hidden' = Moved(N)
  /\ UNCHANGED <<nodes, links, groups, collapsed>>

(* removeGroup(): ungroupNodeItem() for every node the group lists, then    *)
(* the group is destroyed, and with it the children of its item.            *)
RemoveGroup(g) ==
  /\ g \in groups
  /\ itemParent' = [n \in Node |-> IF n \in members[g] THEN Canvas ELSE itemParent[n]]
  /\ \E N \in SUBSET (members[g] \ {Expired}) : hidden' = Moved(N)
  /\ groups' = groups \ {g}
  /\ groupOf' = [n \in Node |-> IF groupOf[n] = g THEN NoGroup ELSE groupOf[n]]
  /\ members' = [members EXCEPT ![g] = {}]
  /\ adjacentEdges' = [adjacentEdges EXCEPT ![g] = {}]
  /\ collapsed' = [collapsed EXCEPT ![g] = FALSE]
  /\ UNCHANGED <<nodes, links>>

(* setCollapsed(): every adjacent edge still alive is hidden, or shown. *)
SetCollapsed(g, c) ==
  /\ g \in groups
  /\ collapsed[g] # c
  /\ collapsed' = [collapsed EXCEPT ![g] = c]
  /\ hidden' = IF c THEN hidden \cup (adjacentEdges[g] \cap edges)
                    ELSE hidden \ adjacentEdges[g]
  /\ UNCHANGED <<nodes, links, groups, groupOf, members, adjacentEdges, itemParent>>

Next ==
  \/ \E n \in Node : InsertNode(n)
  \/ \E n \in Node : RemoveNode(n)
  \/ \E s, d \in Node, e \in Edge : InsertEdge(s, e, d)
  \/ \E l \in links : RemoveEdge(l)
  \/ \E s, d \in Node : RemoveAllEdges(s, d)
  \/ Clear
  \/ \E n \in Node : MoveNode(n)
  \/ \E g \in Group : InsertGroup(g)
  \/ \E g \in Group, n \in Node : GroupNode(g, n)
  \/ \E n \in Node : UngroupNode(n)
  \/ \E g \in Group : RemoveGroup(g)
  \/ \E g \in Group, c \in BOOLEAN : SetCollapsed(g, c)

Spec == Init /\ [][Next]_vars

------------------------------------------------------------------------------
TypeOK ==
  /\ nodes \in SUBSET Node
  /\ links \in SUBSET (nodes \X Edge \X nodes)
  /\ groups \in SUBSET Group
  /\ groupOf \in [Node -> Group \cup {NoGroup}]
  /\ members \in [Group -> SUBSET (Node \cup {Expired})]
  /\ adjacentEdges \in [Group -> SUBSET (Edge \cup {Expired})]
  /\ itemParent \in [Node -> Group \cup {Canvas}]
  /\ collapsed \in [Group -> BOOLEAN]
  /\ hidden \in SUBSET edges

(* A node that names a group is in the graph, the group exists and lists    *)
(* it, however often nodes are grouped twice, moved between groups, removed *)
(* and created again.                                                       *)
MembershipCoherent ==
  \A n \in Node : groupOf[n] # NoGroup =>
    /\ n \in nodes
    /\ groupOf[n] \in groups
    /\ n \in members[groupOf[n]]

(* The adjacent edges of a group cover every edge of its nodes, in          *)
(* whichever order edges were created and nodes grouped: collapsing or      *)
(* moving a group must reach all of them.                                   *)
AdjacencyComplete ==
  \A l \in links : \A g \in {groupOf[l[1]], groupOf[l[3]]} \cap Group :
    l[2] \in adjacentEdges[g]

(* A live edge between two nodes is adjacent only to groups that list one   *)
(* of its ends, also when nodes left in an order nodeRemoved() has to       *)
(* compensate for.  Self loops are the exception: ungroupNode() notifies    *)
(* before it resets the group of the node (gtpoGenGraph.h:432).             *)
AdjacencySound ==
  \A l \in links : \A g \in Group :
    l[1] # l[3] /\ l[2] \in adjacentEdges[g] => {l[1], l[3]} \cap members[g] # {}

(* Neither more nor less than that is adjacent to a group.                  *)
AdjacencyCoherent == AdjacencyComplete /\ AdjacencySound

(* The group whose item contains the item of a node is the present group of *)
(* the node and lists it, so removeGroup() finds it and reparents it:       *)
(* "otherwise all child iems get destructed too" (qanGraph.cpp:828).        *)
NoItemLost ==
  \A n \in Node : itemParent[n] # Canvas =>
    /\ itemParent[n] = groupOf[n]
    /\ n \in members[itemParent[n]]
==============================================================================
