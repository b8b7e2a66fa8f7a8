------------------------------- MODULE QanPorts -------------------------------
(***************************************************************************)
(* Ports: the items on a node that edges are bound to, with the edge items *)
(* each port lists and the multiplicity that limits them.                  *)
(*                                                                         *)
(* A binding is recorded twice, in the edge item (its source and           *)
(* destination items, QPointers) and in the port (containers of plain      *)
(* pointers), and nothing ever takes an edge item out of a port's lists:   *)
(* not another binding of the edge, nor its removal.                       *)
(*                                                                         *)
(* The graph underneath is module Digraph.  Abstractions: a port's list is *)
(* a set, only whether it is empty matters; an edge is not given the       *)
(* address of one a port still lists; the ends of an edge item are set by  *)
(* the graph only (they are writable properties); edges have items.        *)
(***************************************************************************)
EXTENDS Naturals, FiniteSets

CONSTANTS
  Node, Edge,   \* identities of nodes and edges, and of their items
  Port,         \* identities of port items
  None          \* nullptr

ASSUME PortAssumption ==
  /\ Node \cap Port = {}
  /\ None \notin Node \cup Port

VARIABLES
  nodes, links,  \* the graph, see Digraph
  ports,         \* port items that exist
  host,          \* the node of the port (NodeItem::_node), a QPointer
  type,          \* PortItem::_type
  single,        \* ports with _multiplicity Single
  outItems,      \* PortItem::_outEdgeItems
  inItems,       \* PortItem::_inEdgeItems
  tail, head     \* EdgeItem::_sourceItem and _destinationItem

portState == <<ports, host, type, single, outItems, inItems>>
vars == <<nodes, links, portState, tail, head>>

G == INSTANCE Digraph

Type == {"InOut", "In", "Out"}
edges == {l[2] : l \in links}
Without(f, S) == [e \in Edge |-> IF e \in S \/ f[e] \in S THEN None ELSE f[e]]

Init ==
  /\ G!Init
  /\ ports = {}
  /\ host = [p \in Port |-> None]
  /\ type = [p \in Port |-> "InOut"]
  /\ single = {}
  /\ outItems = [p \in Port |-> {}]
  /\ inItems = [p \in Port |-> {}]
  /\ tail = [e \in Edge |-> None]
  /\ head = [e \in Edge |-> None]

------------------------------------------------------------------------------
InsertNode(n) == G!AddNode(n) /\ UNCHANGED <<portState, tail, head>>

(* insertEdge(), configureEdge(): the edge item joins the two node items. *)
InsertEdge(s, e, d) ==
  /\ \A p \in Port : e \notin outItems[p] \cup inItems[p]
  /\ G!AddLink(s, e, d)
  /\ tail' = [tail EXCEPT ![e] = s]
  /\ head' = [head EXCEPT ![e] = d]
  /\ UNCHANGED portState

(* The items of the edges of X are destroyed; the ports are not told.       *)
DropItems(X) ==
  /\ tail' = Without(tail, X)
  /\ head' = Without(head, X)

RemoveEdge(l) ==
  /\ G!RemoveLink(l)
  /\ DropItems({l[2]})
  /\ UNCHANGED portState

(* removeNode(): the ports of the node outlive it. *)
RemoveNode(n) ==
  /\ G!RemoveNode(n)
  /\ DropItems({l[2] : l \in G!Touching(n)})
  /\ host' = [p \in Port |-> IF host[p] = n THEN None ELSE host[p]]
  /\ UNCHANGED <<ports, type, single, outItems, inItems>>

(* clear() *)
Clear ==
  /\ G!Clear
  /\ DropItems(edges)
  /\ host' = [p \in Port |-> None]
  /\ UNCHANGED <<ports, type, single, outItems, inItems>>

------------------------------------------------------------------------------
InsertPort(p, n, t) ==
  /\ p \notin ports
  /\ n \in nodes
  /\ ports' = ports \cup {p}
  /\ host' = [host EXCEPT ![p] = n]
  /\ type' = [type EXCEPT ![p] = t]
  /\ UNCHANGED <<nodes, links, single, outItems, inItems, tail, head>>

SetMultiplicity(p, one) ==
  /\ p \in ports
  /\ single' = IF one THEN single \cup {p} ELSE single \ {p}
  /\ UNCHANGED <<nodes, links, ports, host, type, outItems, inItems, tail, head>>

(* Mutants of SourceBindable: a Multiple port takes every edge; the in      *)
(* edges are counted instead of the out edges.                              *)
BindableIfMultiple(p) == p \in single => type[p] \in {"Out", "InOut"} /\ outItems[p] = {}
BindableIfNoInEdge(p) == type[p] \in {"Out", "InOut"} /\ (p \in single => inItems[p] = {})

(* isEdgeSourceBindable(), isEdgeDestinationBindable() *)
SourceBindable(p) == type[p] \in {"Out", "InOut"} /\ (p \in single => outItems[p] = {})
DestinationBindable(p) == type[p] \in {"In", "InOut"} /\ (p \in single => inItems[p] = {})

(* bindEdgeSource(), bindEdgeDestination(), for any edge and any port. *)
SourceBound(e, p) ==
  /\ SourceBindable(p)
  /\ tail' = [tail EXCEPT ![e] = p]
  /\ outItems' = [outItems EXCEPT ![p] = @ \cup {e}]

DestinationBound(e, p) ==
  /\ DestinationBindable(p)
  /\ head' = [head EXCEPT ![e] = p]
  /\ inItems' = [inItems EXCEPT ![p] = @ \cup {e}]

BindEdgeSource(e, p) ==
  /\ e \in edges /\ p \in ports
  /\ SourceBound(e, p)
  /\ UNCHANGED <<nodes, links, ports, host, type, single, inItems, head>>

BindEdgeDestination(e, p) ==
  /\ e \in edges /\ p \in ports
  /\ DestinationBound(e, p)
  /\ UNCHANGED <<nodes, links, ports, host, type, single, outItems, tail>>

(* bindEdge(): when only one of the two ends can be bound, only it is, and  *)
(* the step is one of the two above.                                        *)
BindEdge(e, p, q) ==
  /\ e \in edges /\ {p, q} \subseteq ports
  /\ SourceBound(e, p)
  /\ DestinationBound(e, q)
  /\ UNCHANGED <<nodes, links, ports, host, type, single>>

(* removePort() walks the in edges of the host, then its out edges, and     *)
(* removes those bound to the port.  Each removal shortens the list being   *)
(* walked, so that the walk steps over the next edge: of the edges bound to *)
(* the port, down to one in two is removed, depending on their order.       *)
Connected(p) == {l \in links : p \in {tail[l[2]], head[l[2]]}}
Walked(X) == {R \in SUBSET X : 2 * Cardinality(R) >= Cardinality(X)}

RemovePort(p) ==
  /\ p \in ports
  /\ host[p] # None
  /\ \E R \in Walked({l \in Connected(p) : l[3] = host[p]}) :
       \E Q \in Walked({l \in Connected(p) \ R : l[1] = host[p]}) :
         /\ links' = links \ (R \cup Q)
         /\ DropItems({p} \cup {l[2] : l \in R \cup Q})
  /\ ports' = ports \ {p}
  /\ host' = [host EXCEPT ![p] = None]
  /\ single' = single \ {p}
  /\ outItems' = [outItems EXCEPT ![p] = {}]
  /\ inItems' = [inItems EXCEPT ![p] = {}]
  /\ UNCHANGED <<nodes, type>>

Next ==
  \/ \E n \in Node : InsertNode(n)
  \/ \E n \in Node : RemoveNode(n)
  \/ \E s, d \in Node, e \in Edge : InsertEdge(s, e, d)
  \/ \E l \in links : RemoveEdge(l)
  \/ Clear
  \/ \E p \in Port, n \in Node, t \in Type : InsertPort(p, n, t)
  \/ \E p \in Port, one \in BOOLEAN : SetMultiplicity(p, one)
  \/ \E e \in Edge, p \in Port : BindEdgeSource(e, p)
  \/ \E e \in Edge, p \in Port : BindEdgeDestination(e, p)
  \/ \E e \in Edge, p, q \in Port : BindEdge(e, p, q)
  \/ \E p \in Port : RemovePort(p)

Spec == Init /\ [][Next]_vars

------------------------------------------------------------------------------
TypeOK ==
  /\ nodes \in SUBSET Node
  /\ links \in SUBSET (nodes \X Edge \X nodes)
  /\ ports \in SUBSET Port
  /\ host \in [Port -> nodes \cup {None}]
  /\ type \in [Port -> Type]
  /\ single \in SUBSET ports
  /\ outItems \in [Port -> SUBSET Edge]
  /\ inItems \in [Port -> SUBSET Edge]
  /\ tail \in [Edge -> nodes \cup ports \cup {None}]
  /\ head \in [Edge -> nodes \cup ports \cup {None}]

(* A port an edge of the graph is bound to lists the edge, on the side the  *)
(* port's type allows: the multiplicity check and the layout rely on it.    *)
BoundIsListed ==
  \A e \in edges : \A p \in ports :
    /\ tail[e] = p => e \in outItems[p] /\ type[p] # "In"
    /\ head[e] = p => e \in inItems[p] /\ type[p] # "Out"

Joining(f, g, p) == {e \in edges : g[e] = p /\ f[e] # p}

(* "Do not connect an edge to a port that has Single multiplicity and       *)
(* already has an in edge" (qanGraph.cpp:620): whatever was bound, rebound  *)
(* and removed before, an edge never joins another one there.               *)
SingleNotShared ==
  [][\A p \in ports \cap single :
       /\ (\E e \in edges : tail[e] = p) => Joining(tail, tail', p) = {}
       /\ (\E e \in edges : head[e] = p) => Joining(head, head', p) = {}]_vars
==============================================================================
