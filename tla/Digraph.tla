------------------------------- MODULE Digraph -------------------------------
(***************************************************************************)
(* What a gtpo::GenGraph promises to its users: a finite directed          *)
(* multigraph.  A link <<s, e, d>> says that edge e leads from node s to   *)
(* node d.  Nodes come and go, a node leaves together with every link that *)
(* touches it, and nothing else ever disappears.                           *)
(***************************************************************************)
CONSTANTS
  Node,   \* identities nodes can have
  Edge    \* identities edges can have

VARIABLES
  nodes,  \* the nodes of the graph
  links   \* its links, a set of <<source, edge, destination>>

vars == <<nodes, links>>

(* The links that start or end at node n. *)
Touching(n) == {l \in links : l[1] = n \/ l[3] = n}

(* The parallel links from s to d. *)
Parallel(s, d) == {l \in links : l[1] = s /\ l[3] = d}

Init == nodes = {} /\ links = {}

AddNode(n) ==
  /\ n \notin nodes
  /\ nodes' = nodes \cup {n}
  /\ UNCHANGED links

RemoveNode(n) ==
  /\ n \in nodes
  /\ nodes' = nodes \ {n}
  /\ links' = links \ Touching(n)

AddLink(s, e, d) ==
  /\ {s, d} \subseteq nodes
  /\ \A l \in links : l[2] # e
  /\ links' = links \cup {<<s, e, d>>}
  /\ UNCHANGED nodes

RemoveLink(l) ==
  /\ l \in links
  /\ links' = links \ {l}
  /\ UNCHANGED nodes

RemoveParallel(s, d) ==
  /\ links' = links \ Parallel(s, d)
  /\ UNCHANGED nodes

Clear == nodes' = {} /\ links' = {}

Next ==
  \/ \E n \in Node : AddNode(n) \/ RemoveNode(n)
  \/ \E s, d \in Node, e \in Edge : AddLink(s, e, d)
  \/ \E l \in links : RemoveLink(l)
  \/ \E s, d \in Node : RemoveParallel(s, d)
  \/ Clear

Spec == Init /\ [][Next]_vars
==============================================================================
