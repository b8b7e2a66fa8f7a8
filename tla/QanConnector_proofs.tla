-------------------------- MODULE QanConnector_proofs --------------------------
(***************************************************************************)
(* Proofs about QanPorts and QanConnector, for every set of nodes, edges   *)
(* and ports.                                                              *)
(*                                                                         *)
(* The types are not inductive by themselves: that no edge item keeps the  *)
(* item of a node that is gone holds because an edge item whose end is a   *)
(* node belongs to a link that ends there, which goes with the node.       *)
(*                                                                         *)
(* The connector has a step that is no step of QanPorts, an edge inserted  *)
(* and bound at once.  What it draws needs to know that it has one host at *)
(* most, which exists.                                                     *)
(***************************************************************************)
EXTENDS QanConnector, TLAPS

(* Edges have one link, and the ends of an edge item are those of its link *)
(* as long as they are nodes.                                              *)
OneLink == \A l, m \in links : l[2] = m[2] => l = m

EndsOfLinks ==
  \A e \in Edge :
    /\ tail[e] # None => e \in edges
    /\ head[e] # None => e \in edges
    /\ tail[e] \in Node => \E l \in links : l[2] = e /\ l[1] = tail[e]
    /\ head[e] \in Node => \E l \in links : l[2] = e /\ l[3] = head[e]

IInv == TypeOK /\ OneLink /\ EndsOfLinks /\ BoundIsListed

------------------------------------------------------------------------------
(* Dropping edge items keeps the ends of the others. *)
LEMMA WithoutSome ==
  ASSUME NEW f, NEW S
  PROVE  /\ DOMAIN Without(f, S) = Edge
         /\ \A e \in Edge : Without(f, S)[e] = None \/ (Without(f, S)[e] = f[e] /\ e \notin S /\ f[e] \notin S)
  BY DEF Without

(* Edges, and the items of ports and nodes, may go together with the items    *)
(* that know them.                                                            *)
LEMMA RemovalStep ==
  ASSUME IInv, NEW S,
         links' \subseteq links, nodes' \subseteq nodes, ports' \subseteq ports,
         \A l \in links' : l[1] \in nodes' /\ l[3] \in nodes',
         \A l \in links \ links' : l[2] \in S,
         ports \ ports' \subseteq S,
         tail' = Without(tail, S), head' = Without(head, S), type' = type,
         host' \in [Port -> nodes' \cup {None}], single' \in SUBSET ports',
         outItems' \in [Port -> SUBSET Edge], inItems' \in [Port -> SUBSET Edge],
         \A p \in ports' : outItems'[p] = outItems[p] /\ inItems'[p] = inItems[p]
  PROVE  IInv'
  <1>1. OneLink'
    BY DEF IInv, OneLink
  <1>2. EndsOfLinks'
    <2> SUFFICES ASSUME NEW e \in Edge
                 PROVE  /\ tail'[e] # None => e \in edges'
                        /\ head'[e] # None => e \in edges'
                        /\ tail'[e] \in Node => \E l \in links' : l[2] = e /\ l[1] = tail'[e]
                        /\ head'[e] \in Node => \E l \in links' : l[2] = e /\ l[3] = head'[e]
      BY DEF EndsOfLinks
    <2>1. /\ tail'[e] # None => tail'[e] = tail[e] /\ e \notin S
          /\ head'[e] # None => head'[e] = head[e] /\ e \notin S
      BY WithoutSome
    <2>2. e \notin S => \A l \in links : l[2] = e => l \in links'
      OBVIOUS
    <2>3. /\ tail[e] # None => \E l \in links : l[2] = e
          /\ head[e] # None => \E l \in links : l[2] = e
      BY DEF IInv, EndsOfLinks, edges
    <2>4. /\ tail'[e] # None => e \in edges'
          /\ head'[e] # None => e \in edges'
      BY <2>1, <2>2, <2>3 DEF edges
    <2>5. /\ tail[e] \in Node => \E l \in links : l[2] = e /\ l[1] = tail[e]
          /\ head[e] \in Node => \E l \in links : l[2] = e /\ l[3] = head[e]
      BY DEF IInv, EndsOfLinks
    <2> QED BY <2>1, <2>2, <2>4, <2>5, PortAssumption
  <1>3. TypeOK'
    <2>1. links' \in SUBSET (nodes' \X Edge \X nodes')
      BY DEF IInv, TypeOK
    <2>2. \A e \in Edge : /\ tail'[e] \in nodes' \cup ports' \cup {None}
                          /\ head'[e] \in nodes' \cup ports' \cup {None}
      <3> SUFFICES ASSUME NEW e \in Edge
                   PROVE  /\ tail'[e] \in nodes' \cup ports' \cup {None}
                          /\ head'[e] \in nodes' \cup ports' \cup {None}
        OBVIOUS
      <3>1. /\ tail'[e] # None => tail'[e] = tail[e] /\ tail[e] \notin S
            /\ head'[e] # None => head'[e] = head[e] /\ head[e] \notin S
        BY WithoutSome
      <3>2. /\ tail'[e] \in Node => \E l \in links' : l[1] = tail'[e]
            /\ head'[e] \in Node => \E l \in links' : l[3] = head'[e]
        BY <1>2 DEF EndsOfLinks
      <3>3. /\ tail[e] \in nodes \cup ports \cup {None}
            /\ head[e] \in nodes \cup ports \cup {None}
        BY DEF IInv, TypeOK
      <3> QED BY <3>1, <3>2, <3>3 DEF IInv, TypeOK
    <2>3. tail' \in [Edge -> nodes' \cup ports' \cup {None}]
      BY <2>2 DEF Without
    <2>4. head' \in [Edge -> nodes' \cup ports' \cup {None}]
      BY <2>2 DEF Without
    <2> QED BY <2>1, <2>3, <2>4 DEF IInv, TypeOK
  <1>4. BoundIsListed'
    <2> SUFFICES ASSUME NEW e \in edges', NEW p \in ports'
                 PROVE  /\ tail'[e] = p => e \in outItems'[p] /\ type'[p] # "In"
                        /\ head'[e] = p => e \in inItems'[p] /\ type'[p] # "Out"
      BY DEF BoundIsListed
    <2>1. e \in edges /\ e \in Edge /\ p # None
      BY PortAssumption DEF edges, IInv, TypeOK
    <2>2. /\ tail'[e] = p => tail[e] = p
          /\ head'[e] = p => head[e] = p
      BY <2>1, WithoutSome
    <2> QED BY <2>1, <2>2 DEF IInv, BoundIsListed
  <1> QED BY <1>1, <1>2, <1>3, <1>4 DEF IInv

(* An end that is bound to a port of the graph that lists the edge. *)
LEMMA BindingStep ==
  ASSUME IInv, NEW e \in edges, NEW p \in ports, NEW q \in ports,
         UNCHANGED <<nodes, links, ports, host, type, single>>,
         \/ UNCHANGED <<tail, outItems>> \/ SourceBound(e, p),
         \/ UNCHANGED <<head, inItems>> \/ DestinationBound(e, q)
  PROVE  IInv'
  <1>0. e \in Edge /\ edges' = edges /\ p \in Port /\ q \in Port /\ p \notin Node /\ q \notin Node
    BY PortAssumption DEF IInv, TypeOK, edges
  <1>1. /\ tail' \in [Edge -> nodes \cup ports \cup {None}]
        /\ outItems' \in [Port -> SUBSET Edge]
    BY <1>0 DEF SourceBound, IInv, TypeOK
  <1>2. /\ head' \in [Edge -> nodes \cup ports \cup {None}]
        /\ inItems' \in [Port -> SUBSET Edge]
    BY <1>0 DEF DestinationBound, IInv, TypeOK
  <1>3. TypeOK'
    BY <1>1, <1>2 DEF IInv, TypeOK
  <1>4. OneLink'
    BY DEF IInv, OneLink
  <1>5. \A x \in Edge : tail'[x] = tail[x] \/ (x = e /\ tail'[x] = p)
    BY <1>0 DEF SourceBound, IInv, TypeOK
  <1>6. \A x \in Edge : head'[x] = head[x] \/ (x = e /\ head'[x] = q)
    BY <1>0 DEF DestinationBound, IInv, TypeOK
  <1>7. EndsOfLinks'
    BY <1>0, <1>5, <1>6 DEF IInv, EndsOfLinks
  <1>8. ASSUME NEW x \in edges, NEW r \in ports, tail'[x] = r
        PROVE  x \in outItems'[r] /\ type[r] # "In"
    BY <1>0, <1>8 DEF SourceBound, SourceBindable, IInv, TypeOK, BoundIsListed, edges
  <1>9. ASSUME NEW x \in edges, NEW r \in ports, head'[x] = r
        PROVE  x \in inItems'[r] /\ type[r] # "Out"
    BY <1>0, <1>9 DEF DestinationBound, DestinationBindable, IInv, TypeOK, BoundIsListed, edges
  <1>10. BoundIsListed'
    BY <1>0, <1>8, <1>9 DEF BoundIsListed
  <1> QED BY <1>3, <1>4, <1>7, <1>10 DEF IInv

(* A new edge joins two nodes, and no port lists it. *)
LEMMA InsertEdgeStep ==
  ASSUME IInv, NEW s \in Node, NEW d \in Node, NEW e \in Edge, InsertEdge(s, e, d)
  PROVE  IInv'
  <1> DEFINE new == <<s, e, d>>
  <1>1. /\ links' = links \cup {new} /\ \A l \in links : l[2] # e
        /\ s \in nodes /\ d \in nodes /\ nodes' = nodes
        /\ tail' = [tail EXCEPT ![e] = s] /\ head' = [head EXCEPT ![e] = d]
        /\ UNCHANGED portState
    BY DEF InsertEdge, G!AddLink
  <1>2. TypeOK'
    BY <1>1 DEF IInv, TypeOK, portState
  <1>3. OneLink'
    BY <1>1 DEF IInv, OneLink
  <1>4. /\ tail'[e] = s /\ head'[e] = d
        /\ \A x \in Edge \ {e} : tail'[x] = tail[x] /\ head'[x] = head[x]
    BY <1>1 DEF IInv, TypeOK
  <1>5. new \in links' /\ new[1] = s /\ new[2] = e /\ new[3] = d
    BY <1>1
  <1> HIDE DEF new
  <1>6. edges' = edges \cup {e}
    BY <1>1, <1>5 DEF edges
  <1>7. EndsOfLinks'
    <2> SUFFICES ASSUME NEW x \in Edge
                 PROVE  /\ tail'[x] # None => x \in edges'
                        /\ head'[x] # None => x \in edges'
                        /\ tail'[x] \in Node => \E l \in links' : l[2] = x /\ l[1] = tail'[x]
                        /\ head'[x] \in Node => \E l \in links' : l[2] = x /\ l[3] = head'[x]
      BY DEF EndsOfLinks
    <2>1. CASE x = e
      BY <2>1, <1>4, <1>5, <1>6
    <2>2. CASE x # e
      <3>1. /\ tail[x] # None => x \in edges
            /\ head[x] # None => x \in edges
            /\ tail[x] \in Node => \E l \in links : l[2] = x /\ l[1] = tail[x]
            /\ head[x] \in Node => \E l \in links : l[2] = x /\ l[3] = head[x]
        BY DEF IInv, EndsOfLinks
      <3> QED BY <1>1, <1>4, <1>6, <2>2, <3>1
    <2> QED BY <2>1, <2>2
  <1>8. BoundIsListed'
    <2>1. \A x \in edges : x # e /\ x \in Edge
      BY <1>1 DEF edges, IInv, TypeOK
    <2>2. s \notin ports /\ d \notin ports
      BY PortAssumption DEF IInv, TypeOK
    <2> QED BY <1>1, <1>4, <1>6, <2>1, <2>2 DEF IInv, BoundIsListed, portState
  <1> QED BY <1>2, <1>3, <1>7, <1>8 DEF IInv

(* A port that is inserted has the edges of no other one. *)
LEMMA InsertPortStep ==
  ASSUME IInv, NEW p \in Port, NEW n \in Node, NEW t \in Type, InsertPort(p, n, t)
  PROVE  IInv'
  <1>1. TypeOK'
    <2>1. /\ UNCHANGED <<nodes, links, single, outItems, inItems, tail, head>>
          /\ ports' \in SUBSET Port /\ ports \subseteq ports'
      BY DEF InsertPort, IInv, TypeOK
    <2>2. host' \in [Port -> nodes \cup {None}] /\ type' \in [Port -> Type]
      BY DEF InsertPort, IInv, TypeOK
    <2> QED BY <2>1, <2>2 DEF IInv, TypeOK
  <1>2. OneLink' /\ EndsOfLinks' /\ edges' = edges
    <2>1. links' = links /\ tail' = tail /\ head' = head
      BY DEF InsertPort
    <2> QED BY <2>1 DEF IInv, OneLink, EndsOfLinks, edges
  <1>3. \A e \in edges : tail[e] # p /\ head[e] # p
    BY PortAssumption DEF InsertPort, IInv, TypeOK, edges
  <1>4. \A r \in ports : type'[r] = type[r]
    BY DEF InsertPort, IInv, TypeOK
  <1>5. BoundIsListed'
    BY <1>2, <1>3, <1>4 DEF InsertPort, IInv, BoundIsListed
  <1> QED BY <1>1, <1>2, <1>5 DEF IInv

LEMMA RemovePortStep ==
  ASSUME IInv, NEW p \in Port, RemovePort(p)
  PROVE  IInv'
  <1>1. PICK R, Q : links' = links \ (R \cup Q) /\ DropItems({p} \cup {l[2] : l \in R \cup Q})
    BY DEF RemovePort
  <1> DEFINE S == {p} \cup {l[2] : l \in R \cup Q}
  <1>2. /\ tail' = Without(tail, S) /\ head' = Without(head, S)
        /\ \A l \in links \ links' : l[2] \in S
    BY <1>1 DEF DropItems
  <1>3. /\ links' \subseteq links /\ nodes' = nodes /\ type' = type
        /\ ports' = ports \ {p} /\ p \in S
    BY <1>1 DEF RemovePort
  <1>4. \A l \in links' : l[1] \in nodes' /\ l[3] \in nodes'
    BY <1>3 DEF IInv, TypeOK
  <1>5. /\ host' \in [Port -> nodes' \cup {None}] /\ single' \in SUBSET ports'
        /\ outItems' \in [Port -> SUBSET Edge] /\ inItems' \in [Port -> SUBSET Edge]
        /\ \A r \in ports' : outItems'[r] = outItems[r] /\ inItems'[r] = inItems[r]
    BY DEF RemovePort, IInv, TypeOK
  <1> HIDE DEF S
  <1> QED BY <1>2, <1>3, <1>4, <1>5, RemovalStep

------------------------------------------------------------------------------
(* Every step keeps the invariant. *)
LEMMA InvStep == IInv /\ [Next]_vars => IInv'
<1> SUFFICES ASSUME IInv, [Next]_vars PROVE IInv'
  OBVIOUS
<1>1. CASE UNCHANGED vars
  BY <1>1 DEF vars, portState, IInv, TypeOK, OneLink, EndsOfLinks, BoundIsListed, edges
<1>2. CASE Next
  <2>1. ASSUME NEW n \in Node, InsertNode(n) PROVE IInv'
    BY <2>1 DEF InsertNode, G!AddNode, portState, IInv, TypeOK, OneLink, EndsOfLinks,
                BoundIsListed, edges
  <2>2. ASSUME NEW n \in Node, RemoveNode(n) PROVE IInv'
    <3> DEFINE S == {l[2] : l \in G!Touching(n)}
    <3>1. /\ nodes' = nodes \ {n} /\ links' = links \ G!Touching(n)
          /\ tail' = Without(tail, S) /\ head' = Without(head, S)
          /\ host' = [p \in Port |-> IF host[p] = n THEN None ELSE host[p]]
          /\ UNCHANGED <<ports, type, single, outItems, inItems>>
      BY <2>2 DEF RemoveNode, G!RemoveNode, DropItems
    <3>2. /\ \A l \in links' : l[1] \in nodes' /\ l[3] \in nodes'
          /\ \A l \in links \ links' : l[2] \in S
      BY <3>1 DEF G!Touching, IInv, TypeOK
    <3>3. /\ host' \in [Port -> nodes' \cup {None}] /\ single' \in SUBSET ports'
          /\ outItems' \in [Port -> SUBSET Edge] /\ inItems' \in [Port -> SUBSET Edge]
      BY <3>1 DEF IInv, TypeOK
    <3> HIDE DEF S
    <3> QED BY <3>1, <3>2, <3>3, RemovalStep
  <2>3. ASSUME NEW s \in Node, NEW d \in Node, NEW e \in Edge, InsertEdge(s, e, d) PROVE IInv'
    BY <2>3, InsertEdgeStep
  <2>4. ASSUME NEW l \in links, RemoveEdge(l) PROVE IInv'
    <3>1. /\ nodes' = nodes /\ links' = links \ {l}
          /\ tail' = Without(tail, {l[2]}) /\ head' = Without(head, {l[2]})
          /\ UNCHANGED <<ports, host, type, single, outItems, inItems>>
      BY <2>4 DEF RemoveEdge, G!RemoveLink, DropItems, portState
    <3>2. \A m \in links' : m[1] \in nodes' /\ m[3] \in nodes'
      BY <3>1 DEF IInv, TypeOK
    <3> QED BY <3>1, <3>2, RemovalStep DEF IInv, TypeOK
  <2>5. CASE Clear
    <3>1. /\ nodes' = {} /\ links' = {}
          /\ tail' = Without(tail, edges) /\ head' = Without(head, edges)
          /\ host' = [p \in Port |-> None]
          /\ UNCHANGED <<ports, type, single, outItems, inItems>>
      BY <2>5 DEF Clear, G!Clear, DropItems
    <3>2. host' \in [Port -> nodes' \cup {None}] /\ \A l \in links : l[2] \in edges
      BY <3>1 DEF edges
    <3> QED BY <3>1, <3>2, RemovalStep DEF IInv, TypeOK
  <2>6. ASSUME NEW p \in Port, NEW n \in Node, NEW t \in Type, InsertPort(p, n, t) PROVE IInv'
    BY <2>6, InsertPortStep
  <2>7. ASSUME NEW p \in Port, NEW one \in BOOLEAN, SetMultiplicity(p, one) PROVE IInv'
    BY <2>7 DEF SetMultiplicity, IInv, TypeOK, OneLink, EndsOfLinks, BoundIsListed, edges
  <2>8. ASSUME NEW e \in Edge, NEW p \in Port, BindEdgeSource(e, p) PROVE IInv'
    BY <2>8, BindingStep DEF BindEdgeSource
  <2>9. ASSUME NEW e \in Edge, NEW p \in Port, BindEdgeDestination(e, p) PROVE IInv'
    BY <2>9, BindingStep DEF BindEdgeDestination
  <2>10. ASSUME NEW e \in Edge, NEW p \in Port, NEW q \in Port, BindEdge(e, p, q) PROVE IInv'
    BY <2>10, BindingStep DEF BindEdge
  <2>11. ASSUME NEW p \in Port, RemovePort(p) PROVE IInv'
    BY <2>11, RemovePortStep
  <2> QED
    BY <1>2, <2>1, <2>2, <2>3, <2>4, <2>5, <2>6, <2>7, <2>8, <2>9, <2>10, <2>11 DEF Next
<1> QED BY <1>1, <1>2

LEMMA InitInv == Init => IInv
<1> SUFFICES ASSUME Init PROVE IInv
  OBVIOUS
<1>1. nodes = {} /\ links = {} /\ edges = {}
  BY DEF Init, G!Init, edges
<1>2. TypeOK
  BY <1>1 DEF Init, TypeOK, Type
<1>3. EndsOfLinks
  BY PortAssumption DEF Init, EndsOfLinks
<1> QED BY <1>1, <1>2, <1>3 DEF IInv, OneLink, BoundIsListed

LEMMA Invariance == Spec => []IInv
  BY InitInv, InvStep, PTL DEF Spec

(* The types, which say that no edge item keeps the item of a node or port   *)
(* that is gone, and that every edge bound to a port is listed by it.        *)
THEOREM BindingsListed == Spec => [](TypeOK /\ BoundIsListed)
  BY Invariance, PTL DEF IInv

------------------------------------------------------------------------------
(* No edge is bound at either end. *)
LEMMA NoneJoins ==
  ASSUME IInv,
         \A e \in edges : tail'[e] \in {tail[e], None} \cup Node /\ head'[e] \in {head[e], None} \cup Node
  PROVE  \A p \in ports : Joining(tail, tail', p) = {} /\ Joining(head, head', p) = {}
  BY PortAssumption DEF Joining, IInv, TypeOK

(* What a step that binds an end makes join a port. *)
LEMMA SourceJoins ==
  ASSUME IInv, NEW e \in edges, NEW q \in ports, SourceBound(e, q), NEW p \in ports \cap single,
         \E x \in edges : tail[x] = p
  PROVE  Joining(tail, tail', p) = {}
  <1>1. outItems[p] # {} /\ edges \subseteq Edge
    BY DEF IInv, TypeOK, BoundIsListed, edges
  <1>2. p # q
    BY <1>1 DEF SourceBound, SourceBindable
  <1> QED BY <1>1, <1>2 DEF SourceBound, Joining, IInv, TypeOK

LEMMA DestinationJoins ==
  ASSUME IInv, NEW e \in edges, NEW q \in ports, DestinationBound(e, q), NEW p \in ports \cap single,
         \E x \in edges : head[x] = p
  PROVE  Joining(head, head', p) = {}
  <1>1. inItems[p] # {} /\ edges \subseteq Edge
    BY DEF IInv, TypeOK, BoundIsListed, edges
  <1>2. p # q
    BY <1>1 DEF DestinationBound, DestinationBindable
  <1> QED BY <1>1, <1>2 DEF DestinationBound, Joining, IInv, TypeOK

Shares ==
  \E p \in ports \cap single :
    \/ (\E e \in edges : tail[e] = p) /\ Joining(tail, tail', p) # {}
    \/ (\E e \in edges : head[e] = p) /\ Joining(head, head', p) # {}

(* No step of the code adds an edge to a Single port that has one. *)
LEMMA NoStepShares == IInv /\ [Next]_vars => ~Shares
<1> SUFFICES ASSUME IInv, [Next]_vars PROVE ~Shares
  OBVIOUS
<1>0. edges \subseteq Edge
  BY DEF IInv, TypeOK, edges
<1>1. ASSUME tail' = tail, head' = head PROVE ~Shares
  BY <1>1 DEF Shares, Joining
<1>2. ASSUME NEW S, DropItems(S) PROVE ~Shares
  BY <1>0, <1>2, WithoutSome, NoneJoins DEF Shares, DropItems
<1>3. ASSUME UNCHANGED vars PROVE ~Shares
  BY <1>1, <1>3 DEF vars
<1>4. ASSUME NEW s \in Node, NEW d \in Node, NEW e \in Edge, InsertEdge(s, e, d) PROVE ~Shares
  BY <1>0, <1>4, NoneJoins DEF InsertEdge, Shares, IInv, TypeOK
<1>5. ASSUME NEW e \in Edge, NEW p \in Port, BindEdgeSource(e, p) PROVE ~Shares
  <2>1. head' = head /\ e \in edges /\ p \in ports /\ SourceBound(e, p)
    BY <1>5 DEF BindEdgeSource
  <2>2. \A r \in ports : Joining(head, head', r) = {}
    BY <2>1 DEF Joining
  <2> QED BY <2>1, <2>2, SourceJoins DEF Shares
<1>6. ASSUME NEW e \in Edge, NEW p \in Port, BindEdgeDestination(e, p) PROVE ~Shares
  <2>1. tail' = tail /\ e \in edges /\ p \in ports /\ DestinationBound(e, p)
    BY <1>6 DEF BindEdgeDestination
  <2>2. \A r \in ports : Joining(tail, tail', r) = {}
    BY <2>1 DEF Joining
  <2> QED BY <2>1, <2>2, DestinationJoins DEF Shares
<1>7. ASSUME NEW e \in Edge, NEW p \in Port, NEW q \in Port, BindEdge(e, p, q) PROVE ~Shares
  BY <1>7, SourceJoins, DestinationJoins DEF BindEdge, Shares
<1>8. ASSUME NEW p \in Port, RemovePort(p) PROVE ~Shares
  BY <1>2, <1>8 DEF RemovePort
<1>9. ASSUME NEW n \in Node, RemoveNode(n) PROVE ~Shares
  BY <1>2, <1>9 DEF RemoveNode
<1>10. ASSUME NEW l \in links, RemoveEdge(l) PROVE ~Shares
  BY <1>2, <1>10 DEF RemoveEdge
<1>11. CASE Clear
  BY <1>2, <1>11 DEF Clear
<1>12. ASSUME NEW n \in Node, InsertNode(n) PROVE ~Shares
  BY <1>1, <1>12 DEF InsertNode
<1>13. ASSUME NEW p \in Port, NEW n \in Node, NEW t \in Type, InsertPort(p, n, t) PROVE ~Shares
  BY <1>1, <1>13 DEF InsertPort
<1>14. ASSUME NEW p \in Port, NEW one \in BOOLEAN, SetMultiplicity(p, one) PROVE ~Shares
  BY <1>1, <1>14 DEF SetMultiplicity
<1> QED
  BY <1>3, <1>4, <1>5, <1>6, <1>7, <1>8, <1>9, <1>10, <1>11, <1>12, <1>13, <1>14 DEF Next

(* A Single port never has an edge join the one that is bound to it, whatever *)
(* was bound, rebound, removed and changed before.                            *)
THEOREM SinglePortsKept == Spec => SingleNotShared
<1>1. IInv /\ [Next]_vars =>
        [\A p \in ports \cap single :
           /\ (\E e \in edges : tail[e] = p) => Joining(tail, tail', p) = {}
           /\ (\E e \in edges : head[e] = p) => Joining(head, head', p) = {}]_vars
  BY NoStepShares DEF Shares
<1> QED BY <1>1, Invariance, PTL DEF Spec, SingleNotShared

------------------------------------------------------------------------------
(* The connector: a new edge that is bound where the ports accept it.        *)

HostsExist ==
  /\ sourceNode \in nodes \cup {None}
  /\ sourcePort \in ports \cup {None}
  /\ sourceNode = None \/ sourcePort = None

(* Shown or not, the transient edge starts at no other item than the host. *)
StartsAtHost == edgeStart # None /\ NodeOf(hostItem) # None => edgeStart = hostItem

CInv == IInv /\ HostsExist /\ StartsAtHost

(* What the release of the connector does to the edge it creates. *)
LEMMA ReleaseEffect ==
  ASSUME IInv, NEW target \in Item, NEW e \in Edge, ReleaseOn(target, e), HostsExist
  PROVE  \E s, d \in nodes :
           /\ links' = links \cup {<<s, e, d>>} /\ \A l \in links : l[2] # e
           /\ UNCHANGED <<nodes, ports, host, type, single>>
           /\ \A x \in Edge \ {e} : tail'[x] = tail[x] /\ head'[x] = head[x]
           /\ tail'[e] = hostItem /\ head'[e] = target
           /\ \/ hostItem = s /\ outItems' = outItems
              \/ /\ hostItem \in ports /\ type[hostItem] # "In"
                 /\ outItems' = [outItems EXCEPT ![hostItem] = @ \cup {e}]
           /\ \/ target = d /\ inItems' = inItems
              \/ /\ target \in ports /\ type[target] # "Out"
                 /\ inItems' = [inItems EXCEPT ![target] = @ \cup {e}]
  <1> DEFINE s == IF sourceNode # None THEN sourceNode
                  ELSE IF sourcePort # None THEN host[sourcePort] ELSE None
             d == NodeOf(target)
  <1>1. /\ s # None /\ d # None /\ target \in nodes \cup ports
        /\ Accepted(target) /\ G!AddLink(s, e, d) /\ Joined(e, s, target)
        /\ UNCHANGED <<ports, host, type, single>>
    BY DEF ReleaseOn
  <1>2. /\ s \in nodes /\ d \in nodes /\ nodes' = nodes
        /\ links' = links \cup {<<s, e, d>>} /\ \A l \in links : l[2] # e
    BY <1>1 DEF G!AddLink
  <1>3. /\ sourcePort # None => SourceBindable(sourcePort)
        /\ target \in Port => DestinationBindable(target)
    BY <1>1 DEF Accepted
  <1>4. /\ tail' = [tail EXCEPT ![e] = IF sourcePort # None THEN sourcePort ELSE s]
        /\ head' = [head EXCEPT ![e] = IF target \in Port THEN target ELSE d]
        /\ outItems' = IF sourcePort # None THEN [outItems EXCEPT ![sourcePort] = @ \cup {e}]
                       ELSE outItems
        /\ inItems' = IF target \in Port THEN [inItems EXCEPT ![target] = @ \cup {e}]
                      ELSE inItems
    BY <1>1, <1>3 DEF Joined
  <1>5. hostItem = IF sourcePort # None THEN sourcePort ELSE s
    BY <1>1 DEF hostItem
  <1>6. target \notin Port => d = target
    BY DEF NodeOf
  <1>7. target \in Port => target \in ports
    BY <1>1, PortAssumption DEF IInv, TypeOK
  <1> HIDE DEF s, d
  <1>8. /\ \A x \in Edge \ {e} : tail'[x] = tail[x] /\ head'[x] = head[x]
        /\ tail'[e] = hostItem /\ head'[e] = target
    BY <1>4, <1>5, <1>6 DEF IInv, TypeOK
  <1>9. \/ hostItem = s /\ outItems' = outItems
        \/ /\ hostItem \in ports /\ type[hostItem] # "In"
           /\ outItems' = [outItems EXCEPT ![hostItem] = @ \cup {e}]
    BY <1>3, <1>4, <1>5 DEF HostsExist, SourceBindable
  <1>10. \/ target = d /\ inItems' = inItems
         \/ /\ target \in ports /\ type[target] # "Out"
            /\ inItems' = [inItems EXCEPT ![target] = @ \cup {e}]
    BY <1>3, <1>4, <1>6, <1>7 DEF DestinationBindable
  <1> QED BY <1>1, <1>2, <1>8, <1>9, <1>10

(* It keeps the invariant of the ports. *)
LEMMA ReleaseStep ==
  ASSUME IInv, HostsExist, NEW target \in Item, NEW e \in Edge, ReleaseOn(target, e)
  PROVE  IInv'
  <1>1. PICK s, d \in nodes :
           /\ links' = links \cup {<<s, e, d>>} /\ \A l \in links : l[2] # e
           /\ UNCHANGED <<nodes, ports, host, type, single>>
           /\ \A x \in Edge \ {e} : tail'[x] = tail[x] /\ head'[x] = head[x]
           /\ tail'[e] = hostItem /\ head'[e] = target
           /\ \/ hostItem = s /\ outItems' = outItems
              \/ /\ hostItem \in ports /\ type[hostItem] # "In"
                 /\ outItems' = [outItems EXCEPT ![hostItem] = @ \cup {e}]
           /\ \/ target = d /\ inItems' = inItems
              \/ /\ target \in ports /\ type[target] # "Out"
                 /\ inItems' = [inItems EXCEPT ![target] = @ \cup {e}]
    BY ReleaseEffect
  <1> DEFINE new == <<s, e, d>>
  <1>2. /\ links' = links \cup {new}
        /\ new \in links' /\ new[1] = s /\ new[2] = e /\ new[3] = d
    BY <1>1
  <1>3. tail' \in [Edge -> nodes \cup ports \cup {None}] /\ head' \in [Edge -> nodes \cup ports \cup {None}]
    <2>1. /\ tail' = [tail EXCEPT ![e] = tail'[e]] /\ head' = [head EXCEPT ![e] = head'[e]]
      BY DEF ReleaseOn, Joined, IInv, TypeOK
    <2> QED BY <1>1, <2>1 DEF IInv, TypeOK
  <1>4. outItems' \in [Port -> SUBSET Edge] /\ inItems' \in [Port -> SUBSET Edge]
    BY <1>1 DEF IInv, TypeOK
  <1>5. TypeOK'
    BY <1>1, <1>3, <1>4 DEF IInv, TypeOK
  <1> HIDE DEF new
  <1>6. edges' = edges \cup {e} /\ e \notin edges
    BY <1>1, <1>2 DEF edges
  <1>7. OneLink'
    BY <1>1, <1>2 DEF IInv, OneLink
  <1>8. EndsOfLinks'
    <2> SUFFICES ASSUME NEW x \in Edge
                 PROVE  /\ tail'[x] # None => x \in edges'
                        /\ head'[x] # None => x \in edges'
                        /\ tail'[x] \in Node => \E l \in links' : l[2] = x /\ l[1] = tail'[x]
                        /\ head'[x] \in Node => \E l \in links' : l[2] = x /\ l[3] = head'[x]
      BY DEF EndsOfLinks
    <2>1. CASE x = e
      <3>1. /\ hostItem \in Node => hostItem = s
            /\ target \in Node => target = d
        BY <1>1, PortAssumption DEF IInv, TypeOK
      <3> QED BY <1>1, <1>2, <1>6, <2>1, <3>1
    <2>2. CASE x # e
      <3>1. /\ tail[x] # None => x \in edges
            /\ head[x] # None => x \in edges
            /\ tail[x] \in Node => \E l \in links : l[2] = x /\ l[1] = tail[x]
            /\ head[x] \in Node => \E l \in links : l[2] = x /\ l[3] = head[x]
        BY DEF IInv, EndsOfLinks
      <3> QED BY <1>1, <1>2, <1>6, <2>2, <3>1
    <2> QED BY <2>1, <2>2
  <1>9. BoundIsListed'
    <2> SUFFICES ASSUME NEW x \in edges', NEW p \in ports
                 PROVE  /\ tail'[x] = p => x \in outItems'[p] /\ type[p] # "In"
                        /\ head'[x] = p => x \in inItems'[p] /\ type[p] # "Out"
      BY <1>1 DEF BoundIsListed
    <2>1. p \in Port /\ s # p /\ d # p
      BY PortAssumption DEF IInv, TypeOK
    <2>2. outItems[p] \subseteq outItems'[p] /\ inItems[p] \subseteq inItems'[p]
      BY <1>1, <2>1 DEF IInv, TypeOK
    <2>3. CASE x = e
      BY <1>1, <2>1, <2>3 DEF IInv, TypeOK
    <2>4. CASE x # e
      <3>1. x \in edges /\ x \in Edge
        BY <1>6, <2>4 DEF edges, IInv, TypeOK
      <3> QED BY <1>1, <2>2, <2>4, <3>1 DEF IInv, BoundIsListed
    <2> QED BY <2>3, <2>4
  <1> QED BY <1>5, <1>7, <1>8, <1>9 DEF IInv

------------------------------------------------------------------------------
(* The steps of the connector that leave the graph alone. *)

LEMMA SameGraph ==
  ASSUME IInv, UNCHANGED vars
  PROVE  IInv' /\ \A i : NodeOf(i)' = NodeOf(i)
  BY DEF vars, portState, IInv, TypeOK, OneLink, EndsOfLinks, BoundIsListed, edges, NodeOf

LEMMA NoHost == NodeOf(None) = None
  BY PortAssumption DEF NodeOf

(* A step that changes neither the hosts nor where the edge starts, or that   *)
(* starts it at the host.                                                     *)
LEMMA SourceStep ==
  ASSUME CInv, UNCHANGED vars, HostsExist',
         edgeStart' = edgeStart \/ edgeStart' = hostItem',
         edgeStart' = hostItem' \/ hostItem' = hostItem \/ NodeOf(hostItem') = None
  PROVE  CInv'
  BY SameGraph DEF CInv, StartsAtHost

(* A step of the graph: what it destroys is no longer host, and it gives no   *)
(* node to a port that had lost its own.                                      *)
LEMMA GraphStepKeeps ==
  ASSUME CInv, GraphStep
  PROVE  CInv'
  <1>1. IInv /\ IInv'
    BY InvStep DEF CInv, GraphStep
  <1>2. HostsExist'
    BY <1>1, PortAssumption DEF GraphStep, Alive, CInv, HostsExist, IInv, TypeOK
  <1>3. \A p \in ports : host'[p] = host[p] \/ host'[p] = None
    <2> SUFFICES ASSUME NEW p \in ports PROVE host'[p] = host[p] \/ host'[p] = None
      OBVIOUS
    <2>1. p \in Port /\ host \in [Port -> nodes \cup {None}]
      BY <1>1 DEF IInv, TypeOK
    <2>2. Next
      BY DEF GraphStep
    <2>3. ASSUME UNCHANGED host PROVE host'[p] = host[p]
      BY <2>3
    <2>4. ASSUME NEW q \in Port, NEW n \in Node, NEW t \in Type, InsertPort(q, n, t)
          PROVE  host'[p] = host[p]
      BY <2>1, <2>4 DEF InsertPort
    <2>5. ASSUME NEW q \in Port, RemovePort(q) PROVE host'[p] = host[p] \/ host'[p] = None
      BY <2>1, <2>5 DEF RemovePort
    <2>6. ASSUME NEW n \in Node, RemoveNode(n) PROVE host'[p] = host[p] \/ host'[p] = None
      BY <2>1, <2>6 DEF RemoveNode
    <2>7. ASSUME Clear PROVE host'[p] = None
      BY <2>1, <2>7 DEF Clear
    <2> QED
      BY <2>2, <2>3, <2>4, <2>5, <2>6, <2>7
         DEF Next, InsertNode, InsertEdge, RemoveEdge, SetMultiplicity, BindEdgeSource,
             BindEdgeDestination, BindEdge, portState
  <1>4. StartsAtHost'
    <2> SUFFICES ASSUME edgeStart' # None, NodeOf(hostItem)' # None PROVE edgeStart' = hostItem'
      BY DEF StartsAtHost
    <2>1. hostItem' # None
      BY PortAssumption DEF NodeOf
    <2>2. hostItem' = hostItem /\ hostItem \in nodes \cup ports /\ hostItem \in nodes' \cup ports'
      BY <2>1 DEF hostItem, GraphStep, Alive, CInv, HostsExist
    <2>3. NodeOf(hostItem) # None
      BY <1>1, <1>3, <2>1, <2>2, PortAssumption DEF NodeOf, IInv, TypeOK
    <2>4. edgeStart' = edgeStart
      BY DEF GraphStep, Alive
    <2> QED BY <2>2, <2>3, <2>4 DEF CInv, StartsAtHost
  <1> QED BY <1>1, <1>2, <1>4 DEF CInv

LEMMA CInvStep == CInv /\ [ConnectorNext]_allVars => CInv'
<1> SUFFICES ASSUME CInv, [ConnectorNext]_allVars PROVE CInv'
  OBVIOUS
<1>0. HostsExist /\ IInv
  BY DEF CInv
<1>1. ASSUME UNCHANGED <<vars, hosts, edgeStart>> PROVE CInv'
  <2>1. HostsExist' /\ hostItem' = hostItem
    BY <1>0, <1>1 DEF HostsExist, hosts, hostItem, vars, portState
  <2> QED BY <1>1, <2>1, SourceStep
<1>2. ASSUME UNCHANGED vars, HostsExist', edgeStart' = hostItem' PROVE CInv'
  BY <1>2, SourceStep
<1>3. CASE UNCHANGED allVars
  BY <1>1, <1>3 DEF allVars, connectorVars, transient
<1>4. CASE GraphStep
  BY <1>4, GraphStepKeeps
<1>5. CASE ComponentComplete \/ Redraw \/ ReleaseInVain
  BY <1>1, <1>5 DEF ComponentComplete, Redraw, ReleaseInVain, transient
<1>6. ASSUME NEW n \in Node \cup {None}, SetSourceNode(n) PROVE CInv'
  <2>1. UNCHANGED vars /\ ports' = ports /\ nodes' = nodes /\ n \in nodes \cup {None}
    BY <1>6 DEF SetSourceNode, vars, portState
  <2>2. CASE UNCHANGED <<hosts, transient>>
    BY <1>1, <2>1, <2>2 DEF transient
  <2>3. CASE sourceNode' = None /\ UNCHANGED <<sourcePort, transient>>
    <3>1. HostsExist' /\ (hostItem' = hostItem \/ hostItem' = None)
      BY <1>0, <2>1, <2>3 DEF HostsExist, hostItem
    <3> QED BY <2>1, <2>3, <3>1, NoHost, SourceStep DEF transient
  <2>4. CASE sourceNode' = n /\ sourcePort' = None /\ DrawFrom(n)
    <3>1. HostsExist' /\ hostItem' = n /\ edgeStart' = n
      BY <2>1, <2>4 DEF HostsExist, hostItem, DrawFrom
    <3> QED BY <1>2, <2>1, <3>1
  <2> QED BY <1>6, <2>2, <2>3, <2>4 DEF SetSourceNode
<1>7. ASSUME NEW p \in Port \cup {None}, SetSourcePort(p) PROVE CInv'
  <2>1. UNCHANGED vars /\ ports' = ports /\ nodes' = nodes /\ p \in ports \cup {None} /\ host' = host
    BY <1>7 DEF SetSourcePort, vars, portState
  <2>2. CASE UNCHANGED <<hosts, transient>>
    BY <1>1, <2>1, <2>2 DEF transient
  <2>3. CASE p # sourcePort /\ sourcePort' = None /\ UNCHANGED <<sourceNode, transient>>
    <3>1. HostsExist' /\ (hostItem' = hostItem \/ hostItem' = None)
      BY <1>0, <2>1, <2>3 DEF HostsExist, hostItem
    <3> QED BY <2>1, <2>3, <3>1, NoHost, SourceStep DEF transient
  <2>4. CASE sourcePort' = p /\ sourceNode' = None /\ p # None /\ DrawFrom(p)
    <3>1. HostsExist' /\ hostItem' = p /\ edgeStart' = p
      BY <2>1, <2>4 DEF HostsExist, hostItem, DrawFrom
    <3> QED BY <1>2, <2>1, <3>1
  <2>5. CASE sourcePort' = p /\ sourceNode' = None /\ p # None /\ host[p] = None /\ edgeStart' = edgeStart
    <3>1. HostsExist' /\ hostItem' = p
      BY <2>1, <2>5 DEF HostsExist, hostItem
    <3>2. NodeOf(p) = None
      BY <2>1, <2>5 DEF NodeOf
    <3> QED BY <2>1, <2>5, <3>1, <3>2, SourceStep
  <2> QED BY <1>7, <2>2, <2>3, <2>4, <2>5 DEF SetSourcePort
<1>8. ASSUME NEW n \in Node, SetConnectorSource(n) PROVE CInv'
  <2>1. UNCHANGED vars /\ ports' = ports /\ nodes' = nodes /\ n \in nodes
    BY <1>8 DEF SetConnectorSource, vars, portState
  <2>2. CASE UNCHANGED <<hosts, transient>>
    BY <1>1, <2>1, <2>2 DEF transient
  <2>3. CASE sourceNode' = n /\ sourcePort' = None /\ DrawFrom(n)
    <3>1. HostsExist' /\ hostItem' = n /\ edgeStart' = n
      BY <2>1, <2>3 DEF HostsExist, hostItem, DrawFrom
    <3> QED BY <1>2, <2>1, <3>1
  <2> QED BY <1>8, <2>2, <2>3 DEF SetConnectorSource
<1>9. ASSUME NEW on \in BOOLEAN, SetConnectorEnabled(on) \/ SetCreateDefaultEdge(on) PROVE CInv'
  BY <1>1, <1>9 DEF SetConnectorEnabled, SetCreateDefaultEdge, transient
<1>10. CASE Press
  <2>1. UNCHANGED <<vars, hosts>> /\ HostsExist' /\ hostItem' = hostItem
    BY <1>0, <1>10 DEF Press, HostsExist, hosts, hostItem, vars, portState
  <2> QED BY <1>10, <2>1, SourceStep DEF Press
<1>11. ASSUME NEW target \in Item, NEW e \in Edge, ReleaseOn(target, e) PROVE CInv'
  <2>1. IInv'
    BY <1>0, <1>11, ReleaseStep
  <2>2. UNCHANGED <<nodes, ports, host, hosts, edgeStart>>
    BY <1>11 DEF ReleaseOn, G!AddLink
  <2> QED BY <2>1, <2>2 DEF CInv, HostsExist, StartsAtHost, hosts, hostItem, NodeOf
<1> QED
  BY <1>3, <1>4, <1>5, <1>6, <1>7, <1>8, <1>9, <1>10, <1>11 DEF ConnectorNext

LEMMA ConnectorInvariance == ConnectorSpec => []CInv
<1>1. Init => IInv
  BY InitInv
<1>2. ConnectorInit => CInv
  BY <1>1 DEF ConnectorInit, CInv, HostsExist, StartsAtHost
<1> QED BY <1>2, CInvStep, PTL DEF ConnectorSpec

(* Where the connector inserts and binds edges as well, every edge bound to a *)
(* port is still listed by it.                                                *)
THEOREM ConnectorListsBindings == ConnectorSpec => [](TypeOK /\ BoundIsListed)
  BY ConnectorInvariance, PTL DEF CInv, IInv

(* The connector never adds an edge to a Single port that has one either: the *)
(* edge it creates is new, and bound only where the port accepts it.          *)
THEOREM ConnectorKeepsSinglePorts == ConnectorSpec => SingleNotShared
<1>1. ASSUME CInv, [ConnectorNext]_allVars PROVE ~Shares
  <2>1. IInv /\ HostsExist /\ edges \subseteq Edge
    BY <1>1 DEF CInv, IInv, TypeOK, edges
  <2>2. CASE [Next]_vars
    BY <2>1, <2>2, NoStepShares
  <2>3. ASSUME NEW target \in Item, NEW e \in Edge, ReleaseOn(target, e) PROVE ~Shares
    <3>1. \A x \in edges : tail'[x] = tail[x] /\ head'[x] = head[x]
      BY <2>1, <2>3, ReleaseEffect DEF edges
    <3> QED BY <3>1 DEF Shares, Joining
  <2> QED
    BY <1>1, <2>2, <2>3
       DEF ConnectorNext, GraphStep, ComponentComplete, SetSourceNode, SetSourcePort,
           SetConnectorSource, SetConnectorEnabled, SetCreateDefaultEdge, Press, Redraw,
           ReleaseInVain, allVars
<1>2. CInv /\ [ConnectorNext]_allVars =>
        [\A p \in ports \cap single :
           /\ (\E e \in edges : tail[e] = p) => Joining(tail, tail', p) = {}
           /\ (\E e \in edges : head[e] = p) => Joining(head, head', p) = {}]_vars
  BY <1>1 DEF Shares
<1> QED BY <1>2, ConnectorInvariance, PTL DEF ConnectorSpec, SingleNotShared

(* The edge the user sees while dragging the connector starts at its host,    *)
(* whatever hosts came, went and were destroyed before.                       *)
THEOREM TransientFollowsHost == ConnectorSpec => []TransientStartsAtHost
<1>1. CInv => TransientStartsAtHost
  BY DEF CInv, StartsAtHost, TransientStartsAtHost
<1> QED BY <1>1, ConnectorInvariance, PTL

(* The edge a release creates joins the host and the target themselves: no    *)
(* binding of the two that follow the insertion is refused.                   *)
THEOREM ReleasesBind == ConnectorSpec => ReleasedIsBound
<1>1. ASSUME CInv, NEW target \in Item, NEW e \in Edge, ReleaseOn(target, e)
      PROVE  tail'[e] = hostItem /\ head'[e] = target
  BY <1>1, ReleaseEffect DEF CInv
<1>2. CInv /\ [ConnectorNext]_allVars =>
        [\A target \in Item, e \in Edge :
           ReleaseOn(target, e) => tail'[e] = hostItem /\ head'[e] = target]_allVars
  BY <1>1
<1> QED BY <1>2, ConnectorInvariance, PTL DEF ConnectorSpec, ReleasedIsBound
==============================================================================
