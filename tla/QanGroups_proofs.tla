--------------------------- MODULE QanGroups_proofs ---------------------------
(***************************************************************************)
(* Proofs about QanGroups, for every set of nodes, edges and groups.       *)
(*                                                                         *)
(* The invariants hold each other up: an edge is adjacent to the group of  *)
(* its ends because that group lists them (MembershipCoherent), and the    *)
(* edges a node takes from the adjacent ones when it leaves are those of   *)
(* its links only because an edge has one link (OneLink).  A new edge is   *)
(* adjacent to no other group because no set keeps an edge that was        *)
(* removed: what is left in it is expired (AdjacentLive).                  *)
(***************************************************************************)
EXTENDS QanGroups, TLAPS

OneLink == \A l, m \in links : l[2] = m[2] => l = m

AdjacentLive == \A g \in Group : adjacentEdges[g] \subseteq edges \cup {Expired}

IInv ==
  /\ TypeOK /\ OneLink /\ AdjacentLive
  /\ MembershipCoherent /\ AdjacencyCoherent /\ NoItemLost

------------------------------------------------------------------------------
(* The links of X leave the graph: what they leave of the adjacent edges is   *)
(* what there was of the other edges.                                         *)
LEMMA LinksDropped ==
  ASSUME IInv, NEW X \in SUBSET links, links' = links \ X, DropLinks(X)
  PROVE  /\ OneLink' /\ AdjacentLive'
         /\ hidden' \in SUBSET edges'
         /\ adjacentEdges' \in [Group -> SUBSET (Edge \cup {Expired})]
         /\ \A l \in links' : \A g \in Group :
              l[2] \in adjacentEdges'[g] <=> l[2] \in adjacentEdges[g]
<1>1. /\ OneLink /\ AdjacentLive
      /\ hidden \in SUBSET edges
      /\ adjacentEdges \in [Group -> SUBSET (Edge \cup {Expired})]
      /\ \A l \in links : l[2] \in Edge
  BY DEF IInv, TypeOK
<1> DEFINE gone == {l[2] : l \in X}
           left == links \ X
<1>2. OneLink'
  BY <1>1 DEF OneLink
<1>3. \A l \in left : l[2] \notin gone
  BY <1>1 DEF OneLink
<1>4. edges \ gone \subseteq {l[2] : l \in left}
  BY DEF edges
<1>5. ASSUME NEW g \in Group
      PROVE  /\ adjacentEdges[g] \ gone \subseteq adjacentEdges'[g]
             /\ adjacentEdges'[g] \subseteq (adjacentEdges[g] \ gone) \cup {Expired}
  BY DEF DropLinks, AdjacentWithout
<1>6. AdjacentLive'
  BY <1>1, <1>4, <1>5 DEF AdjacentLive, edges
<1>7. hidden' \in SUBSET edges'
  BY <1>1, <1>4 DEF DropLinks, edges
<1>8. adjacentEdges' \in [Group -> SUBSET (Edge \cup {Expired})]
  <2>1. adjacentEdges' = [g \in Group |-> adjacentEdges'[g]]
    BY DEF DropLinks, AdjacentWithout
  <2>2. \A g \in Group : adjacentEdges'[g] \in SUBSET (Edge \cup {Expired})
    BY <1>1, <1>5
  <2> QED BY <2>1, <2>2
<1>9. ASSUME NEW l \in links', NEW g \in Group
      PROVE  l[2] \in adjacentEdges'[g] <=> l[2] \in adjacentEdges[g]
  <2>1. l[2] \in Edge /\ l[2] # Expired /\ l[2] \notin gone
    BY <1>1, <1>3, GroupAssumption
  <2> QED BY <1>5, <2>1
<1> QED BY <1>2, <1>6, <1>7, <1>8, <1>9

(* The same for a removal of edges that touches no node or group. *)
LEMMA EdgesDropped ==
  ASSUME IInv, NEW X \in SUBSET links, links' = links \ X, DropLinks(X),
         UNCHANGED <<nodes, groups, groupOf, members, itemParent, collapsed>>
  PROVE  IInv'
<1>1. /\ OneLink' /\ AdjacentLive'
      /\ hidden' \in SUBSET edges'
      /\ adjacentEdges' \in [Group -> SUBSET (Edge \cup {Expired})]
      /\ \A l \in links' : \A g \in Group :
           l[2] \in adjacentEdges'[g] <=> l[2] \in adjacentEdges[g]
  BY LinksDropped
<1>2. TypeOK'
  BY <1>1 DEF IInv, TypeOK
<1>3. MembershipCoherent' /\ NoItemLost'
  BY DEF IInv, MembershipCoherent, NoItemLost
<1>4. AdjacencyComplete'
  BY <1>1 DEF IInv, AdjacencyCoherent, AdjacencyComplete
<1>5. AdjacencySound'
  BY <1>1 DEF IInv, AdjacencyCoherent, AdjacencySound
<1> QED BY <1>1, <1>2, <1>3, <1>4, <1>5 DEF IInv, AdjacencyCoherent

(* Edge items that are moved, hidden or shown change nothing else. *)
LEMMA HidingStep ==
  ASSUME IInv, hidden' \in SUBSET edges,
         collapsed' \in [Group -> BOOLEAN],
         UNCHANGED <<nodes, links, groups, groupOf, members, adjacentEdges, itemParent>>
  PROVE  IInv'
BY DEF IInv, TypeOK, OneLink, AdjacentLive, MembershipCoherent, AdjacencyCoherent,
       AdjacencyComplete, AdjacencySound, NoItemLost, edges

------------------------------------------------------------------------------
LEMMA InitIInv == Init => IInv
BY GroupAssumption DEF Init, G!Init, IInv, TypeOK, OneLink, AdjacentLive, MembershipCoherent,
   AdjacencyCoherent, AdjacencyComplete, AdjacencySound, NoItemLost, edges

LEMMA InsertNodeStep ==
  ASSUME IInv, NEW n \in Node, InsertNode(n)
  PROVE  IInv'
<1> USE DEF InsertNode, G!AddNode, grouping
<1>1. TypeOK'
  BY DEF IInv, TypeOK, edges
<1>2. MembershipCoherent' /\ NoItemLost'
  BY DEF IInv, MembershipCoherent, NoItemLost
<1>3. OneLink' /\ AdjacentLive' /\ AdjacencyCoherent'
  BY DEF IInv, OneLink, AdjacentLive, AdjacencyCoherent, AdjacencyComplete, AdjacencySound, edges
<1> QED BY <1>1, <1>2, <1>3 DEF IInv

LEMMA InsertEdgeStep ==
  ASSUME IInv, NEW s \in Node, NEW d \in Node, NEW e \in Edge, InsertEdge(s, e, d)
  PROVE  IInv'
<1> DEFINE new == <<s, e, d>>
<1>1. /\ links' = links \cup {new}
      /\ s \in nodes /\ d \in nodes
      /\ \A l \in links : l[2] # e
      /\ UNCHANGED <<nodes, groups, groupOf, members, itemParent, collapsed, hidden>>
  BY DEF InsertEdge, G!AddLink
<1>2. /\ adjacentEdges' = [g \in Group |-> adjacentEdges'[g]]
      /\ \A g \in Group :
           /\ adjacentEdges[g] \subseteq adjacentEdges'[g]
           /\ adjacentEdges'[g] \subseteq adjacentEdges[g] \cup {e}
           /\ g \in {groupOf[s], groupOf[d]} => e \in adjacentEdges'[g]
           /\ g \notin {groupOf[s], groupOf[d]} => adjacentEdges'[g] = adjacentEdges[g]
  BY DEF InsertEdge
<1>3. new[1] = s /\ new[2] = e /\ new[3] = d
  OBVIOUS
<1>4. edges' = edges \cup {e}
  BY <1>1, <1>3 DEF edges
<1>5. TypeOK'
  <2>1. \A g \in Group : adjacentEdges'[g] \in SUBSET (Edge \cup {Expired})
    BY <1>2 DEF IInv, TypeOK
  <2>2. adjacentEdges' \in [Group -> SUBSET (Edge \cup {Expired})]
    BY <1>2, <2>1
  <2>3. links' \in SUBSET (nodes' \X Edge \X nodes')
    BY <1>1 DEF IInv, TypeOK
  <2> QED BY <1>1, <1>4, <2>2, <2>3 DEF IInv, TypeOK
<1>6. OneLink'
  BY <1>1, <1>3 DEF IInv, OneLink
<1>7. AdjacentLive'
  BY <1>2, <1>4 DEF IInv, AdjacentLive
<1>8. MembershipCoherent' /\ NoItemLost'
  BY <1>1 DEF IInv, MembershipCoherent, NoItemLost
<1>9. AdjacencyComplete'
  BY <1>1, <1>2, <1>3 DEF IInv, AdjacencyCoherent, AdjacencyComplete
<1>10. AdjacencySound'
  <2>1. SUFFICES ASSUME NEW l \in links', NEW g \in Group, l[1] # l[3], l[2] \in adjacentEdges'[g]
                 PROVE  l[1] \in members[g] \/ l[3] \in members[g]
    BY <1>1 DEF AdjacencySound
  <2>2. CASE l = new
    <3>1. e \notin edges /\ e # Expired
      BY <1>1, GroupAssumption DEF edges
    <3>2. e \notin adjacentEdges[g]
      BY <3>1 DEF IInv, AdjacentLive
    <3>3. g = groupOf[s] \/ g = groupOf[d]
      BY <1>2, <1>3, <2>1, <2>2, <3>2
    <3> QED BY <1>3, <2>2, <3>3, GroupAssumption DEF IInv, MembershipCoherent
  <2>3. CASE l \in links
    <3>1. l[2] \in adjacentEdges[g]
      BY <1>1, <1>2, <2>1, <2>3
    <3> QED BY <2>1, <2>3, <3>1 DEF IInv, AdjacencyCoherent, AdjacencySound
  <2> QED BY <1>1, <2>2, <2>3
<1> QED BY <1>5, <1>6, <1>7, <1>8, <1>9, <1>10 DEF IInv, AdjacencyCoherent

LEMMA RemoveNodeStep ==
  ASSUME IInv, NEW n \in Node, RemoveNode(n)
  PROVE  IInv'
<1> DEFINE X == G!Touching(n)
<1>1. /\ X \in SUBSET links /\ links' = links \ X /\ DropLinks(X)
      /\ nodes' = nodes \ {n}
      /\ \A l \in links' : l[1] # n /\ l[3] # n
  BY DEF RemoveNode, G!RemoveNode, G!Touching
<1>2. /\ OneLink' /\ AdjacentLive'
      /\ hidden' \in SUBSET edges'
      /\ adjacentEdges' \in [Group -> SUBSET (Edge \cup {Expired})]
      /\ \A l \in links' : \A g \in Group :
           l[2] \in adjacentEdges'[g] <=> l[2] \in adjacentEdges[g]
  BY <1>1, LinksDropped
<1>3. /\ groupOf' = [groupOf EXCEPT ![n] = NoGroup]
      /\ itemParent' = [itemParent EXCEPT ![n] = Canvas]
      /\ groups' = groups /\ collapsed' = collapsed
      /\ members' = [g \in Group |-> IF n \in members[g]
                                     THEN (members[g] \ {n}) \cup {Expired} ELSE members[g]]
  BY DEF RemoveNode
<1>4. /\ groupOf'[n] = NoGroup /\ itemParent'[n] = Canvas
      /\ \A m \in Node \ {n} : groupOf'[m] = groupOf[m] /\ itemParent'[m] = itemParent[m]
      /\ \A g \in Group : members[g] \ {n} \subseteq members'[g]
  BY <1>3 DEF IInv, TypeOK
<1>5. TypeOK'
  <2>1. links' \in SUBSET (nodes' \X Edge \X nodes')
    <3>1. ASSUME NEW l \in links' PROVE l \in nodes' \X Edge \X nodes'
      <4>1. l \in nodes \X Edge \X nodes /\ l[1] # n /\ l[3] # n
        BY <1>1 DEF IInv, TypeOK
      <4> QED BY <1>1, <4>1
    <3> QED BY <3>1
  <2>2. members' \in [Group -> SUBSET (Node \cup {Expired})]
    BY <1>3 DEF IInv, TypeOK
  <2> QED BY <1>1, <1>2, <1>3, <2>1, <2>2 DEF IInv, TypeOK
<1>6. MembershipCoherent'
  BY <1>1, <1>3, <1>4 DEF IInv, TypeOK, MembershipCoherent
<1>7. NoItemLost'
  BY <1>4 DEF IInv, TypeOK, NoItemLost
<1>8. \A l \in links' : l[1] \in Node \ {n} /\ l[3] \in Node \ {n} /\ l \in links
  BY <1>1 DEF IInv, TypeOK
<1>9. AdjacencyComplete'
  BY <1>2, <1>4, <1>8 DEF IInv, AdjacencyCoherent, AdjacencyComplete
<1>10. AdjacencySound'
  BY <1>2, <1>4, <1>8 DEF IInv, AdjacencyCoherent, AdjacencySound
<1> QED BY <1>2, <1>5, <1>6, <1>7, <1>9, <1>10 DEF IInv, AdjacencyCoherent

------------------------------------------------------------------------------
LEMMA GroupNodeStep ==
  ASSUME IInv, NEW g \in Group, NEW n \in Node, GroupNode(g, n)
  PROVE  IInv'
<1>1. /\ g \in groups /\ n \in nodes
      /\ UNCHANGED <<nodes, links, groups, collapsed>>
      /\ hidden' \in SUBSET hidden
  BY DEF GroupNode, Moved
<1>2. /\ groupOf'[n] = g /\ itemParent'[n] = g
      /\ \A m \in Node \ {n} : groupOf'[m] = groupOf[m] /\ itemParent'[m] = itemParent[m]
      /\ \A h \in Group : members[h] \subseteq members'[h] /\ (h # g => members'[h] = members[h])
      /\ n \in members'[g]
      /\ adjacentEdges'[g] = adjacentEdges[g] \cup EdgesOf(n)
      /\ \A h \in Group \ {g} : adjacentEdges'[h] = adjacentEdges[h]
  BY DEF GroupNode, IInv, TypeOK
<1>3. EdgesOf(n) = {l[2] : l \in {k \in links : k[1] = n \/ k[3] = n}}
  BY DEF EdgesOf, G!Touching
<1>4. TypeOK'
  <2>1. EdgesOf(n) \subseteq Edge
    BY <1>3 DEF IInv, TypeOK
  <2> QED BY <1>1, <2>1 DEF IInv, TypeOK, GroupNode, edges
<1>5. OneLink'
  BY <1>1 DEF IInv, OneLink
<1>6. AdjacentLive'
  <2>1. EdgesOf(n) \subseteq edges
    BY <1>3 DEF edges
  <2>2. edges' = edges
    BY <1>1 DEF edges
  <2> QED BY <1>2, <2>1, <2>2 DEF IInv, AdjacentLive
<1>7. MembershipCoherent'
  BY <1>1, <1>2 DEF IInv, TypeOK, MembershipCoherent
<1>8. NoItemLost'
  BY <1>2 DEF IInv, TypeOK, NoItemLost
<1>9. \A l \in links : l[1] \in Node /\ l[3] \in Node
  BY DEF IInv, TypeOK
<1>10. AdjacencyComplete'
  <2>1. SUFFICES ASSUME NEW l \in links, NEW h \in Group, NEW m \in {l[1], l[3]}, groupOf'[m] = h
                 PROVE  l[2] \in adjacentEdges'[h]
    BY <1>1 DEF AdjacencyComplete
  <2>2. CASE m = n
    BY <1>2, <1>3, <2>1, <2>2
  <2>3. CASE m # n
    <3>1. groupOf[m] = h
      BY <1>2, <1>9, <2>1, <2>3
    <3>2. l[2] \in adjacentEdges[h]
      BY <2>1, <3>1 DEF IInv, AdjacencyCoherent, AdjacencyComplete
    <3> QED BY <1>2, <3>2
  <2> QED BY <2>2, <2>3
<1>11. AdjacencySound'
  <2>1. SUFFICES ASSUME NEW l \in links, NEW h \in Group, l[1] # l[3], l[2] \in adjacentEdges'[h]
                 PROVE  l[1] \in members'[h] \/ l[3] \in members'[h]
    BY <1>1 DEF AdjacencySound
  <2>2. CASE l[2] \in adjacentEdges[h]
    BY <1>2, <2>1, <2>2 DEF IInv, AdjacencyCoherent, AdjacencySound
  <2>3. CASE l[2] \notin adjacentEdges[h]
    <3>1. h = g /\ l[2] \in EdgesOf(n)
      BY <1>2, <2>1, <2>3
    <3>2. l[1] = n \/ l[3] = n
      BY <1>3, <3>1 DEF IInv, OneLink
    <3> QED BY <1>2, <3>1, <3>2
  <2> QED BY <2>2, <2>3
<1> QED BY <1>4, <1>5, <1>6, <1>7, <1>8, <1>10, <1>11 DEF IInv, AdjacencyCoherent

(* A link stays adjacent to the group a node leaves if its other end is in  *)
(* the group, and only then.                                                *)
LEMMA UngroupNodeStep ==
  ASSUME IInv, NEW n \in Node, UngroupNode(n)
  PROVE  IInv'
<1> DEFINE g == groupOf[n]
<1>1. /\ n \in nodes /\ g \in Group
      /\ UNCHANGED <<nodes, links, groups, collapsed>>
      /\ hidden' \in SUBSET hidden
  BY DEF UngroupNode, Moved, IInv, TypeOK
<1>2. /\ groupOf'[n] = NoGroup /\ itemParent'[n] = Canvas
      /\ \A m \in Node \ {n} : groupOf'[m] = groupOf[m] /\ itemParent'[m] = itemParent[m]
      /\ members'[g] = members[g] \ {n}
      /\ adjacentEdges'[g] = adjacentEdges[g] \ LeavingWith(n, g)
      /\ \A h \in Group \ {g} : members'[h] = members[h] /\ adjacentEdges'[h] = adjacentEdges[h]
  BY <1>1 DEF UngroupNode, IInv, TypeOK
<1>3. \A l \in links : l[1] \in Node /\ l[3] \in Node
  BY DEF IInv, TypeOK
<1>4. \A l \in links : l[2] \in LeavingWith(n, g) <=>
        \/ l[3] = n /\ groupOf[l[1]] # g
        \/ l[1] = n /\ groupOf[l[3]] # g
  BY DEF IInv, OneLink, LeavingWith
<1>5. TypeOK'
  BY <1>1 DEF IInv, TypeOK, UngroupNode, edges
<1>6. OneLink' /\ AdjacentLive'
  <2>1. \A h \in Group : adjacentEdges'[h] \subseteq adjacentEdges[h]
    BY <1>2
  <2> QED BY <1>1, <2>1 DEF IInv, OneLink, AdjacentLive, edges
<1>7. \A h \in Group : members[h] \ {n} \subseteq members'[h]
  BY <1>2
<1>8. MembershipCoherent'
  BY <1>1, <1>2, <1>7 DEF IInv, TypeOK, MembershipCoherent
<1>9. NoItemLost'
  BY <1>2, <1>7 DEF IInv, TypeOK, NoItemLost
<1>10. AdjacencyComplete'
  <2>1. SUFFICES ASSUME NEW l \in links, NEW h \in Group, NEW m \in {l[1], l[3]}, groupOf'[m] = h
                 PROVE  l[2] \in adjacentEdges'[h]
    BY <1>1 DEF AdjacencyComplete
  <2>2. m # n /\ groupOf[m] = h
    BY <1>2, <1>3, <2>1, GroupAssumption
  <2>3. l[2] \in adjacentEdges[h]
    BY <2>1, <2>2 DEF IInv, AdjacencyCoherent, AdjacencyComplete
  <2>4. h = g => l[2] \notin LeavingWith(n, g)
    BY <1>4, <2>1, <2>2
  <2> QED BY <1>2, <2>3, <2>4
<1>11. AdjacencySound'
  <2>1. SUFFICES ASSUME NEW l \in links, NEW h \in Group, l[1] # l[3], l[2] \in adjacentEdges'[h]
                 PROVE  l[1] \in members'[h] \/ l[3] \in members'[h]
    BY <1>1 DEF AdjacencySound
  <2>2. l[1] \in members[h] \/ l[3] \in members[h]
    BY <1>2, <2>1 DEF IInv, AdjacencyCoherent, AdjacencySound
  <2>3. CASE h # g
    BY <1>2, <2>2, <2>3
  <2>4. CASE h = g /\ l[1] # n /\ l[3] # n
    BY <1>7, <2>2, <2>4
  <2>5. CASE h = g /\ n \in {l[1], l[3]}
    <3>1. PICK m \in {l[1], l[3]} : m # n
      BY <2>1
    <3>2. groupOf[m] = g
      BY <1>2, <1>4, <2>1, <2>5, <3>1
    <3>3. m \in members[g]
      BY <1>1, <1>3, <3>2, GroupAssumption DEF IInv, MembershipCoherent
    <3> QED BY <1>7, <2>5, <3>1, <3>3
  <2> QED BY <2>3, <2>4, <2>5
<1> QED BY <1>5, <1>6, <1>8, <1>9, <1>10, <1>11 DEF IInv, AdjacencyCoherent

LEMMA RemoveGroupStep ==
  ASSUME IInv, NEW g \in Group, RemoveGroup(g)
  PROVE  IInv'
<1>1. /\ groups' = groups \ {g}
      /\ UNCHANGED <<nodes, links>>
      /\ hidden' \in SUBSET hidden
  BY DEF RemoveGroup, Moved
<1>2. /\ members'[g] = {} /\ adjacentEdges'[g] = {}
      /\ \A h \in Group \ {g} : members'[h] = members[h] /\ adjacentEdges'[h] = adjacentEdges[h]
      /\ \A m \in Node : /\ groupOf'[m] = IF groupOf[m] = g THEN NoGroup ELSE groupOf[m]
                         /\ itemParent'[m] = IF m \in members[g] THEN Canvas ELSE itemParent[m]
  BY DEF RemoveGroup, IInv, TypeOK
<1>3. TypeOK'
  BY <1>1 DEF IInv, TypeOK, RemoveGroup, edges
<1>4. OneLink' /\ AdjacentLive'
  BY <1>1, <1>2 DEF IInv, OneLink, AdjacentLive, edges
<1>5. MembershipCoherent'
  BY <1>1, <1>2, GroupAssumption DEF IInv, TypeOK, MembershipCoherent
<1>6. NoItemLost'
  BY <1>2 DEF IInv, TypeOK, NoItemLost
<1>7. \A l \in links : l[1] \in Node /\ l[3] \in Node
  BY DEF IInv, TypeOK
<1>8. AdjacencyComplete'
  BY <1>1, <1>2, <1>7, GroupAssumption DEF IInv, AdjacencyCoherent, AdjacencyComplete
<1>9. AdjacencySound'
  BY <1>1, <1>2 DEF IInv, AdjacencyCoherent, AdjacencySound
<1> QED BY <1>3, <1>4, <1>5, <1>6, <1>8, <1>9 DEF IInv, AdjacencyCoherent

LEMMA NextIInv == IInv /\ [Next]_vars => IInv'
<1> SUFFICES ASSUME IInv, [Next]_vars PROVE IInv'
  OBVIOUS
<1>1. CASE \E n \in Node : InsertNode(n)
  BY <1>1, InsertNodeStep
<1>2. CASE \E n \in Node : RemoveNode(n)
  BY <1>2, RemoveNodeStep
<1>3. CASE \E s, d \in Node, e \in Edge : InsertEdge(s, e, d)
  BY <1>3, InsertEdgeStep
<1>4. ASSUME NEW l \in links, RemoveEdge(l) PROVE IInv'
  BY <1>4, EdgesDropped DEF RemoveEdge, G!RemoveLink
<1>5. ASSUME NEW s \in Node, NEW d \in Node, RemoveAllEdges(s, d) PROVE IInv'
  <2>1. G!Parallel(s, d) \in SUBSET links
    BY DEF G!Parallel
  <2> QED BY <1>5, <2>1, EdgesDropped DEF RemoveAllEdges, G!RemoveParallel
<1>6. CASE Clear
  BY <1>6, GroupAssumption DEF Clear, G!Clear, IInv, TypeOK, OneLink, AdjacentLive,
     MembershipCoherent, AdjacencyCoherent, AdjacencyComplete, AdjacencySound, NoItemLost, edges
<1>7. ASSUME NEW n \in Node, MoveNode(n) PROVE IInv'
  BY <1>7, HidingStep DEF MoveNode, Moved, IInv, TypeOK
<1>8. ASSUME NEW g \in Group, InsertGroup(g) PROVE IInv'
  BY <1>8 DEF InsertGroup, IInv, TypeOK, OneLink, AdjacentLive, MembershipCoherent,
     AdjacencyCoherent, AdjacencyComplete, AdjacencySound, NoItemLost, edges
<1>9. CASE \E g \in Group, n \in Node : GroupNode(g, n)
  BY <1>9, GroupNodeStep
<1>10. CASE \E n \in Node : UngroupNode(n)
  BY <1>10, UngroupNodeStep
<1>11. CASE \E g \in Group : RemoveGroup(g)
  BY <1>11, RemoveGroupStep
<1>12. ASSUME NEW g \in Group, NEW c \in BOOLEAN, SetCollapsed(g, c) PROVE IInv'
  BY <1>12, HidingStep DEF SetCollapsed, IInv, TypeOK
<1>13. CASE UNCHANGED vars
  BY <1>13 DEF vars, grouping, IInv, TypeOK, OneLink, AdjacentLive, MembershipCoherent,
     AdjacencyCoherent, AdjacencyComplete, AdjacencySound, NoItemLost, edges
<1> QED BY <1>1, <1>2, <1>3, <1>4, <1>5, <1>6, <1>7, <1>8, <1>9, <1>10, <1>11, <1>12, <1>13 DEF Next

LEMMA Invariance == Spec => []IInv
BY InitIInv, NextIInv, PTL DEF Spec

------------------------------------------------------------------------------
(* A node's group exists and lists it, however nodes are grouped, moved      *)
(* between groups and removed (groupNode(), ungroupNode(), removeGroup()).   *)
THEOREM MembershipKept == Spec => []MembershipCoherent
<1>1. IInv => MembershipCoherent
  BY DEF IInv
<1> QED BY Invariance, <1>1, PTL

(* The adjacent edges of a group are those of its nodes, neither more nor    *)
(* less but for self loops (GraphGroupAjacentEdgesBehaviour).                *)
THEOREM AdjacencyKept == Spec => []AdjacencyCoherent
<1>1. IInv => AdjacencyCoherent
  BY DEF IInv
<1> QED BY Invariance, <1>1, PTL

(* The item of a node is in no group item but that of its group, which       *)
(* lists the node: removeGroup() destroys the item of no node.               *)
THEOREM ItemsKept == Spec => []NoItemLost
<1>1. IInv => NoItemLost
  BY DEF IInv
<1> QED BY Invariance, <1>1, PTL

(* Every state variable keeps its type, and only edges of the graph are      *)
(* hidden.                                                                   *)
THEOREM TypeCorrect == Spec => []TypeOK
<1>1. IInv => TypeOK
  BY DEF IInv
<1> QED BY Invariance, <1>1, PTL
===============================================================================
