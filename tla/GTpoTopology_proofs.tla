------------------------- MODULE GTpoTopology_proofs -------------------------
(***************************************************************************)
(* Proofs about module GTpoTopology, for every set of nodes and of edges,  *)
(* finite or not, and every value of the bound.                            *)
(***************************************************************************)
EXTENDS GTpoTopology, FiniteSetTheorems, TLAPS

(* The root cache after a removal is a bag again. *)
LEMMA RootsAfterRemovalType ==
  ASSUME TypeOK, NEW s, NEW d, NEW X, IsFiniteSet(X)
  PROVE  RootsAfterRemoval(s, d, X) \in [Node -> Nat]
<1>1. Cardinality(X) \in Nat
  BY FS_CardinalityType
<1>2. \A n \in Node : rootNodes[n] \in Nat
  BY DEF TypeOK
<1>. QED
  BY <1>1, <1>2 DEF RootsAfterRemoval

LEMMA RootsWithoutType ==
  ASSUME TypeOK, NEW n, NEW In, NEW Out, IsFiniteSet(In)
  PROVE  RootsWithout(n, In, Out) \in [Node -> Nat]
<1>1. \A m \in Node : Cardinality({e \in In : src[e] = m}) \in Nat
  <2>. SUFFICES ASSUME NEW m \in Node
                PROVE  Cardinality({e \in In : src[e] = m}) \in Nat
    OBVIOUS
  <2>1. IsFiniteSet({e \in In : src[e] = m})
    BY FS_Subset, {e \in In : src[e] = m} \subseteq In
  <2>. QED
    BY <2>1, FS_CardinalityType
<1>2. \A m \in Node : rootNodes[m] \in Nat
  BY DEF TypeOK
<1>. QED
  BY <1>1, <1>2 DEF RootsWithout

LEMMA RemoveEdgesType ==
  ASSUME TypeOK, NEW s \in Node, NEW d \in Node, NEW X \in SUBSET edges,
         RemoveEdges(s, d, X)
  PROVE  TypeOK'
<1>1. IsFiniteSet(X) /\ IsFiniteSet(edges \ X)
  BY FS_Subset, edges \ X \subseteq edges DEF TypeOK
<1>2. rootNodes' \in [Node -> Nat]
  BY <1>1, RootsAfterRemovalType DEF RemoveEdges
<1>. QED
  BY <1>1, <1>2 DEF TypeOK, RemoveEdges

LEMMA TypeInductive == TypeOK /\ IncidenceCoherent /\ [Next]_topology => TypeOK'
<1>. SUFFICES ASSUME TypeOK, IncidenceCoherent, [Next]_topology
              PROVE  TypeOK'
  OBVIOUS
<1>1. ASSUME NEW n \in Node, InsertNode(n)
      PROVE  TypeOK'
  BY <1>1 DEF TypeOK, InsertNode
<1>2. ASSUME NEW e \in Edge, NEW s \in Node, NEW d \in Node, InsertEdge(e, s, d)
      PROVE  TypeOK'
  <2>1. IsFiniteSet(edges \cup {e})
    BY FS_AddElement DEF TypeOK
  <2>2. inNodes' \in [Node -> [Node -> Nat]] /\ outNodes' \in [Node -> [Node -> Nat]]
    BY <1>2 DEF TypeOK, InsertEdge
  <2>. QED
    BY <1>2, <2>1, <2>2 DEF TypeOK, InsertEdge
<1>3. ASSUME NEW e \in Edge, RemoveEdge(e)
      PROVE  TypeOK'
  <2>1. src[e] \in Node /\ dst[e] \in Node
    BY <1>3 DEF RemoveEdge, IncidenceCoherent, TypeOK
  <2>. QED
    BY <1>3, <2>1, RemoveEdgesType DEF RemoveEdge
<1>4. ASSUME NEW s \in Node, NEW d \in Node, RemoveAllEdges(s, d)
      PROVE  TypeOK'
  BY <1>4, RemoveEdgesType, Between(s, d) \subseteq edges DEF RemoveAllEdges, Between
<1>5. ASSUME NEW n \in Node, RemoveNode(n)
      PROVE  TypeOK'
  <2>1. IsFiniteSet(edges') /\ edges' \subseteq edges
    BY <1>5, FS_Subset, edges' \subseteq edges DEF RemoveNode, TypeOK
  <2>2. IsFiniteSet(inEdges[n])
    BY FS_Subset, inEdges[n] \subseteq edges DEF IncidenceCoherent, TypeOK
  <2>3. rootNodes' \in [Node -> Nat]
    BY <1>5, <2>2, RootsWithoutType DEF RemoveNode
  <2>4. inNodes' \in [Node -> [Node -> Nat]] /\ outNodes' \in [Node -> [Node -> Nat]]
    BY <1>5 DEF TypeOK, RemoveNode, EmptyBag
  <2>. QED
    BY <1>5, <2>1, <2>3, <2>4 DEF TypeOK, RemoveNode
<1>6. ASSUME Clear
      PROVE  TypeOK'
  BY <1>6, FS_EmptySet DEF TypeOK, Clear, EmptyBag
<1>7. CASE UNCHANGED topology
  BY <1>7 DEF TypeOK, topology
<1>. QED
  BY <1>1, <1>2, <1>3, <1>4, <1>5, <1>6, <1>7 DEF Next

------------------------------------------------------------------------------
(* Incidence: the end points of an edge and the lists of its end points are *)
(* updated together by every operation.                                     *)
LEMMA RemoveEdgesIncidence ==
  ASSUME TypeOK, IncidenceCoherent,
         NEW s \in Node, NEW d \in Node, NEW X \in SUBSET Between(s, d),
         RemoveEdges(s, d, X)
  PROVE  IncidenceCoherent'
<1>1. X \subseteq edges /\ \A e \in X : src[e] = s /\ dst[e] = d
  BY DEF Between
<1>2. \A e \in edges' : e \in edges /\ e \in Edge /\ src'[e] = src[e] /\ dst'[e] = dst[e]
  BY DEF RemoveEdges, TypeOK
<1>3. \A e \in edges' : {src'[e], dst'[e]} \subseteq nodes'
  BY <1>2 DEF RemoveEdges, IncidenceCoherent
<1>4. ASSUME NEW n \in Node
      PROVE  outEdges'[n] = {e \in edges' : src'[e] = n}
  <2>1. outEdges'[n] = outEdges[n] \ X
    BY <1>1 DEF RemoveEdges, TypeOK, IncidenceCoherent
  <2>. QED
    BY <1>2, <2>1 DEF RemoveEdges, IncidenceCoherent
<1>5. ASSUME NEW n \in Node
      PROVE  inEdges'[n] = {e \in edges' : dst'[e] = n}
  <2>1. inEdges'[n] = inEdges[n] \ X
    BY <1>1 DEF RemoveEdges, TypeOK, IncidenceCoherent
  <2>. QED
    BY <1>2, <2>1 DEF RemoveEdges, IncidenceCoherent
<1>. QED
  BY <1>3, <1>4, <1>5 DEF IncidenceCoherent

LEMMA RemoveNodeIncidence ==
  ASSUME TypeOK, IncidenceCoherent, NEW n \in Node, RemoveNode(n)
  PROVE  IncidenceCoherent'
<1>. DEFINE Gone == inEdges[n] \cup outEdges[n]
<1>1. edges' = edges \ Gone /\ nodes' = nodes \ {n}
  BY DEF RemoveNode
<1>2. \A e \in edges' : /\ e \in edges /\ e \in Edge /\ src'[e] = src[e] /\ dst'[e] = dst[e]
                        /\ src[e] # n /\ dst[e] # n
  BY DEF RemoveNode, TypeOK, IncidenceCoherent
<1>3. \A e \in edges' : {src'[e], dst'[e]} \subseteq nodes'
  BY <1>1, <1>2 DEF IncidenceCoherent
<1>4. ASSUME NEW m \in Node
      PROVE  outEdges'[m] = {e \in edges' : src'[e] = m}
  <2>1. CASE m = n
    BY <1>2, <2>1 DEF RemoveNode
  <2>2. CASE m # n
    <3>1. outEdges'[m] = outEdges[m] \ {e \in inEdges[n] : src[e] = m}
      BY <2>2 DEF RemoveNode
    <3>2. outEdges'[m] = {e \in edges : src[e] = m /\ dst[e] # n}
      BY <3>1 DEF IncidenceCoherent
    <3>. QED
      BY <1>1, <1>2, <2>2, <3>2 DEF IncidenceCoherent
  <2>. QED
    BY <2>1, <2>2
<1>5. ASSUME NEW m \in Node
      PROVE  inEdges'[m] = {e \in edges' : dst'[e] = m}
  <2>1. CASE m = n
    BY <1>2, <2>1 DEF RemoveNode
  <2>2. CASE m # n
    <3>1. inEdges'[m] = inEdges[m] \ {e \in outEdges[n] \ inEdges[n] : dst[e] = m}
      BY <2>2 DEF RemoveNode
    <3>2. inEdges'[m] = {e \in edges : dst[e] = m /\ src[e] # n}
      BY <2>2, <3>1 DEF IncidenceCoherent
    <3>. QED
      BY <1>1, <1>2, <2>2, <3>2 DEF IncidenceCoherent
  <2>. QED
    BY <2>1, <2>2
<1>. QED
  BY <1>3, <1>4, <1>5 DEF IncidenceCoherent

LEMMA IncidenceInductive == TypeOK /\ IncidenceCoherent /\ [Next]_topology => IncidenceCoherent'
<1>. SUFFICES ASSUME TypeOK, IncidenceCoherent, [Next]_topology
              PROVE  IncidenceCoherent'
  OBVIOUS
<1>1. ASSUME NEW n \in Node, InsertNode(n)
      PROVE  IncidenceCoherent'
  BY <1>1 DEF IncidenceCoherent, InsertNode
<1>2. ASSUME NEW e \in Edge, NEW s \in Node, NEW d \in Node, InsertEdge(e, s, d)
      PROVE  IncidenceCoherent'
  <2>1. /\ edges' = edges \cup {e} /\ nodes' = nodes /\ e \notin edges /\ {s, d} \subseteq nodes
        /\ src'[e] = s /\ dst'[e] = d
        /\ \A f \in edges : f # e /\ src'[f] = src[f] /\ dst'[f] = dst[f]
    BY <1>2 DEF InsertEdge, TypeOK
  <2>2. \A n \in Node : /\ outEdges'[n] = IF n = s THEN outEdges[n] \cup {e} ELSE outEdges[n]
                        /\ inEdges'[n] = IF n = d THEN inEdges[n] \cup {e} ELSE inEdges[n]
    BY <1>2 DEF InsertEdge, TypeOK
  <2>3. ASSUME NEW n \in Node
        PROVE  outEdges'[n] = {f \in edges' : src'[f] = n}
    <3>1. outEdges[n] = {f \in edges : src[f] = n}
      BY DEF IncidenceCoherent
    <3>2. CASE n = s
      <4>1. outEdges'[n] = outEdges[n] \cup {e}
        BY <2>2, <3>2
      <4>2. \A f : f \in edges' /\ src'[f] = n <=> f = e \/ (f \in edges /\ src[f] = n)
        BY <2>1, <3>2
      <4>. QED
        BY <3>1, <4>1, <4>2
    <3>3. CASE n # s
      <4>1. outEdges'[n] = outEdges[n]
        BY <2>2, <3>3
      <4>2. \A f : f \in edges' /\ src'[f] = n <=> f \in edges /\ src[f] = n
        BY <2>1, <3>3
      <4>. QED
        BY <3>1, <4>1, <4>2
    <3>. QED
      BY <3>2, <3>3
  <2>4. ASSUME NEW n \in Node
        PROVE  inEdges'[n] = {f \in edges' : dst'[f] = n}
    <3>1. inEdges[n] = {f \in edges : dst[f] = n}
      BY DEF IncidenceCoherent
    <3>2. CASE n = d
      <4>1. inEdges'[n] = inEdges[n] \cup {e}
        BY <2>2, <3>2
      <4>2. \A f : f \in edges' /\ dst'[f] = n <=> f = e \/ (f \in edges /\ dst[f] = n)
        BY <2>1, <3>2
      <4>. QED
        BY <3>1, <4>1, <4>2
    <3>3. CASE n # d
      <4>1. inEdges'[n] = inEdges[n]
        BY <2>2, <3>3
      <4>2. \A f : f \in edges' /\ dst'[f] = n <=> f \in edges /\ dst[f] = n
        BY <2>1, <3>3
      <4>. QED
        BY <3>1, <4>1, <4>2
    <3>. QED
      BY <3>2, <3>3
  <2>. QED
    BY <2>1, <2>3, <2>4 DEF IncidenceCoherent
<1>3. ASSUME NEW e \in Edge, RemoveEdge(e)
      PROVE  IncidenceCoherent'
  <2>1. /\ src[e] \in Node /\ dst[e] \in Node
        /\ {e} \subseteq Between(src[e], dst[e])
    BY <1>3 DEF RemoveEdge, IncidenceCoherent, TypeOK, Between
  <2>. QED
    BY <1>3, <2>1, RemoveEdgesIncidence DEF RemoveEdge
<1>4. ASSUME NEW s \in Node, NEW d \in Node, RemoveAllEdges(s, d)
      PROVE  IncidenceCoherent'
  BY <1>4, RemoveEdgesIncidence DEF RemoveAllEdges
<1>5. ASSUME NEW n \in Node, RemoveNode(n)
      PROVE  IncidenceCoherent'
  BY <1>5, RemoveNodeIncidence
<1>6. ASSUME Clear
      PROVE  IncidenceCoherent'
  BY <1>6 DEF IncidenceCoherent, Clear
<1>7. CASE UNCHANGED topology
  BY <1>7 DEF IncidenceCoherent, topology
<1>. QED
  BY <1>1, <1>2, <1>3, <1>4, <1>5, <1>6, <1>7 DEF Next

(* The containers keep their types (GTpoTopology!TypeOK), and no operation  *)
(* leaves an edge in the list of one end point only or with an end point    *)
(* that is gone.  The two are proved together: an edge has real end points  *)
(* because of the incidence, and the incidence is about typed containers.   *)
THEOREM TypeCorrect == Spec => [](TypeOK /\ IncidenceCoherent)
<1>1. Init => TypeOK
  BY FS_EmptySet DEF Init, TypeOK, EmptyBag
<1>2. Init => IncidenceCoherent
  BY DEF Init, IncidenceCoherent
<1>. QED
  BY <1>1, <1>2, TypeInductive, IncidenceInductive, PTL DEF Spec

------------------------------------------------------------------------------
(* The root node cache.  Its two halves are inductive together with the     *)
(* types and the incidence.                                                 *)

LEMMA RemoveEdgesRoots ==
  ASSUME TypeOK, IncidenceCoherent, RootCacheCoherent,
         NEW s \in Node, NEW d \in Node, NEW X \in SUBSET Between(s, d), X # {},
         RemoveEdges(s, d, X)
  PROVE  RootCacheCoherent'
<1>1. /\ X \subseteq edges /\ IsFiniteSet(X) /\ Cardinality(X) \in Nat
      /\ s \in nodes /\ d \in nodes
  BY FS_Subset, FS_CardinalityType, X \subseteq edges DEF Between, TypeOK, IncidenceCoherent
<1>2. /\ nodes' = nodes
      /\ \A n \in Node : inEdges'[n] = IF n = d THEN inEdges[n] \ X ELSE inEdges[n]
      /\ \A n \in Node : rootNodes'[n] =
            rootNodes[n] + (IF n = s /\ inEdges[s] = {} THEN Cardinality(X) ELSE 0)
                         + (IF n = d /\ inEdges[d] \subseteq X THEN 1 ELSE 0)
  BY DEF RemoveEdges, RootsAfterRemoval, TypeOK
<1>3. \A n \in Node : rootNodes[n] \in Nat
  BY DEF TypeOK
<1>4. ASSUME NEW n \in nodes', inEdges'[n] = {}
      PROVE  rootNodes'[n] > 0
  <2>0. n \in Node /\ n \in nodes
    BY <1>2 DEF TypeOK
  <2>1. CASE n = d
    <3>1. inEdges[d] \subseteq X
      BY <1>2, <1>4, <2>1
    <3>2. rootNodes'[n] = rootNodes[n] + (IF n = s /\ inEdges[s] = {} THEN Cardinality(X) ELSE 0) + 1
      BY <1>2, <2>1, <3>1
    <3>. QED
      BY <1>1, <1>3, <2>0, <3>2
  <2>2. CASE n # d
    <3>1. rootNodes[n] > 0
      BY <1>2, <1>4, <2>0, <2>2 DEF RootCacheCoherent, RootCacheComplete
    <3>. QED
      BY <1>1, <1>2, <1>3, <2>0, <3>1
  <2>. QED
    BY <2>1, <2>2
<1>5. ASSUME NEW n \in Node, rootNodes'[n] > 0
      PROVE  n \in nodes' /\ \A e \in inEdges'[n] : src'[e] = n
  <2>1. CASE rootNodes[n] > 0
    <3>1. n \in nodes /\ \A e \in inEdges[n] : src[e] = n
      BY <2>1 DEF RootCacheCoherent, RootCacheSound
    <3>2. ASSUME NEW e \in inEdges'[n]
          PROVE  e \in inEdges[n] /\ e \in Edge /\ e \notin X
      <4>1. e \in inEdges[n]
        BY <1>2
      <4>2. e \in Edge /\ dst[e] = n
        BY <4>1 DEF TypeOK, IncidenceCoherent
      <4>3. CASE n = d
        BY <1>2, <4>1, <4>2, <4>3
      <4>4. CASE n # d
        BY <4>1, <4>2, <4>4 DEF Between
      <4>. QED
        BY <4>3, <4>4
    <3>3. \A e \in inEdges'[n] : src'[e] = src[e]
      BY <3>2 DEF RemoveEdges
    <3>. QED
      BY <1>2, <3>1, <3>2, <3>3
  <2>2. CASE ~(rootNodes[n] > 0)
    <3>1. rootNodes[n] = 0
      BY <1>3, <2>2
    <3>2. (n = s /\ inEdges[s] = {}) \/ (n = d /\ inEdges[d] \subseteq X)
      BY <1>1, <1>2, <1>5, <3>1
    <3>3. inEdges'[n] = {}
      BY <1>2, <3>2
    <3>. QED
      BY <1>1, <1>2, <3>2, <3>3
  <2>. QED
    BY <2>1, <2>2
<1>. QED
  BY <1>4, <1>5 DEF RootCacheCoherent, RootCacheComplete, RootCacheSound

LEMMA RemoveNodeRoots ==
  ASSUME TypeOK, IncidenceCoherent, RootCacheCoherent, NEW n \in Node, RemoveNode(n)
  PROVE  RootCacheCoherent'
<1>. DEFINE In     == inEdges[n]
            Out    == outEdges[n] \ In
            From(m) == {e \in In : src[e] = m}
<1>1. \A m \in Node : m # n =>
        /\ inEdges'[m] = inEdges[m] \ {e \in Out : dst[e] = m}
        /\ rootNodes'[m] = rootNodes[m]
              + (IF inEdges[m] = {} THEN Cardinality(From(m)) ELSE 0)
              + (IF inEdges[m] # {} /\ inEdges[m] \subseteq Out THEN 1 ELSE 0)
  BY DEF RemoveNode, RootsWithout
<1>2. nodes' = nodes \ {n} /\ rootNodes'[n] = 0
  BY DEF RemoveNode, RootsWithout
<1>3. \A m \in Node : rootNodes[m] \in Nat
  BY DEF TypeOK
<1>4. \A m \in Node : Cardinality(From(m)) \in Nat
  <2>. SUFFICES ASSUME NEW m \in Node
                PROVE  Cardinality(From(m)) \in Nat
    OBVIOUS
  <2>1. From(m) \subseteq edges
    BY DEF IncidenceCoherent
  <2>. QED
    BY <2>1, FS_Subset, FS_CardinalityType DEF TypeOK
<1>5. ASSUME NEW m \in nodes', inEdges'[m] = {}
      PROVE  rootNodes'[m] > 0
  <2>1. m \in Node /\ m \in nodes /\ m # n
    BY <1>2 DEF TypeOK
  <2>2. CASE inEdges[m] = {}
    <3>1. rootNodes[m] > 0
      BY <2>1, <2>2 DEF RootCacheCoherent, RootCacheComplete
    <3>2. rootNodes'[m] = rootNodes[m] + Cardinality(From(m)) + 0
      BY <1>1, <2>1, <2>2
    <3>. HIDE DEF From
    <3>. QED
      BY <1>3, <1>4, <2>1, <3>1, <3>2
  <2>3. CASE inEdges[m] # {}
    <3>1. inEdges[m] \subseteq Out
      BY <1>1, <1>5, <2>1
    <3>2. rootNodes'[m] = rootNodes[m] + 0 + 1
      BY <1>1, <2>1, <2>3, <3>1
    <3>. QED
      BY <1>3, <2>1, <3>2
  <2>. QED
    BY <2>2, <2>3
<1>6. ASSUME NEW m \in Node, rootNodes'[m] > 0
      PROVE  m \in nodes' /\ \A e \in inEdges'[m] : src'[e] = m
  <2>1. m # n
    BY <1>2, <1>6
  <2>2. CASE rootNodes[m] > 0
    <3>1. m \in nodes /\ \A e \in inEdges[m] : src[e] = m
      BY <2>2 DEF RootCacheCoherent, RootCacheSound
    <3>2. ASSUME NEW e \in inEdges'[m]
          PROVE  e \in inEdges[m] /\ e \in Edge /\ src[e] = m /\ dst[e] = m
      <4>1. inEdges'[m] \subseteq inEdges[m]
        BY <1>1, <2>1
      <4>2. e \in inEdges[m]
        BY <4>1
      <4>. QED
        BY <3>1, <4>2 DEF IncidenceCoherent, TypeOK
    <3>3. \A e \in inEdges'[m] : e \notin In \cup Out
      BY <2>1, <3>2 DEF IncidenceCoherent
    <3>4. \A e \in inEdges'[m] : src'[e] = src[e]
      BY <3>2, <3>3 DEF RemoveNode
    <3>. QED
      BY <1>2, <2>1, <3>1, <3>2, <3>4
  <2>3. CASE ~(rootNodes[m] > 0) /\ inEdges[m] = {}
    <3>1. inEdges'[m] = {}
      BY <1>1, <2>1, <2>3
    <3>2. rootNodes'[m] = 0 + Cardinality(From(m)) + 0
      BY <1>1, <1>3, <2>1, <2>3
    <3>3. From(m) # {}
      BY <1>6, <3>2, FS_EmptySet
    <3>4. m \in nodes
      BY <3>3 DEF IncidenceCoherent
    <3>. QED
      BY <1>2, <2>1, <3>1, <3>4
  <2>4. CASE ~(rootNodes[m] > 0) /\ inEdges[m] # {}
    <3>1. inEdges[m] \subseteq Out
      <4>. HIDE DEF Out, From
      <4>. SUFFICES ASSUME ~(inEdges[m] \subseteq Out)
                    PROVE  FALSE
        OBVIOUS
      <4>1. rootNodes'[m] = rootNodes[m] + 0 + 0
        BY <1>1, <2>1, <2>4
      <4>. QED
        BY <1>3, <1>6, <2>4, <4>1
    <3>2. \A e \in inEdges[m] : e \in edges /\ dst[e] = m
      BY DEF IncidenceCoherent
    <3>3. inEdges'[m] = {}
      BY <1>1, <2>1, <3>1, <3>2
    <3>4. m \in nodes
      BY <2>4, <3>2 DEF IncidenceCoherent
    <3>. QED
      BY <1>2, <2>1, <3>3, <3>4
  <2>. QED
    BY <2>2, <2>3, <2>4
<1>. QED
  BY <1>5, <1>6 DEF RootCacheCoherent, RootCacheComplete, RootCacheSound

LEMMA RootCacheInductive ==
  TypeOK /\ IncidenceCoherent /\ RootCacheCoherent /\ [Next]_topology => RootCacheCoherent'
<1>. SUFFICES ASSUME TypeOK, IncidenceCoherent, RootCacheCoherent, [Next]_topology
              PROVE  RootCacheCoherent'
  OBVIOUS
<1>. USE DEF RootCacheCoherent, RootCacheComplete, RootCacheSound
<1>1. ASSUME NEW n \in Node, InsertNode(n)
      PROVE  RootCacheCoherent'
  <2>1. inEdges[n] = {}
    BY <1>1 DEF InsertNode, IncidenceCoherent
  <2>. QED
    BY <1>1, <2>1 DEF InsertNode, TypeOK
<1>2. ASSUME NEW e \in Edge, NEW s \in Node, NEW d \in Node, InsertEdge(e, s, d)
      PROVE  RootCacheCoherent'
  <2>1. /\ nodes' = nodes
        /\ \A n \in Node : inEdges'[n] = IF n = d THEN inEdges[n] \cup {e} ELSE inEdges[n]
        /\ \A n \in Node : rootNodes'[n] = IF s # d /\ n = d THEN 0 ELSE rootNodes[n]
        /\ src'[e] = s
    BY <1>2 DEF InsertEdge, TypeOK
  <2>2. \A n \in Node : \A f \in inEdges[n] : src'[f] = src[f]
    BY <1>2 DEF InsertEdge, TypeOK, IncidenceCoherent
  <2>3. ASSUME NEW n \in nodes', inEdges'[n] = {}
        PROVE  rootNodes'[n] > 0
    BY <2>1, <2>3 DEF TypeOK
  <2>4. ASSUME NEW n \in Node, rootNodes'[n] > 0
        PROVE  n \in nodes' /\ \A f \in inEdges'[n] : src'[f] = n
    <3>1. rootNodes'[n] = rootNodes[n] /\ ~(s # d /\ n = d)
      BY <2>1, <2>4
    <3>2. n \in nodes /\ \A f \in inEdges[n] : src[f] = n
      BY <2>4, <3>1
    <3>3. CASE n = d
      <4>1. \A f \in inEdges'[n] : f = e \/ f \in inEdges[n]
        <5>1. inEdges'[n] = inEdges[n] \cup {e}
          BY <2>1, <3>3
        <5>. QED
          BY <5>1
      <4>2. src'[e] = n
        BY <2>1, <3>1, <3>3
      <4>. QED
        BY <2>1, <2>2, <3>2, <4>1, <4>2
    <3>4. CASE n # d
      <4>1. inEdges'[n] = inEdges[n]
        BY <2>1, <3>4
      <4>. QED
        BY <2>1, <2>2, <3>2, <4>1
    <3>. QED
      BY <3>3, <3>4
  <2>. QED
    BY <2>3, <2>4
<1>3. ASSUME NEW e \in Edge, RemoveEdge(e)
      PROVE  RootCacheCoherent'
  <2>1. /\ src[e] \in Node /\ dst[e] \in Node
        /\ {e} \subseteq Between(src[e], dst[e])
    BY <1>3 DEF RemoveEdge, IncidenceCoherent, TypeOK, Between
  <2>. HIDE DEF RootCacheCoherent
  <2>. QED
    BY <1>3, <2>1, RemoveEdgesRoots, {e} # {} DEF RemoveEdge
<1>4. ASSUME NEW s \in Node, NEW d \in Node, RemoveAllEdges(s, d)
      PROVE  RootCacheCoherent'
  <2>. HIDE DEF RootCacheCoherent
  <2>. QED
    BY <1>4, RemoveEdgesRoots DEF RemoveAllEdges
<1>5. ASSUME NEW n \in Node, RemoveNode(n)
      PROVE  RootCacheCoherent'
  <2>. HIDE DEF RootCacheCoherent
  <2>. QED
    BY <1>5, RemoveNodeRoots
<1>6. ASSUME Clear
      PROVE  RootCacheCoherent'
  BY <1>6 DEF Clear, EmptyBag
<1>7. CASE UNCHANGED topology
  BY <1>7 DEF topology
<1>. QED
  BY <1>1, <1>2, <1>3, <1>4, <1>5, <1>6, <1>7 DEF Next

(* isRootNode() is right after any sequence of operations: a node without   *)
(* in edges is cached (RootCacheComplete), a cached node is in the graph    *)
(* and no other node points to it (RootCacheSound).                         *)
THEOREM RootCacheCorrect == Spec => []RootCacheCoherent
<1>1. Init => RootCacheCoherent
  BY DEF Init, RootCacheCoherent, RootCacheComplete, RootCacheSound, EmptyBag
<1>2. Spec => []RootCacheCoherent
  BY <1>1, TypeCorrect, RootCacheInductive, PTL DEF Spec
<1>. QED
  BY <1>2, PTL DEF RootCacheCoherent

------------------------------------------------------------------------------
(* The neighbour bags.  They are bounded by the parallel edges, so a bag has *)
(* no entry to lose where there are none.                                    *)

LEMMA BetweenFinite ==
  ASSUME TypeOK, NEW s, NEW d
  PROVE  IsFiniteSet(Between(s, d)) /\ Cardinality(Between(s, d)) \in Nat
<1>1. Between(s, d) \subseteq edges
  BY DEF Between
<1>. QED
  BY <1>1, FS_Subset, FS_CardinalityType DEF TypeOK

LEMMA RemoveEdgesNeighbours ==
  ASSUME TypeOK, IncidenceCoherent, NeighboursMirrored, TypeOK',
         NEW s \in Node, NEW d \in Node, NEW X \in SUBSET Between(s, d),
         RemoveEdges(s, d, X)
  PROVE  NeighboursMirrored'
<1>. SUFFICES ASSUME NEW m \in Node, NEW k \in Node
              PROVE  /\ outNodes'[m][k] = inNodes'[k][m]
                     /\ outNodes'[m][k] <= Cardinality(Between(m, k)')
  BY DEF NeighboursMirrored
<1>1. /\ outNodes'[m][k] = IF m = s /\ k = d THEN 0 ELSE outNodes[m][k]
      /\ inNodes'[k][m] = IF m = s /\ k = d THEN 0 ELSE inNodes[k][m]
  BY DEF RemoveEdges, TypeOK
<1>2. Cardinality(Between(m, k)') \in Nat
  <2>1. Between(m, k)' \subseteq edges'
    BY DEF Between
  <2>. QED
    BY <2>1, FS_Subset, FS_CardinalityType DEF TypeOK
<1>3. ASSUME ~(m = s /\ k = d)
      PROVE  Between(m, k)' = Between(m, k)
  <2>1. edges \subseteq Edge /\ \A e \in X : src[e] = s /\ dst[e] = d
    BY DEF TypeOK, Between
  <2>2. \A e \in edges' : e \in edges /\ src'[e] = src[e] /\ dst'[e] = dst[e]
    BY <2>1 DEF RemoveEdges
  <2>3. \A e \in edges : src[e] = m /\ dst[e] = k => e \in edges'
    BY <1>3, <2>1 DEF RemoveEdges
  <2>. QED
    BY <2>2, <2>3 DEF Between
<1>. QED
  BY <1>1, <1>2, <1>3 DEF NeighboursMirrored

LEMMA RemoveNodeNeighbours ==
  ASSUME TypeOK, IncidenceCoherent, NeighboursMirrored, TypeOK', IncidenceCoherent',
         NEW n \in Node, RemoveNode(n)
  PROVE  NeighboursMirrored'
<1>. SUFFICES ASSUME NEW m \in Node, NEW k \in Node
              PROVE  /\ outNodes'[m][k] = inNodes'[k][m]
                     /\ outNodes'[m][k] <= Cardinality(Between(m, k)')
  BY DEF NeighboursMirrored
<1>1. /\ outNodes[m][k] = inNodes[k][m] /\ outNodes[m][k] \in Nat
      /\ outNodes[m][k] <= Cardinality(Between(m, k))
  BY DEF NeighboursMirrored, TypeOK
<1>2. Between(m, k) = {} => outNodes[m][k] = 0 /\ inNodes[k][m] = 0
  BY <1>1, FS_EmptySet
<1>3. Cardinality(Between(m, k)') \in Nat
  <2>1. Between(m, k)' \subseteq edges'
    BY DEF Between
  <2>. QED
    BY <2>1, FS_Subset, FS_CardinalityType DEF TypeOK
<1>4. CASE m # n /\ k # n
  <2>1. outNodes'[m][k] = outNodes[m][k] /\ inNodes'[k][m] = inNodes[k][m]
    BY <1>4 DEF RemoveNode, TypeOK
  <2>2. edges' = edges \ (inEdges[n] \cup outEdges[n])
    BY DEF RemoveNode
  <2>3. \A e \in edges' : e \in edges /\ src'[e] = src[e] /\ dst'[e] = dst[e]
    BY <2>2 DEF RemoveNode, TypeOK
  <2>4. \A e \in edges : src[e] = m /\ dst[e] = k => e \in edges'
    BY <1>4, <2>2 DEF IncidenceCoherent
  <2>5. Between(m, k)' = Between(m, k)
    BY <2>3, <2>4 DEF Between
  <2>. QED
    BY <1>1, <2>1, <2>5
<1>5. CASE m # n /\ k = n
  <2>1. inNodes'[k][m] = 0
    BY <1>5 DEF RemoveNode, EmptyBag
  <2>2. outNodes'[m][k] = 0
    <3>1. CASE \E e \in inEdges[n] : src[e] = m
      BY <1>5, <3>1 DEF RemoveNode, TypeOK
    <3>2. CASE ~\E e \in inEdges[n] : src[e] = m
      <4>1. outNodes'[m] = outNodes[m]
        BY <1>5, <3>2 DEF RemoveNode
      <4>2. Between(m, k) = {}
        BY <1>5, <3>2 DEF Between, IncidenceCoherent
      <4>. QED
        BY <1>2, <4>1, <4>2
    <3>. QED
      BY <3>1, <3>2
  <2>. QED
    BY <1>3, <2>1, <2>2
<1>6. CASE m = n /\ k # n
  <2>1. outNodes'[m][k] = 0
    BY <1>6 DEF RemoveNode, EmptyBag
  <2>2. inNodes'[k][m] = 0
    <3>1. CASE \E e \in outEdges[n] \ inEdges[n] : dst[e] = k
      BY <1>6, <3>1 DEF RemoveNode, TypeOK
    <3>2. CASE ~\E e \in outEdges[n] \ inEdges[n] : dst[e] = k
      <4>1. inNodes'[k] = inNodes[k]
        BY <1>6, <3>2 DEF RemoveNode
      <4>2. Between(m, k) = {}
        BY <1>6, <3>2 DEF Between, IncidenceCoherent
      <4>. QED
        BY <1>2, <4>1, <4>2
    <3>. QED
      BY <3>1, <3>2
  <2>. QED
    BY <1>3, <2>1, <2>2
<1>7. CASE m = n /\ k = n
  <2>1. outNodes'[m][k] = 0 /\ inNodes'[k][m] = 0
    BY <1>7 DEF RemoveNode, EmptyBag
  <2>. QED
    BY <1>3, <2>1
<1>. QED
  BY <1>4, <1>5, <1>6, <1>7

LEMMA NeighboursInductive ==
  TypeOK /\ IncidenceCoherent /\ NeighboursMirrored /\ [Next]_topology => NeighboursMirrored'
<1>. SUFFICES ASSUME TypeOK, IncidenceCoherent, NeighboursMirrored, [Next]_topology
              PROVE  NeighboursMirrored'
  OBVIOUS
<1>0. TypeOK' /\ IncidenceCoherent'
  BY TypeInductive, IncidenceInductive
<1>1. ASSUME NEW n \in Node, InsertNode(n)
      PROVE  NeighboursMirrored'
  BY <1>1 DEF InsertNode, NeighboursMirrored, Between
<1>2. ASSUME NEW e \in Edge, NEW s \in Node, NEW d \in Node, InsertEdge(e, s, d)
      PROVE  NeighboursMirrored'
  <2>. SUFFICES ASSUME NEW m \in Node, NEW k \in Node
                PROVE  /\ outNodes'[m][k] = inNodes'[k][m]
                       /\ outNodes'[m][k] <= Cardinality(Between(m, k)')
    BY DEF NeighboursMirrored
  <2>1. /\ outNodes'[m][k] = IF m = s /\ k = d THEN outNodes[m][k] + 1 ELSE outNodes[m][k]
        /\ inNodes'[k][m] = IF m = s /\ k = d THEN inNodes[k][m] + 1 ELSE inNodes[k][m]
    BY <1>2 DEF InsertEdge, TypeOK
  <2>2. /\ edges' = edges \cup {e} /\ e \notin edges /\ edges \subseteq Edge
        /\ src'[e] = s /\ dst'[e] = d
        /\ \A f \in edges : src'[f] = src[f] /\ dst'[f] = dst[f]
    BY <1>2 DEF InsertEdge, TypeOK
  <2>3. Between(m, k)' = IF m = s /\ k = d THEN Between(m, k) \cup {e} ELSE Between(m, k)
    BY <2>2 DEF Between
  <2>4. e \notin Between(m, k)
    BY <2>2 DEF Between
  <2>5. Cardinality(Between(m, k) \cup {e}) = Cardinality(Between(m, k)) + 1
    BY <2>4, BetweenFinite, FS_AddElement
  <2>6. outNodes[m][k] \in Nat /\ Cardinality(Between(m, k)) \in Nat
    BY BetweenFinite DEF TypeOK
  <2>. QED
    BY <2>1, <2>3, <2>5, <2>6 DEF NeighboursMirrored
<1>3. ASSUME NEW e \in Edge, RemoveEdge(e)
      PROVE  NeighboursMirrored'
  <2>1. /\ src[e] \in Node /\ dst[e] \in Node
        /\ {e} \subseteq Between(src[e], dst[e])
    BY <1>3 DEF RemoveEdge, IncidenceCoherent, TypeOK, Between
  <2>. QED
    BY <1>0, <1>3, <2>1, RemoveEdgesNeighbours DEF RemoveEdge
<1>4. ASSUME NEW s \in Node, NEW d \in Node, RemoveAllEdges(s, d)
      PROVE  NeighboursMirrored'
  BY <1>0, <1>4, RemoveEdgesNeighbours DEF RemoveAllEdges
<1>5. ASSUME NEW n \in Node, RemoveNode(n)
      PROVE  NeighboursMirrored'
  BY <1>0, <1>5, RemoveNodeNeighbours
<1>6. ASSUME Clear
      PROVE  NeighboursMirrored'
  <2>. SUFFICES ASSUME NEW m \in Node, NEW k \in Node
                PROVE  /\ outNodes'[m][k] = inNodes'[k][m]
                       /\ outNodes'[m][k] <= Cardinality(Between(m, k)')
    BY DEF NeighboursMirrored
  <2>1. Between(m, k)' = {}
    BY <1>6 DEF Clear, Between
  <2>2. outNodes'[m][k] = 0 /\ inNodes'[k][m] = 0
    BY <1>6 DEF Clear, EmptyBag
  <2>3. Cardinality(Between(m, k)') = 0
    BY <2>1, FS_EmptySet
  <2>. QED
    BY <2>2, <2>3
<1>7. CASE UNCHANGED topology
  BY <1>7 DEF topology, NeighboursMirrored, Between
<1>. QED
  BY <1>1, <1>2, <1>3, <1>4, <1>5, <1>6, <1>7 DEF Next

(* The neighbour bags of two nodes mirror each other and count no more than  *)
(* the edges between them, after any sequence of insertions and removals     *)
(* (GenNode::addOutEdge(), removeOutEdge() and their in edge counterparts).  *)
THEOREM NeighboursCorrect == Spec => []NeighboursMirrored
<1>1. Init => NeighboursMirrored
  <2>1. Init => \A m, k \in Node : Between(m, k) = {}
    BY DEF Init, Between
  <2>. QED
    BY <2>1, FS_EmptySet DEF Init, EmptyBag, NeighboursMirrored
<1>. QED
  BY <1>1, TypeCorrect, NeighboursInductive, PTL DEF Spec

------------------------------------------------------------------------------
(* The refinement: the edge lists are the links of a directed multigraph.    *)

(* A link is an edge of the graph with its end points. *)
LinksAreEdges == Links = {<<src[e], e, dst[e]>> : e \in edges}

LEMMA EdgesAreLinked == TypeOK /\ IncidenceCoherent => LinksAreEdges
<1>. SUFFICES ASSUME TypeOK, IncidenceCoherent
              PROVE  LinksAreEdges
  OBVIOUS
<1>1. ASSUME NEW l \in Links
      PROVE  l[2] \in edges /\ l = <<src[l[2]], l[2], dst[l[2]]>>
  BY DEF Links, IncidenceCoherent
<1>2. ASSUME NEW e \in edges
      PROVE  <<src[e], e, dst[e]>> \in Links
  <2>1. src[e] \in Node /\ dst[e] \in Node /\ e \in Edge
    BY DEF TypeOK, IncidenceCoherent
  <2>2. e \in outEdges[src[e]] /\ e \in inEdges[dst[e]]
    BY <2>1 DEF IncidenceCoherent
  <2>. QED
    BY <2>1, <2>2 DEF Links
<1>. QED
  BY <1>1, <1>2 DEF LinksAreEdges

(* The edges X leave the graph, the others keep their ends. *)
LEMMA LinksWithout ==
  ASSUME LinksAreEdges, LinksAreEdges', NEW X,
         edges' = edges \ X,
         \A e \in edges' : src'[e] = src[e] /\ dst'[e] = dst[e]
  PROVE  Links' = {l \in Links : l[2] \notin X}
BY DEF LinksAreEdges

LEMMA StepsAreSteps ==
  /\ TypeOK /\ IncidenceCoherent /\ LinksAreEdges /\ LinksAreEdges'
  /\ [Next]_topology
  => [D!Next]_(D!vars)
<1>. SUFFICES ASSUME TypeOK, IncidenceCoherent, LinksAreEdges, LinksAreEdges',
                     [Next]_topology
              PROVE  [D!Next]_(D!vars)
  OBVIOUS
<1>a. Links = {<<src[e], e, dst[e]>> : e \in edges}
  BY DEF LinksAreEdges
<1>b. Links' = {<<src'[e], e, dst'[e]>> : e \in edges'}
  BY DEF LinksAreEdges
<1>1. ASSUME NEW n \in Node, InsertNode(n)
      PROVE  D!AddNode(n)
  BY <1>1 DEF InsertNode, D!AddNode, Links
<1>2. ASSUME NEW e \in Edge, NEW s \in Node, NEW d \in Node, InsertEdge(e, s, d)
      PROVE  D!AddLink(s, e, d)
  <2>1. /\ edges' = edges \cup {e} /\ e \notin edges /\ edges \subseteq Edge
        /\ {s, d} \subseteq nodes /\ nodes' = nodes
        /\ src'[e] = s /\ dst'[e] = d
        /\ \A f \in edges : src'[f] = src[f] /\ dst'[f] = dst[f]
    BY <1>2 DEF InsertEdge, TypeOK
  <2>2. Links' = Links \cup {<<s, e, d>>}
    BY <1>a, <1>b, <2>1
  <2>3. \A l \in Links : l[2] # e
    BY <1>a, <2>1
  <2>. QED
    BY <2>1, <2>2, <2>3 DEF D!AddLink
<1>3. ASSUME NEW e \in Edge, RemoveEdge(e)
      PROVE  D!RemoveLink(<<src[e], e, dst[e]>>) /\ <<src[e], e, dst[e]>> \in Links
  <2>1. e \in edges /\ nodes' = nodes /\ edges' = edges \ {e}
    BY <1>3 DEF RemoveEdge, RemoveEdges
  <2>2. \A f \in edges' : src'[f] = src[f] /\ dst'[f] = dst[f]
    BY <1>3, <2>1 DEF RemoveEdge, RemoveEdges, TypeOK
  <2>3. Links' = {l \in Links : l[2] \notin {e}}
    BY <2>1, <2>2, LinksWithout
  <2>4. Links' = Links \ {<<src[e], e, dst[e]>>}
    BY <1>a, <2>3
  <2>. QED
    BY <1>a, <2>1, <2>4 DEF D!RemoveLink
<1>4. ASSUME NEW s \in Node, NEW d \in Node, RemoveAllEdges(s, d)
      PROVE  D!RemoveParallel(s, d)
  <2>1. nodes' = nodes /\ edges' = edges \ Between(s, d)
    BY <1>4 DEF RemoveAllEdges, RemoveEdges
  <2>2. \A f \in edges' : src'[f] = src[f] /\ dst'[f] = dst[f]
    BY <1>4, <2>1 DEF RemoveAllEdges, RemoveEdges, TypeOK
  <2>3. Links' = {l \in Links : l[2] \notin Between(s, d)}
    BY <2>1, <2>2, LinksWithout
  <2>4. Links' = Links \ D!Parallel(s, d)
    BY <1>a, <2>3 DEF D!Parallel, Between
  <2>. QED
    BY <2>1, <2>4 DEF D!RemoveParallel
<1>5. ASSUME NEW n \in Node, RemoveNode(n)
      PROVE  D!RemoveNode(n)
  <2>1. /\ n \in nodes /\ nodes' = nodes \ {n}
        /\ edges' = edges \ (inEdges[n] \cup outEdges[n])
    BY <1>5 DEF RemoveNode
  <2>2. \A f \in edges' : src'[f] = src[f] /\ dst'[f] = dst[f]
    BY <1>5, <2>1 DEF RemoveNode, TypeOK
  <2>3. Links' = {l \in Links : l[2] \notin inEdges[n] \cup outEdges[n]}
    BY <2>1, <2>2, LinksWithout
  <2>4. \A e \in edges : e \in inEdges[n] \cup outEdges[n] <=> src[e] = n \/ dst[e] = n
    BY DEF IncidenceCoherent
  <2>5. Links' = Links \ D!Touching(n)
    BY <1>a, <2>3, <2>4 DEF D!Touching
  <2>. QED
    BY <2>1, <2>5 DEF D!RemoveNode
<1>6. ASSUME Clear
      PROVE  D!Clear
  BY <1>6, <1>b DEF Clear, D!Clear
<1>7. CASE UNCHANGED topology
  BY <1>7 DEF topology, Links, D!vars
<1>. QED
  BY <1>1, <1>2, <1>3, <1>4, <1>5, <1>6, <1>7 DEF Next, D!Next

(* The containers of GenGraph implement the directed multigraph of module    *)
(* Digraph, for every set of nodes and edges: createEdge(), removeEdge(),    *)
(* removeAllEdges() and removeNode() take exactly the links they should.     *)
THEOREM Implementation == Spec => ImplementsDigraph
<1>1. Init => D!Init
  BY DEF Init, D!Init, Links
<1>. QED
  BY <1>1, StepsAreSteps, EdgesAreLinked, TypeCorrect, PTL DEF Spec, ImplementsDigraph, D!Spec
==============================================================================
