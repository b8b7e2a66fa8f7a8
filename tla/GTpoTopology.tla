----------------------------- MODULE GTpoTopology -----------------------------
(***************************************************************************)
(* The topology kept by gtpo::GenGraph: the nodes, the directed edges      *)
(* between nodes, the adjacency lists every node keeps of its own edges    *)
(* and neighbours, and the root node cache.  The same fact is stored in    *)
(* several places (an edge knows its end points, each end point lists the  *)
(* edge, the graph lists both), and every operation has to update all of   *)
(* them; that they agree is what this module is about.                     *)
(*                                                                         *)
(* Abstractions.  The containers that hold each element at most once are   *)
(* sets.  The two that do hold duplicates, the neighbour lists and the     *)
(* root node cache, are bags: functions to the number of occurrences.      *)
(* Graph and node containers append at the end and erase every occurrence, *)
(* so the order of a bag is never looked at.  Hyper edges (edges whose     *)
(* destination is an edge) are outside this module.  insertEdge() and      *)
(* createEdge(node, node) differ only in who allocates the edge.           *)
(***************************************************************************)
EXTENDS Naturals, FiniteSets

CONSTANTS
  Node,        \* identities of the nodes a client can create
  Edge,        \* identities of the edges a client can create
  NoNode,      \* an empty weak_ptr to a node
  MaxEntries   \* bound of the model: entries a node may have in the root cache

ASSUME ConstantsAssumption ==
  /\ NoNode \notin Node
  /\ MaxEntries \in Nat

VARIABLES
  nodes,       \* GenGraph::_nodes (and _nodesSearch, always updated together)
  edges,       \* GenGraph::_edges (and _edgesSearch)
  rootNodes,   \* GenGraph::_rootNodes, a bag of nodes
  src,         \* GenEdge::_src
  dst,         \* GenEdge::_dst
  inEdges,     \* GenNode::_inEdges
  outEdges,    \* GenNode::_outEdges
  inNodes,     \* GenNode::_inNodes, a bag of nodes for each node
  outNodes     \* GenNode::_outNodes

topology == <<nodes, edges, rootNodes, src, dst, inEdges, outEdges, inNodes, outNodes>>

EmptyBag == [n \in Node |-> 0]

Init ==
  /\ nodes = {}
  /\ edges = {}
  /\ rootNodes = EmptyBag
  /\ src = [e \in Edge |-> NoNode]
  /\ dst = [e \in Edge |-> NoNode]
  /\ inEdges = [n \in Node |-> {}]
  /\ outEdges = [n \in Node |-> {}]
  /\ inNodes = [n \in Node |-> EmptyBag]
  /\ outNodes = [n \in Node |-> EmptyBag]

(* The parallel edges that lead from s to d, findEdge() and getEdgeCount(). *)
Between(s, d) == {e \in edges : src[e] = s /\ dst[e] = d}

------------------------------------------------------------------------------
(* insertNode(): a node enters the containers and the root node cache. *)
InsertNode(n) ==
  /\ n \notin nodes
  /\ nodes' = nodes \cup {n}
  /\ rootNodes' = [rootNodes EXCEPT ![n] = @ + 1]
  /\ UNCHANGED <<edges, src, dst, inEdges, outEdges, inNodes, outNodes>>

(* insertEdge() and createEdge(node, node), with addOutEdge() on the source *)
(* and addInEdge() on the destination.  A destination other than the source *)
(* leaves the root node cache, every entry of it at once.                   *)
InsertEdge(e, s, d) ==
  /\ e \notin edges
  /\ {s, d} \subseteq nodes
  /\ edges' = edges \cup {e}
  /\ src' = [src EXCEPT ![e] = s]
  /\ dst' = [dst EXCEPT ![e] = d]
  /\ outEdges' = [outEdges EXCEPT ![s] = @ \cup {e}]
  /\ outNodes' = [outNodes EXCEPT ![s][d] = @ + 1]
  /\ inEdges' = [inEdges EXCEPT ![d] = @ \cup {e}]
  /\ inNodes' = [inNodes EXCEPT ![d][s] = @ + 1]
  /\ rootNodes' = IF s = d THEN rootNodes ELSE [rootNodes EXCEPT ![d] = 0]
  /\ UNCHANGED nodes

(* The bound of the model, a guard of every removal: the duplicates of the  *)
(* root node cache would otherwise grow without limit.                      *)
WithinBounds == \A n \in Node : rootNodes'[n] <= MaxEntries

(* Mutants of RootsAfterRemoval: the destination is never installed; a root *)
(* leaves the cache where it should enter it.                               *)
RootsWithoutDestination(s, d, X) ==
  [n \in Node |-> rootNodes[n] + (IF n = s /\ inEdges[s] = {} THEN Cardinality(X) ELSE 0)]

(* The root cache after the edges X, all from s to d, were removed one by   *)
(* one.  removeOutEdge() installs s once per edge when s has no in edge;    *)
(* removeInEdge() installs d when the last of its in edges is gone.  Neither *)
(* looks whether the node is in the cache already.                          *)
RootsAfterRemoval(s, d, X) ==
  [n \in Node |->
     rootNodes[n]
       + (IF n = s /\ inEdges[s] = {} THEN Cardinality(X) ELSE 0)
       + (IF n = d /\ inEdges[d] \subseteq X THEN 1 ELSE 0)]

(* removeEdge() for each edge of X, a non empty set of edges from s to d:   *)
(* removeOutEdge() on s, removeInEdge() on d, then the graph containers.    *)
(* A neighbour is erased from a bag with all its occurrences.               *)
RemoveEdges(s, d, X) ==
  /\ edges' = edges \ X
  /\ src' = [e \in Edge |-> IF e \in X THEN NoNode ELSE src[e]]
  /\ dst' = [e \in Edge |-> IF e \in X THEN NoNode ELSE dst[e]]
  /\ outEdges' = [outEdges EXCEPT ![s] = @ \ X]
  /\ outNodes' = [outNodes EXCEPT ![s][d] = 0]
  /\ inEdges' = [inEdges EXCEPT ![d] = @ \ X]
  /\ inNodes' = [inNodes EXCEPT ![d][s] = 0]
  /\ rootNodes' = RootsAfterRemoval(s, d, X)
  /\ WithinBounds
  /\ UNCHANGED nodes

(* Mutant of RemoveEdge: source and destination are swapped. *)
RemoveEdgeSwapped(e) ==
  /\ e \in edges
  /\ RemoveEdges(dst[e], src[e], {e})

(* removeEdge(edge), and removeEdge(source, destination), which looks for   *)
(* an edge between two nodes and removes that one.                          *)
RemoveEdge(e) ==
  /\ e \in edges
  /\ RemoveEdges(src[e], dst[e], {e})

(* removeAllEdges(source, destination): removeEdge() until none is left. *)
RemoveAllEdges(s, d) ==
  /\ Between(s, d) # {}
  /\ RemoveEdges(s, d, Between(s, d))

(* The root cache after node n was removed.  The in edges go first: each    *)
(* installs its source if that source has no in edge.  The out edges follow *)
(* and install the destinations whose last in edge they were.  The entries  *)
(* of n itself are erased at the end.                                       *)
RootsWithout(n, In, Out) ==
  [m \in Node |->
     IF m = n THEN 0
     ELSE rootNodes[m]
            + (IF inEdges[m] = {} THEN Cardinality({e \in In : src[e] = m}) ELSE 0)
            + (IF inEdges[m] # {} /\ inEdges[m] \subseteq Out THEN 1 ELSE 0)]

(* removeNode(): every in edge, then every remaining out edge, then n. *)
RemoveNode(n) ==
  LET In  == inEdges[n]
      Out == outEdges[n] \ In   \* a self loop is gone with the in edges
  IN
  /\ n \in nodes
  /\ nodes' = nodes \ {n}
  /\ edges' = edges \ (In \cup Out)
  /\ src' = [e \in Edge |-> IF e \in In \cup Out THEN NoNode ELSE src[e]]
  /\ dst' = [e \in Edge |-> IF e \in In \cup Out THEN NoNode ELSE dst[e]]
  /\ outEdges' = [m \in Node |-> IF m = n THEN {}
                                 ELSE outEdges[m] \ {e \in In : src[e] = m}]
  /\ inEdges' = [m \in Node |-> IF m = n THEN {}
                                ELSE inEdges[m] \ {e \in Out : dst[e] = m}]
  /\ outNodes' = [m \in Node |-> IF m = n THEN EmptyBag
                                 ELSE IF \E e \in In : src[e] = m
                                      THEN [outNodes[m] EXCEPT ![n] = 0]
                                      ELSE outNodes[m]]
  /\ inNodes' = [m \in Node |-> IF m = n THEN EmptyBag
                                ELSE IF \E e \in Out : dst[e] = m
                                     THEN [inNodes[m] EXCEPT ![n] = 0]
                                     ELSE inNodes[m]]
  /\ rootNodes' = RootsWithout(n, In, Out)
  /\ WithinBounds

(* Mutant of Clear: the edge lists of the nodes are left as they are. *)
ClearContainersOnly ==
  /\ nodes' = {}
  /\ edges' = {}
  /\ rootNodes' = EmptyBag
  /\ UNCHANGED <<src, dst, inEdges, outEdges, inNodes, outNodes>>

(* clear(): every container is emptied and every primitive destroyed; the   *)
(* topology is not maintained edge by edge.                                 *)
Clear ==
  /\ nodes' = {}
  /\ edges' = {}
  /\ rootNodes' = EmptyBag
  /\ src' = [e \in Edge |-> NoNode]
  /\ dst' = [e \in Edge |-> NoNode]
  /\ inEdges' = [n \in Node |-> {}]
  /\ outEdges' = [n \in Node |-> {}]
  /\ inNodes' = [n \in Node |-> EmptyBag]
  /\ outNodes' = [n \in Node |-> EmptyBag]

Next ==
  \/ \E n \in Node : InsertNode(n)
  \/ \E n \in Node : RemoveNode(n)
  \/ \E e \in Edge, s, d \in Node : InsertEdge(e, s, d)
  \/ \E e \in Edge : RemoveEdge(e)
  \/ \E s, d \in Node : RemoveAllEdges(s, d)
  \/ Clear

Spec == Init /\ [][Next]_topology

------------------------------------------------------------------------------
(* The type of every container, and that the graph is finite. *)
TypeOK ==
  /\ nodes \in SUBSET Node
  /\ edges \in SUBSET Edge
  /\ IsFiniteSet(edges)
  /\ rootNodes \in [Node -> Nat]
  /\ src \in [Edge -> Node \cup {NoNode}]
  /\ dst \in [Edge -> Node \cup {NoNode}]
  /\ inEdges \in [Node -> SUBSET Edge]
  /\ outEdges \in [Node -> SUBSET Edge]
  /\ inNodes \in [Node -> [Node -> Nat]]
  /\ outNodes \in [Node -> [Node -> Nat]]

(* No edge of the graph has lost an end point, and the two views of an edge *)
(* agree: a node lists exactly the edges that name it as their source, and  *)
(* exactly those that name it as their destination.  removeNode() and       *)
(* removeEdge() reach an edge from either side; an edge left in one list    *)
(* only would be a dangling weak pointer later.                             *)
IncidenceCoherent ==
  /\ \A e \in edges : {src[e], dst[e]} \subseteq nodes
  /\ \A n \in Node : outEdges[n] = {e \in edges : src[e] = n}
  /\ \A n \in Node : inEdges[n] = {e \in edges : dst[e] = n}

(* A node without in edges is found in the root node cache, whatever        *)
(* sequence of insertions and removals made it one, so isRootNode() never   *)
(* denies a root and a traversal from getRootNodes() reaches every tree.    *)
RootCacheComplete ==
  \A n \in nodes : inEdges[n] = {} => rootNodes[n] > 0

(* The cache holds no node that was removed from the graph, and none that   *)
(* another node points to: a cached node has at most self loops.            *)
RootCacheSound ==
  \A n \in Node : rootNodes[n] > 0 =>
    /\ n \in nodes
    /\ \A e \in inEdges[n] : src[e] = n

(* The cache of root nodes is right: neither half alone is kept by the      *)
(* operations, which compute it from one end of an edge.                    *)
RootCacheCoherent == RootCacheComplete /\ RootCacheSound

(* The neighbour bags of the two end points mirror each other, and a node   *)
(* is a neighbour at most once for each parallel edge that leads to it: no  *)
(* neighbour outlives its edges.  (The converse is false in the code: one   *)
(* removal erases the neighbour with every entry, gtpoGenNode.hpp:87.)      *)
NeighboursMirrored ==
  \A s, d \in Node :
    /\ outNodes[s][d] = inNodes[d][s]
    /\ outNodes[s][d] <= Cardinality(Between(s, d))

(* The graph as its users walk it: the edges a source lists among its out   *)
(* edges and a destination among its in edges.                              *)
Links == {l \in Node \X Edge \X Node : l[2] \in outEdges[l[1]] \cap inEdges[l[3]]}

D == INSTANCE Digraph WITH links <- Links

(* The adjacency lists implement the multigraph of module Digraph: every    *)
(* operation takes away exactly the links it should, never a parallel or an *)
(* unrelated one, and leaves none behind.                                   *)
ImplementsDigraph == D!Spec
==============================================================================
