CONSTANTS
  Node = {n1, n2, n3}
  Edge = {e1, e2, e3}
  NoNode = NoNode
  MaxEntries = 4
SYMMETRY Symmetry
SPECIFICATION Spec
INVARIANTS
  IncidenceCoherent
  RootCacheCoherent
  NeighboursMirrored
PROPERTY ImplementsDigraph
