CONSTANTS
  Node = {n1, n2, g1}
  Group = {g1}
  Edge = {e1, e2}
  NoNode = NoNode
  MaxRoots = 3
  MaxSize = 3
  MaxGroups = 2
SYMMETRY Symmetry
SPECIFICATION Spec
INVARIANTS
  ObserversFollow
  TestsSound
  TraversalsAgree
  CopiesAreClean
PROPERTY ImplementsDigraph
