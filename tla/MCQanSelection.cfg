CONSTANTS
  Node = {n1, n2}
  Group = {g1, g2}
  NoNode = NoNode
SYMMETRY Symmetry
SPECIFICATION Spec
INVARIANTS
  ListedAreFlagged
  ListedNodesLive
PROPERTIES
  SelectionCleared
CHECK_DEADLOCK FALSE
