CONSTANTS
  Node = {n1, n2}
  Edge = {e1, e2}
  Port = {p1}
  None = None
SYMMETRY Symmetry
SPECIFICATION ConnectorSpec
INVARIANTS
  BoundIsListed
  TransientStartsAtHost
PROPERTIES
  SingleNotShared
  ReleasedIsBound
