CONSTANTS
  Node = {n1, n2}
  Edge = {e1, e2}
  Group = {g1, g2}
  NoGroup = NoGroup
  Canvas = Canvas
  Expired = Expired
SYMMETRY Symmetry
SPECIFICATION Spec
INVARIANTS
  MembershipCoherent
  AdjacencyCoherent
  NoItemLost
