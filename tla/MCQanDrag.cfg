CONSTANTS
  Node = {n1, n2}
  Group = {g1}
  None = None
  Span = 1
  Length = 2
  MaxStrayed = 1
SYMMETRY Symmetry
SPECIFICATION Spec
INVARIANTS
  NothingLeftDragged
PROPERTIES
  FormationKept
  PlaceKept
