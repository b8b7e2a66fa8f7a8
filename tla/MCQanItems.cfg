SPECIFICATION Spec
CONSTANTS
  n1 = n1
  n2 = n2
  grp = grp
  e = e
  Node = {n1, n2}
  Group = {grp}
  Edge = {e}
  Style = {s}
  None = None
  Targets = {n1}
  Arrows = {0, 1}
  DefaultArrow = 1
  Ends <- MCEnds
  Spots <- MCSpots
  Guests = {n2}
  Shapes <- MCShapes
  Corners <- MCCorners
  Sizes <- MCSizes
  Minimums <- MCMinimums
  Strides <- MCStrides
INVARIANTS VisibleIsFresh
PROPERTIES MinimumKept
