CONSTANTS
  Object = {o1, o2, o3}
  Null = Null
  MaxLength = 4
SYMMETRY Symmetry
SPECIFICATION ContainerSpec
INVARIANTS
  ModelFollows
PROPERTIES
  StaysMirrored
