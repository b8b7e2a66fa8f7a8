CONSTANTS
  Node = {n1, n2, n3}
  Edge = {e1, e2, e3}
  Group = {k1}
  None = None
SYMMETRY Symmetry
SPECIFICATION Spec
INVARIANTS
  HypergraphCoherent
  BehavioursFollow
PROPERTIES
  CascadeExact
  ThrowsOnlyOnHyperEdges
