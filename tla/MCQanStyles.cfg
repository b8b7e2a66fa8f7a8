CONSTANTS
  Node = {n1}
  Port = {p1}
  Edge = {e1}
  Group = {g1}
  NodeDefault = NodeDefault
  EdgeDefault = EdgeDefault
  GroupDefault = GroupDefault
  NodeClassStyle = {}
  EdgeClassStyle = {ec}
  ClientNodeStyle = {ns}
  ClientEdgeStyle = {}
  Kind = {"edge", "port"}
  MaxItems = 2
  ClientComponent = {c1}
  MaxChanges = 2
  None = None
SPECIFICATION Spec
INVARIANTS
  StylesListed
  DelegatesLive
PROPERTIES
  DestructionIsLocal
