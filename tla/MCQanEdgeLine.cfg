SPECIFICATION LineSpec
CONSTANTS
  Faces <- MCFaces
  Afar <- MCAfar
  ArrowSize = 4
INVARIANTS EndsFit LeavesOutside CurveArrives
