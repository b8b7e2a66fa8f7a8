CONSTANTS
  One = 2
  GridScale = 3
  Geometries <- MCGeometries
  Contents <- MCContents
  ZoomMin = 1
  ZoomMax = 4
  Increments = {1}
  Extent = 6
  Points = {0, 3}
  MaxZoom = 4
SPECIFICATION NavigableSpec
INVARIANTS
  GridCovers
PROPERTIES
  ZoomKeepsPoint
  AutoFitCenters
  ContentAnchored
