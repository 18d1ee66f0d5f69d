SPECIFICATION MCSpec
CONSTANTS
  Drawings = {"flip"}
  Curves <- DrawnCurves
  Sites <- DrawnSites
  Extent <- DrawnCells
  TopoGeoms = {}
  Kind <- NoKind
  MaxNode = 4
  MaxEdge = 4
  MaxFace = 3
INVARIANTS FacesTileThePlane
CONSTRAINT WithinBounds
CHECK_DEADLOCK FALSE
