SPECIFICATION MCSpec
CONSTANTS
  Drawings = {"split"}
  Curves <- DrawnCurves
  Sites <- DrawnSites
  Extent <- DrawnCells
  TopoGeoms = {}
  Kind <- NoKind
  MaxNode = 4
  MaxEdge = 4
  MaxFace = 3
INVARIANTS LinksTurnClockwise
CONSTRAINT WithinBounds
CHECK_DEADLOCK FALSE
