SPECIFICATION MCSpec
CONSTANTS
  Drawings = {"hanging"}
  Curves <- DrawnCurves
  Sites <- DrawnSites
  Extent <- DrawnCells
  TopoGeoms = {"line"}
  Kind <- GeomKind
  MaxNode = 4
  MaxEdge = 4
  MaxFace = 2
INVARIANTS NoBadStatement
CONSTRAINT WithinBounds
CHECK_DEADLOCK FALSE
