SPECIFICATION MCSpec
CONSTANTS
  Drawings = {"theta", "shapes"}
  Curves <- DrawnCurves
  Sites <- DrawnSites
  Extent <- DrawnCells
  TopoGeoms = {"area", "line", "point"}
  Kind <- GeomKind
  MaxNode = 4
  MaxEdge = 4
  MaxFace = 3
INVARIANTS LinksTurnClockwise DrawingIsPlanar RelationsReferToPrimitives
PROPERTIES EditsImplementLinking TopoGeomsKeepShape
CONSTRAINT WithinBounds
CHECK_DEADLOCK FALSE
