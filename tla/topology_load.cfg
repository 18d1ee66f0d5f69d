SPECIFICATION MCSpec
CONSTANTS
  Scenarios = {"crossing", "nested", "shaped"}
  Requests <- LoadRequests
  NoGeom = "none"
  Curves = {}
  Sites = {}
  Extent <- LoadCells
  TopoGeoms = {"area", "line", "point"}
  Kind <- LoadKind
  MaxNode = 40
  MaxEdge = 60
  MaxFace = 40
INVARIANTS LoadsSucceed FacesAreRightInLoads LinksTurnClockwise IdsCoverLine
PROPERTIES LoadsKeepShapes LoadsEnd
CHECK_DEADLOCK FALSE
