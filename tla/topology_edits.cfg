SPECIFICATION MCSpec
CONSTANTS
  Drawings = {"hole", "yard", "plot"}
  Curves <- DrawnCurves
  Sites <- DrawnSites
  Extent <- DrawnCells
  TopoGeoms = {}
  Kind <- NoKind
  MaxNode = 4
  MaxEdge = 4
  MaxFace = 5
INVARIANTS TypeOK RingsBoundOneFace FacesHaveOneShell FacesTileThePlane NeverCorrupted IsolatedNodesKnowTheirFace FaceLookupIsExact LinksTurnClockwise
CONSTRAINT WithinBounds
CHECK_DEADLOCK FALSE
