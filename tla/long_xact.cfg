SPECIFICATION MCSpec
CONSTANTS
  Scenarios = {"contend", "work", "save"}
  Sessions = {s1, s2}
  Rows = {"r1"}
  Tokens = {joey, priscilla}
  Serializable = TRUE
  MaxXid = 3
  MaxClock = 2
SYMMETRY Symmetry
INVARIANTS TypeOK OneHolder HolderReadsStayCurrent
CONSTRAINT WithinBounds
CHECK_DEADLOCK FALSE
