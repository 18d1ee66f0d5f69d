SPECIFICATION MCSpec
CONSTANTS
  Scenarios = {"save"}
  Sessions = {s1, s2}
  Rows = {"r1"}
  Tokens = {joey}
  Serializable = TRUE
  MaxXid = 3
  MaxClock = 0
SYMMETRY Symmetry
INVARIANTS AddedTokensAuthorize
CONSTRAINT WithinBounds
CHECK_DEADLOCK FALSE
