SPECIFICATION Spec
CONSTANTS
  Edges = {1, 2, 3}
  Nodes = {1, 2, 3}
INVARIANTS TypeOK LinksFollowNodes LinksArePermutation
CHECK_DEADLOCK FALSE
