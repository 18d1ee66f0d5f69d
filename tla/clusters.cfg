SPECIFICATION Spec
CONSTANTS
  Inputs <- MCInputs
  Done = Done
INVARIANTS SizesAreOfBlocks ClustersAreDensityConnected IdsNameClusters
PROPERTIES UnionFindImplementsPartition
CHECK_DEADLOCK FALSE
