SPECIFICATION Spec
CONSTANTS
  Ids = {1, 2, 3, 4, 5, 6}
  Vectors <- MCVectors
  Starts <- MCStarts
  Batches <- MCBatches
  Queries = {0, 18}
  M = 2
  EfConstruction = 3
  Levels = {0, 1}
  MinChunk = 2
  NodesPerChunk = 1
  MaxOps = 3
  MaxTall = 2
CHECK_DEADLOCK FALSE
INVARIANTS HoldsWhatWasWritten SearchAnswers LiveIsReachable SnapshotRestores
