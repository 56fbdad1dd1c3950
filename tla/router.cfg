SPECIFICATION Spec
CONSTANTS
  Nodes = {"a", "b"}
  Shards = {0, 1}
  Ids = {1, 2, 3}
  Scores = {1, 2}
  Absent = Absent
  None = None
  ShardFor <- MCShardFor
  Point <- MCPoint
  ShardPoint <- MCShardPoint
  Inserts <- MCInserts
  Batches <- MCBatches
  Deletes <- MCDeletes
  Memberships <- MCMemberships
  Holdings <- MCHoldings
  TopKs = {0, 2}
  SearchAttempts = 2
  MaxCalls = 2
  MaxEvents = 2
INVARIANTS NilMeansWritten Merged RetryReachesTheOwner
PROPERTIES CallsReturn
CHECK_DEADLOCK FALSE
