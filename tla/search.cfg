SPECIFICATION Spec
CONSTANTS
  MaxId = 5
  Opened <- MCOpened
  Snapshots <- MCSnapshots
  Commits <- MCCommits
  Number <- MCNumber
  Requests <- MCRequests
  PageSizes <- MCPageSizes
  Query = 0
  MaxTopK = 2
  MaxEf = 2
  MaxPageSize = 3
  DefaultPage = 1
  DefaultEf = 1
  ExactLimit = 2
  Widen = 2
  MaxAttempts = 2
  MaxWrites = 3
INVARIANTS  ClosestFirst AnswersWereStored ListComplete
CHECK_DEADLOCK FALSE
