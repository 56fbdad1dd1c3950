SPECIFICATION Spec
CONSTANTS
  a = a
  b = b
  c = c
  Members = {a, b, c}
  Hosts = {a, b}
  None = None
  Circle <- MCCircle
  Starts <- MCStarts
  ReplicationFactor = 2
  FailureThreshold = 1
  EvictThreshold = 2
  MaxLag = 1
  MaxEvents = 2
CHECK_DEADLOCK FALSE
CONSTRAINT Unharmed
INVARIANTS KnownNodesVote RingCatchesUp NoOrphans VotersAreKnown
