SPECIFICATION Spec
CONSTANTS
  Nodes = {n1, n2}
  Values = {v, w}
  None = None
  MaxLog = 2
  MaxSnaps = 1
  MaxDrops = 1
  MaxFailovers = 1
CHECK_DEADLOCK FALSE
INVARIANT FollowsLeader
PROPERTY CatchesUp
