SPECIFICATION Spec
CONSTANTS
  Ids = {a}
  Vectors = {v}
  Metas = {m}
  Absent = Absent
  NoMeta = NoMeta
  Faults = {"kill", "power", "reorder", "entry", "write", "sync", "snap", "dirsync"}
  MaxSeq = 3
  MaxBatch = 2
  MaxSnaps = 1
  MaxEvents = 3
CHECK_DEADLOCK FALSE
INVARIANTS  ServedMatchesLog AckedIsDurable TailServesReplicas IInv
PROPERTY AckedNeverLost
