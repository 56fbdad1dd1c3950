SPECIFICATION Spec
CONSTANTS
  None = None
  NoMarker = NoMarker
  MaxVersions = 2
  MaxCrashes = 3
  MaxErrors = 2
CHECK_DEADLOCK FALSE
INVARIANTS  ServesItsFiles
PROPERTY RecoveryEnds
