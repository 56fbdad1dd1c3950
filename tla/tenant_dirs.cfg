SPECIFICATION Spec
CONSTANTS
  Names = {"default", "a", ".deleted-b", "wal.log"}
  Default = "default"
  Hidden = {".deleted-b"}
  LegacyNames = {"wal.log"}
  Quotas = {"unlimited", "ten"}
  Unlimited = "unlimited"
  Specs = {"store", "own"}
  StoreSpec = "store"
  Roots <- MCRoots
  MaxCalls = 2
  MaxFaults = 2
  MaxCrashes = 2
CHECK_DEADLOCK FALSE
INVARIANTS  DeletedStaysGone ServesWhatIsSaved OwnDataOnly AlwaysReopens
