SPECIFICATION Spec
CONSTANTS
  Threads = {g1, g2, g3}
  Tenants = {def, acme}
  Default = def
  Requests <- SingleTenant
  None = None
CHECK_DEADLOCK FALSE
INVARIANTS EngineOpenWhileUsed GoneForGood
 
