SPECIFICATION Spec
CONSTANT Calls = {c1, c2, c3, c4}
CHECK_DEADLOCK FALSE
INVARIANTS OneLeader OneValue
PROPERTY KeepsPromise
