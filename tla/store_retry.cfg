SPECIFICATION Spec
CONSTANTS
  MaxSession = 2
INVARIANTS
  SyncIsRestored
CHECK_DEADLOCK FALSE
