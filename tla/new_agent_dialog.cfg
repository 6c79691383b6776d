SPECIFICATION Spec
CONSTANTS
  Workspaces = {"r", "p"}
  Repositories = {"r"}
  MaxRequests = 2
  MaxEvents = 2
  None = None
INVARIANT DialogIsSound
PROPERTIES
  OnlyTheLatestWorktree
  WaitsEnd
CHECK_DEADLOCK FALSE
