SPECIFICATION Spec
CONSTANTS
  MaxAgents = 2
  InitialAgents = 2
  Capacity = 2
  WireCapacity = 1
  UplinkCapacity = 1
  MaxScreen = 2
  MaxScroll = 0
  MaxAttach = 1
  MaxOps = 1
  UserOps <- ResizeOnly
INVARIANTS
  StaleIsRepaired
  ResyncIsAnswered
CHECK_DEADLOCK FALSE
