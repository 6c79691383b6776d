SPECIFICATION FairSpec
CONSTANTS
  MaxAgents = 1
  InitialAgents = 1
  Capacity = 2
  WireCapacity = 1
  UplinkCapacity = 1
  MaxScreen = 2
  MaxScroll = 0
  MaxAttach = 2
  MaxOps = 1
  UserOps <- LifecycleOps
PROPERTIES
  CatchesUp
CHECK_DEADLOCK FALSE
