SPECIFICATION Spec
CONSTANTS
  MaxAgents = 2
  InitialAgents = 1
  Capacity = 4
  WireCapacity = 1
  UplinkCapacity = 1
  MaxScreen = 2
  MaxScroll = 0
  MaxAttach = 1
  MaxOps = 1
  UserOps <- SpawnOnly
INVARIANTS
  StaleIsRepaired
CHECK_DEADLOCK FALSE
