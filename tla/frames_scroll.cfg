SPECIFICATION Spec
CONSTANTS
  MaxAgents = 1
  InitialAgents = 1
  Capacity = 3
  WireCapacity = 1
  UplinkCapacity = 1
  MaxScreen = 4
  MaxScroll = 1
  MaxAttach = 1
  MaxOps = 2
  UserOps <- ScrollOnly
INVARIANTS
  ResyncIsAnswered
CHECK_DEADLOCK FALSE
