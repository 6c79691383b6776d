SPECIFICATION Spec
CONSTANTS
  MaxAgents = 1
  InitialAgents = 0
  Capacity = 3
  WireCapacity = 1
  UplinkCapacity = 1
  MaxScreen = 3
  MaxScroll = 2
  MaxAttach = 1
  MaxOps = 3
  UserOps <- AllUserOps
INVARIANTS
  TypeOK
  MirrorsAFrame
  AcksFollowTheBasis
  ScrollIsAnswered
PROPERTIES
  MirrorSpec
CHECK_DEADLOCK FALSE
