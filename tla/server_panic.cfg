SPECIFICATION Spec
CONSTANTS
  v1 = v1
  v2 = v2
  Conversation <- OneConversation
  MaxConnection = 2
  MaxSession = 1
  MaxToken = 1
  MaxStart = 1
  InboxCapacity = 2
INVARIANTS
  AttachedSessionExists
CHECK_DEADLOCK FALSE
