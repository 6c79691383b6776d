SPECIFICATION Spec
CONSTANTS
  v1 = v1
  v2 = v2
  Conversation <- Conversations
  MaxConnection = 2
  MaxSession = 1
  MaxToken = 2
  MaxStart = 2
  InboxCapacity = 2
SYMMETRY Symmetry
INVARIANTS
  TypeOK
  LeaseIsMutual
  ClientsKeepTheirLease
  SavedIsCurrent
PROPERTIES
  OnlyByTakeover
  TokensStaySpent
  ConversationsSurvive
CHECK_DEADLOCK FALSE
