SPECIFICATION Spec
CONSTANTS
  MaxAgents = 2
  Conversations = {x, y}
  MaxRequests = 1
  MaxEvents = 2
SYMMETRY Symmetry
CONSTRAINT LossesOfOneConversation
INVARIANTS
  TypeOK
  ListsFollowTheSession
  ConfirmationsKeepTheirSubject
  ReviewIsShown
CHECK_DEADLOCK FALSE
