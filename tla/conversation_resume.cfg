SPECIFICATION Spec
CONSTANTS
  Agents = {1, 2}
  Reports <- FilesAndHooks
  Conversations = {x, y}
  None = None
  MaxVisits = 2
  MaxAgents = 1
  MaxNames = 1
INVARIANT ResumedKeepsItsConversation
CHECK_DEADLOCK FALSE
