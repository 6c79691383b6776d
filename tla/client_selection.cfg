SPECIFICATION Spec
CONSTANTS
  MaxAgents = 3
  Conversations = {x}
  MaxRequests = 1
  MaxEvents = 2
PROPERTIES
  SelectionSurvivesRemovals
CHECK_DEADLOCK FALSE
