SPECIFICATION Spec
CONSTANTS
  None = None
  Nowhere = Nowhere
  Agents = {1, 2}
  Directories = {"r", "w"}
  Launches = {"r"}
  MaxRevision = 1
  Selected = 1
  Background = 2
  Ways <- FilesAndHooks
  Conversations = {"x", "y"}
  MaxAgents = 1
  MaxVisits = 2
  MaxNames = 1
  MaxGeneration = 5
  Harnesses = {"codex", "grok"}
  MaxRelease = 2
  MaxTicks = 2
  Order <- WithUsage
  Installations <- OneOrTwo
  Viewers = {"c"}
  Ttl = 1
  MaxTime = 1
  MaxProbes = 2
  MaxInbox = 1
  Percents = {7}
  Commands = {"a", "b"}
  Purposes <- PairsOfCommands
  Servers = {"s1", "s2", "old"}
  Foreign = {"old"}
  MaxSessions = 2
  MaxKeys = 1
INVARIANTS
  ContextsAreCurrent
  UpdatesAreReal
  UsageIsReal
  OneServerIsFound
PROPERTIES
  ConversationsAreKept
  ActivityIsReal
CHECK_DEADLOCK FALSE
