SPECIFICATION FairSpec
CONSTANTS
  MaxAgent = 2
  NoteCapacity = 1
  MaxReads = 4
INVARIANTS
  TypeOK
  NoOutputIsForgotten
PROPERTIES
  LastScreenIsSent
CHECK_DEADLOCK FALSE
