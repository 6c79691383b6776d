SPECIFICATION Spec
CONSTANTS
  MaxSession = 2
INVARIANTS
  TypeOK
  FilesAreWhole
  OldOrNew
  WrittenIsDurable
  UninterruptedSyncIsRestored
PROPERTIES
  FilesFollowTheIndexes
CHECK_DEADLOCK FALSE
