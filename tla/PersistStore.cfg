CONSTANTS
  Listeners = 2
  HookMayFlush = FALSE
  MaxCommits = 4
  MaxFlushId = 6
  MaxDepth = 3
  MaxThrows = 1
  MaxRestarts = 1
SPECIFICATION FairSpec
CHECK_DEADLOCK FALSE
INVARIANTS
  TypeOK
  DiskMatches
  NoLostWakeup
  FlushIsDurable
PROPERTIES
  EventuallySaved
  ImplementsCell
