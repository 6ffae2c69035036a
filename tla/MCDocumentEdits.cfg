SPECIFICATION FairSpec
CONSTANTS
  First = 1
  LastLine = 2
  MaxSize = 1
  MaxTasks = 2
  Restarts = 1
INVARIANTS
  TypeOK
  ExactWhenAlone
PROPERTIES
  PoisonStopsEdit
  VersionsIncrease
  TasksEnd
\* Every task may have ended: nothing is left to do.
CHECK_DEADLOCK FALSE
