SPECIFICATION Spec
CONSTANTS
  First = 1
  LastLine = 2
  MaxSize = 1
  MaxTasks = 2
  Restarts = 1
INVARIANT PoolAnswersAreExact
\* Every task may have ended: nothing is left to do.
CHECK_DEADLOCK FALSE
