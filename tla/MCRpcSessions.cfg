SPECIFICATION FairSpec
CONSTANTS
  NWorkers = 1
  MaxCalls = 2
  MaxLosses = 2
INVARIANTS
  TypeOK
  RetryUsesNewSession
  PendingIsWoken
PROPERTIES
  CallsEnd
  TeardownEnds
\* Every call may have ended: nothing is left to do.
CHECK_DEADLOCK FALSE
