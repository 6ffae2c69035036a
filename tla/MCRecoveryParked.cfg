SPECIFICATION FairSpec
CONSTANTS
  Requests = {r1}
  NWorkers = 1
  MaxFaults = 1
  NoTask = NoTask
PROPERTY
  DeadServerRetries
\* Every call may have returned: nothing is left to do.
CHECK_DEADLOCK FALSE
