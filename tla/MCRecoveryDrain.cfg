SPECIFICATION Spec
CONSTANTS
  Requests = {r1, r2}
  NWorkers = 1
  MaxFaults = 1
  NoTask = NoTask
INVARIANT
  DrainedForGood
\* Every call may have returned: nothing is left to do.
CHECK_DEADLOCK FALSE
