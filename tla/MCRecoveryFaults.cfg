SPECIFICATION FairSpec
CONSTANTS
  Requests = {r1}
  NWorkers = 1
  MaxFaults = 2
  NoTask = NoTask
INVARIANTS
  ReadyMeansServing
PROPERTIES
  ReplacedWhileClosed
  GateReopens
  CallsEndOrPark
\* Every call may have returned: nothing is left to do.
CHECK_DEADLOCK FALSE
