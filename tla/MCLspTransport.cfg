CONSTANTS
  NWorkers = 1
  Offset = 1
  MaxCalls = 3
  MaxServers = 2
SPECIFICATION Spec
INVARIANTS
  TypeOK
  OwnAnswer
  TableMatchesCalls
PROPERTY OutputIsRead
\* All calls may have been made and answered: nothing is left to do.
CHECK_DEADLOCK FALSE
