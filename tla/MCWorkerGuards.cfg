CONSTANTS
  WorkerIds = {1, 2}
  Grace = 1
  MaxProcs = 10
  MaxServers = 2
  MaxFaults = 2
SPECIFICATION Spec
INVARIANTS
  TypeOK
  
  OwnerFollowsMonitor
  
PROPERTIES
  SparesCurrentWorkers
  LostWorkerIsHandled
\* A behaviour ends after exit(), and a rebuild after the last server the bound
\* allows stays where it would connect to the next one.
CHECK_DEADLOCK FALSE
