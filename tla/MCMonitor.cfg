CONSTANTS
  WorkerIds = {1}
  Deadline = 1
  Poll = 1
  MemPoll = 2
  MaxServers = 3
  MaxTasks = 1
  MaxFaults = 1
  AllowExit = TRUE
SPECIFICATION Spec
INVARIANTS
  TypeOK
  
  
  OneTriggerPerServer
PROPERTIES
  JustifiedRebuild
  WatchedAgain
