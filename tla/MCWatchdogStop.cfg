CONSTANTS
  WorkerIds = {1}
  Deadline = 1
  Poll = 1
  MemPoll = 2
  MaxServers = 2
  MaxTasks = 0
  MaxFaults = 1
  AllowExit = TRUE
SPECIFICATION Spec
INVARIANT ExitIsFinal
