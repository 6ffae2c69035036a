SPECIFICATION Spec
CONSTANTS
  Requests = {r1, r2}
  NWorkers = 2
  MaxFaults = 1
  NoTask = NoTask
SYMMETRY RequestSymmetry
INVARIANTS
  TypeOK
  OneCopy
  SnapshotPoisoned
PROPERTIES
  ToxicWasInFlight
  ImplementsResilientSubmission
\* Every call may have returned: nothing is left to do.
CHECK_DEADLOCK FALSE
