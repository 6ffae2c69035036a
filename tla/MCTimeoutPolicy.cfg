SPECIFICATION Spec
CONSTANTS
  Limit = 2
  MaxCalls = 5
INVARIANTS
  TypeOK
  ReceiptsMatchTranscript
  StopsAtLimit
  NeverOvercounts
PROPERTY
  CountsOncePerCall
\* The sample is over when it is exhausted or has made its calls.
CHECK_DEADLOCK FALSE
