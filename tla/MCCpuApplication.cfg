CONSTANTS
  Cpus = {c1, c2}
  MaxRuns = 2
  MaxBatches = 1
SPECIFICATION FairSpec
INVARIANTS
  WorkersLeaveInOrder
  OutcomeIsHonest
PROPERTIES
  RunEnds
  ImplementsLifecycle
\* A finished engine that nobody calls stands still.
CHECK_DEADLOCK FALSE
