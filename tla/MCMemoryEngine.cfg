CONSTANTS
  Cpus = {c1, c2}
  MaxRuns = 2
  MaxPasses = 1

SPECIFICATION FairSpec

INVARIANTS
  BufferOutlivesWorkers
  MembershipIsCurrent
  CompletedCoversDeadline

PROPERTIES
  BytesNeverDrop
  RunEnds
  ImplementsLifecycle

\* The engine may stop for good: it is destroyed.
CHECK_DEADLOCK FALSE
