CONSTANTS
  Cpus = {c1, c2}
  MaxRuns = 2

SPECIFICATION FairSpec

INVARIANTS
  TerminalMeansJoined
  CompletedCoversDeadline
  MeasureOnlyWhenAllWarm

PROPERTIES
  ImplementsLifecycle
  RunEndsUnlessStranded

\* The engine may stop for good: it is destroyed, or a run hangs.
CHECK_DEADLOCK FALSE
