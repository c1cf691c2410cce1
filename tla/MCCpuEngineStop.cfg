CONSTANTS
  Cpus = {c1, c2}
  MaxRuns = 1

SPECIFICATION FairSpec

PROPERTY StopReachesTerminal

CHECK_DEADLOCK FALSE
