CONSTANTS
  CpuReadings <- Readings
  PolicyReadings <- Directories
  ListReadings <- Lists
  Requests <- Asked
  RankUnit = 4
  ListSpan = 3
  MaxGroups = 2
  MaxThreads = 2
  MaxWorkers = 2

SPECIFICATION TopologySpec

INVARIANTS
  GroupsFollowEvidence
  PreferredIsBest
  SelectionIsBestOrFlagged

\* A selection is the end.
CHECK_DEADLOCK FALSE
