CONSTANTS
  AllTests <- TestOrder
  FpTests = {"kFp32"}
  MemoryTest = "kMemoryBandwidth"
  Variants = {0, 1}
  Passes = 2
  MaxRuns = 2
  MaxBatches = 2

SPECIFICATION FairSpec

INVARIANTS
  HostWaitsForDevice
  FaultBlocksReuse
  ValuesAreValidated
  ItemsAgree
  StopIsPrompt

PROPERTIES
  RunEnds
  ImplementsLifecycle

\* An engine that is destroyed, or that nobody calls, stands still.
CHECK_DEADLOCK FALSE
