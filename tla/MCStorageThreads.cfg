CONSTANTS
  kRandomThreadCount = 3
  MaxBlocks = 2

SPECIFICATION FairSpec

INVARIANTS
  TransferTogether
  ResultIsComplete

PROPERTY TestReturns

\* The test returns once.
CHECK_DEADLOCK FALSE
