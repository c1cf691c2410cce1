CONSTANTS
  Depth = 3
  MaxRequests = 8

SPECIFICATION FairSpec

INVARIANTS
  TypeOK
  ValidMeansDepth
  CountsEveryRequest

PROPERTY TestReturns

\* The test returns once.
CHECK_DEADLOCK FALSE
