CONSTANTS
  Depth = 3
  MaxRequests = 6

SPECIFICATION FairSpec

INVARIANT BlocksAreRequestedInOrder

CHECK_DEADLOCK FALSE
