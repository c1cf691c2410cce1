CONSTANTS
  cpu = cpu
  app = app
  Controllers = {cpu, app}
  Items <- ItemsOf
  StrictStop = {app}
  MaxLeases = 4

SPECIFICATION FairSpec

INVARIANTS
  OnlyOwnerRuns
  LeaseHasHolder

PROPERTIES
  NothingStartsInBackground
  LeaseIsReleasedUnlessRunHangs
