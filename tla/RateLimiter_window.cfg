CONSTANTS
  Keys = {k1, k2}
  Arrivals = {r1, r2}
  NoKey = NoKey
  Limit = 2
  MaxCount = 4
  MaxFailures = 2
SPECIFICATION FairSpec
PROPERTIES
  RefusalEndsWithoutFailure
  CountersAreWindows
CHECK_DEADLOCK FALSE
