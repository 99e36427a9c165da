CONSTANTS
  r1 = r1
  r2 = r2
  Reader = {r1, r2}
  NumSlots = 2
  PoolMax = 2
  Threshold = 2
  Leaving = {r1}
  MaxCalls = 7
  MaxFailed = 2
  MaxDead = 1
SPECIFICATION FairSpec
INVARIANTS OneCallPerKey WaitersHaveOwner OvershootBounded
PROPERTIES MovesOnForCause AcquiresEnd
CHECK_DEADLOCK FALSE
