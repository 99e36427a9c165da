CONSTANTS
  r1 = r1
  r2 = r2
  Reader = {r1, r2}
  NumSlots = 2
  PoolMax = 2
  Threshold = 3
  Leaving = {}
  MaxCalls = 7
  MaxFailed = 0
  MaxDead = 1
SPECIFICATION Spec
INVARIANT HonestExhaustion
CHECK_DEADLOCK FALSE
