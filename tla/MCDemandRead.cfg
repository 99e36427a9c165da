CONSTANTS
  NumChunks = 2
  d1 = d1
  d2 = d2
  Demand = {d1, d2}
  Fill <- MCFill
  Leaving = {d1}
  Windows <- MCWindows
  NoFill = NoFill
  MaxChunks = 2
  MaxRestarts = 0
SPECIFICATION DemandFairSpec
INVARIANT CleanFailures
CHECK_DEADLOCK FALSE
PROPERTY DemandsEnd
