CONSTANTS
  FileLen = 5
  ChunkLen = 3
  MaxFrame = 3
  MaxFaults = 0
  Hedge = TRUE
SPECIFICATION StagingSpec
INVARIANT PresentMeansComplete
CHECK_DEADLOCK FALSE
