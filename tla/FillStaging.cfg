CONSTANTS
  FileLen = 8
  ChunkLen = 3
  MaxFrame = 3
  MaxFaults = 1
  Hedge = TRUE
SPECIFICATION StagingSpec
INVARIANTS PublishedWhole ReadMeansPublished DeliveredExactly
CHECK_DEADLOCK FALSE
