SPECIFICATION FairSpec
CONSTANTS
  Records = {1, 2, 3, 4}
  Track = {2, 3}
  Size <- TrackSizes
  ChunkSize = 2
  MaxBuffer = 2
  MaxRetry = 2
  MaxRuns = 3
INVARIANTS EachRecordOnce RetriesAreBounded
PROPERTY NothingWaitsForever
CHECK_DEADLOCK FALSE
