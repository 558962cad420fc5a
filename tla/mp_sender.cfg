SPECIFICATION FairSpec
CONSTANTS
  NumRecords = 4
  Info = {1}
  Track = {}
  Size <- LargeSize
  MaxPersist = 2
  MaxQueueBytes = 2
  MaxCache = 1
  MaxRetry = 1
  MaxStarts = 2
  StorageFails = TRUE
  RequestThrows = TRUE
INVARIANTS SendingIsLock
PROPERTIES Delivers EventuallyDelivered
CHECK_DEADLOCK FALSE
