SPECIFICATION FairSpec
CONSTANTS
  a = a
  b = b
  Page = {a, b}
  NumRecords = 2
  Info = {1}
  Track = {}
  Size <- LargeSize
  MaxPersist = 2
  MaxQueueBytes = 3
  MaxCache = 2
  KeepaliveBudget = 2
  MaxRetry = 1
  MaxOpens = 3
  Lifecycle = FALSE
  WorkerFails = TRUE
  WorkerStarts = TRUE
  StorageFails = TRUE
INVARIANT BuffersAreTimed
PROPERTIES Delivers EventuallyDelivered
CHECK_DEADLOCK FALSE
