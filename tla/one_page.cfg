SPECIFICATION Spec
CONSTANTS
  a = a
  b = b
  Page = {a}
  NumRecords = 4
  Info = {1}
  Track = {2}
  Size <- UnitSize
  MaxPersist = 2
  MaxQueueBytes = 9
  MaxCache = 1
  KeepaliveBudget = 2
  MaxRetry = 1
  MaxOpens = 2
  Lifecycle = TRUE
  WorkerFails = FALSE
  WorkerStarts = TRUE
  StorageFails = TRUE
INVARIANTS SendsDoNotOverlap NoCacheLoss
PROPERTIES StoppedIsFinal AckedNotResent
CHECK_DEADLOCK FALSE
