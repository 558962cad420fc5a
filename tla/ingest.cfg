SPECIFICATION FairSpec
CONSTANTS
  Item <- Items
  Payload <- Payloads
  Content <- Contents
  Type <- Types
  Uuid <- Uuids
  Session <- Sessions
  NoSession = 0
  UnknownApp = {"nobody"}
  Concurrency = 2
  MaxPosts = 3
  MaxFaults = 1
INVARIANTS SuccessIsStored ErrorsCountOnce
PROPERTY SlotsAreFreed
CHECK_DEADLOCK FALSE
