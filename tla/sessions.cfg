SPECIFICATION FairSpec
CONSTANTS
  s1 = s1
  Session = {s1}
  MaxMessages = 2
  MaxCrashes = 1
  Faults = {"redis", "upload", "pubsub"}
INVARIANT EveryBatchAccounted
PROPERTY SessionsAreCollected
CHECK_DEADLOCK FALSE
