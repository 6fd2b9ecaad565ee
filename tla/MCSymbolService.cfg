CONSTANTS
  Addr = {"a", "b"}
  Name = {"n"}
  Cost <- MCCost
  Weight <- MCWeight
  MaxPending = 3
  MaxQueuedBytes = 3
  MaxAddressCache = 2
  MaxNameCache = 1
  MaxRetainedBytes = 3
  MaxGeneration = 3
SPECIFICATION Spec
INVARIANTS
  TypeOK
  PendingIsUnderway
PROPERTIES
  SessionsAreSeparate
  EveryCallIsAnswered
