CONSTANTS
  c1 = c1
  c2 = c2
  Caller = {c1, c2}
  Addr = {"x", "d"}
  Byte = {0, 1, 3}
  Int3 = 3
  Code = {"x"}
  Calls <- MCCalls
  MaxPending = 2
  MaxPendingBytes = 3
SPECIFICATION Spec
CONSTRAINT Undamaged
CHECK_DEADLOCK FALSE
INVARIANTS
  TypeOK
  TargetIsWhole
  QueueIsServed
PROPERTIES
  WritesAreKept
