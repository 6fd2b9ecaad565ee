CONSTANTS
  Worker = {w1, w2}
  Module = {exe, dll}
  MaxRequests = 3
  MaxEpoch = 2
  MaxShared = 1
SPECIFICATION FairSpec
CHECK_DEADLOCK FALSE
INVARIANTS
  TypeOK
  ResultsHonest
  IdleIsHonest
PROPERTY BatchEnds
