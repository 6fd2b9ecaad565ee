CONSTANTS
  Thread = {t1, t2}
  Main = t1
  Addr = {1, 2, 3, 4, 5, 6}
  Start <- MCStart
  Kind <- MCKind
  Flow <- MCFlow
  Callee <- MCCallee
  After <- MCAfter
  Bp = {1, 3, 5}
  Targets = {4, 6}
  Depth = 2
  NoAddr = 0
  NoThread = none
SPECIFICATION FairSpec
CHECK_DEADLOCK FALSE
INVARIANTS
  TypeOK
  StepsLeaveNothing
  StopsWhereAsked
PROPERTIES
  StepsEnd
