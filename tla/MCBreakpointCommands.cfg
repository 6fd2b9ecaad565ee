CONSTANTS
  Addr = {a}
  Fresh = {c1}
  Update = {c2}
  NoCond = none
  Period = {2}
  NoPeriod = 0
  Caller = {t1}
SPECIFICATION FairSpec
INVARIANTS
  TypeOK
  RowsAgree
PROPERTIES
  FollowsTheCommands
  CommandsAreServed
