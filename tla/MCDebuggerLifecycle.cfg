CONSTANT Bounds <- MCBounds
SPECIFICATION FairSpec
INVARIANTS
  TypeOK
  SessionsDoNotOverlap
  AnswersAreTrue
PROPERTIES
  RestoredInTime
  NamedDetachOnly
  CallsReturn
CHECK_DEADLOCK FALSE
