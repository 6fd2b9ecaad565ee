CONSTANTS
  Generations <- MCGenerations
  None = None
  MaxRequests = 4
  MaxCancels = 1
  MaxFaults = 1
SPECIFICATION FairSpec
INVARIANTS
  TypeOK
  EndsAreTrue
PROPERTIES
  IdleMeansIdle
  CallsReturn
