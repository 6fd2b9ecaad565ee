CONSTANTS
  Owner = {"doc", "mod"}
  Capacity <- MCCapacity
  Limit = 1
  Target = {"view", "image", "dll"}
  OwnerOf <- MCOwnerOf
  Interactive = {"view"}
  Passes <- MCPasses
  Patience <- MCPatience
  MaxOutstanding = 2
  MaxResults = 2
  Document = {"doc"}
  MaxCalls = 3
SPECIFICATION Spec
INVARIANTS TypeOK
 PoolIsSound
PROPERTIES
 ViewIsPatient
 NobodyWaitsForever
CHECK_DEADLOCK FALSE
