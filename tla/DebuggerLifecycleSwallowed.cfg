CONSTANT Bounds <- OnePress
SPECIFICATION FairSpec
PROPERTY RequestCompletes
CHECK_DEADLOCK FALSE
