SPECIFICATION FairSpec
CONSTANT Setups <- MCFinishes
PROPERTY RaceFinishes
CHECK_DEADLOCK FALSE
