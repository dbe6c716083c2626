SPECIFICATION StartupSpec
CONSTANTS
    Nodes = {"A", "B", "C"}
    CourseServer = "S"
    Registrants = {"A"}
    Retries = 0
    ReresolveEvery = 2
    MaxDatagramsLost = 0
    MaxDnsFaults = 0
INVARIANTS
    RegistersWithTeam
CHECK_DEADLOCK FALSE
