SPECIFICATION ProgramsSpec
CONSTANTS
    Nodes = {"A", "B"}
    CourseServer = "S"
    Registrants = {"A"}
    Retries = 1
    ReresolveEvery = 2
    MaxDatagramsLost = 1
    MaxDnsFaults = 1
    Members = {"A", "B"}
    NodeA = "A"
    SearchPolls = 3
    HintPolls = 2
    Requests = 2
    MaxRuns = 2
    ByteBits = 2
    MaxNonce = 2
    Digests <- MCDigests
    ServerDifficulty = 2
    Options <- MCOptions
    NoNonce = NoNonce
INVARIANTS
    ReportIsTrue
    CacheIsLastServer
    FailsOnlyUnhinted
    NobodyRacesUnregistered
    SearchIsExact
    NeverRejected
    VerdictIsServers
PROPERTIES
    NodesMeet
    SetUpEnds
    PowClientEnds
CHECK_DEADLOCK FALSE
