SPECIFICATION Spec
CONSTANT Setups <- MCRaces
INVARIANTS
    TurnsInOrder
    RecordedMeansSigned
    SuccessIsRecorded
    LastFailureIsReal
PROPERTY RaceIsRelay
CHECK_DEADLOCK FALSE
