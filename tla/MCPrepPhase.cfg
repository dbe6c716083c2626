SPECIFICATION FairPrepSpec
CONSTANT Setups <- MCSetups
INVARIANTS
    ReachableMeansGreeted
PROPERTIES
    EveryoneLearnsEveryone
    SomeoneFinds
CHECK_DEADLOCK FALSE
