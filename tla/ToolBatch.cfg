SPECIFICATION FairSpec
CONSTANTS
    N = 4
    MaxConcurrentTools = 2
INVARIANTS
    TypeOK
    MutatorRunsAlone
    PoolIsBounded
    ReturnedIsComplete
    FailureStopsTheTurn
PROPERTIES
    OrderSpec
    TurnSettles
CHECK_DEADLOCK FALSE
