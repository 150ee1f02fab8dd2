SPECIFICATION Spec
CONSTANTS
    SessionIds = {s1, s2, s3}
    MaxSessions = 2
    Ttl = 1
    Turns = {1, 2, 3, 4}
    MaxClock = 3
INVARIANTS
    TypeOK
    StoreIsOrdered
    SessionsAreIsolated
    AnswersFollowQuestions
PROPERTIES
    HistoryGrowsOrIsForgotten
    EvictionIsExact
SYMMETRY MCSymmetry
CHECK_DEADLOCK FALSE
