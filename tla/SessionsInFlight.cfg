SPECIFICATION Spec
CONSTANTS
    SessionIds = {s1, s2}
    MaxSessions = 2
    Ttl = 1
    Turns = {1, 2}
    MaxClock = 3
INVARIANTS
    OnlyIdleSessionsExpire
CHECK_DEADLOCK FALSE
