SPECIFICATION HistorySpec
CONSTANTS
    MaxLen = 7
    MaxResults = 4
    KeepTokens = {9, 20, 256, 320, 700}
    KeepResults = {1, 3}
INVARIANTS
    SplitsAreWellPaired
    TailIsTight
    EndsSurvive
    MicrocompactIsStable
CHECK_DEADLOCK FALSE
