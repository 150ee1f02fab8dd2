SPECIFICATION Spec
CONSTANTS
    Runs = {1}
    Ids = {"a"}
    Calls = {c1, c2}
    MaxRounds = 2
INVARIANTS
    TalliesAreDropped
CHECK_DEADLOCK FALSE
