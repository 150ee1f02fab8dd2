SPECIFICATION Spec
CONSTANTS
    Runs = {r1, r2}
    Ids = {a, b}
    Calls = {c1, c2}
    MaxRounds = 1
SYMMETRY Alike
INVARIANTS
    NothingIsLost
    SpansCloseInOrder
CHECK_DEADLOCK FALSE
