SPECIFICATION Spec
CONSTANTS
    MaxPieces = 2
    Settings <- MCSettings
    Builtins <- MCBuiltins
    Targets <- MCTargets
    CallsOf <- MCCallsOf
    ContentMatches <- Matcher
    Operators = {"&&", ";", "; "}
    GluedBefore = {";", "; "}
    GluedAfter = {";"}
    Breaks = {"newline"}
    Expanding = {"$x", "$(x)"}
    Substituting = {"$(x)"}
    Starred = {"*", "g*"}
    StarMatches <- MCStarMatches
    Wrappers = {"timeout", "nice"}
    Dashed = {"-rf", "-T"}
    Digits = {"10"}
    Assignments = {"LANG=C", "MODE=x"}
    SafeAssignments = {"LANG=C"}
    DangerousExec = {"curl"}
    Basename <- MCBasename
    Recursive = {"-rf"}
    SensitivePaths = {"/etc"}
    Spelled <- MCSpelled
    Home <- MCHome
    Here <- Box
    Links <- MCLinks
    PathLike = {"box", "inside"}
    PathExpanding = {"$x"}
INVARIANT AllowedIsLiteral
CHECK_DEADLOCK FALSE
