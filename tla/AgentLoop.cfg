SPECIFICATION Spec
CONSTANTS
    MaxIterations = 2
    ContextWindow = 1000
    HasSystemPrompt = TRUE
    EnforceSystemPrompt = TRUE
    Incoming <- MCIncoming
    MaxTurns = 2
    MaxCalls = 2
    ResultSizes = {20, 1200}
    ReplySizes = {20}
INVARIANTS
    TypeOK
    RequestsAreWellPaired
    PromptGoverns
    NewestIsShown
    ModelCallsAreBounded
PROPERTIES
    ConversationSpec
    TurnsEnd
CHECK_DEADLOCK FALSE
