CONSTANTS
    h1 = h1
    h2 = h2
    Handlers <- OneHandler
    MaxPrompts = 3
    MaxTurns = 3
    Ops <- PromptAndQueue
    AcpMayFail = TRUE
SPECIFICATION Spec
INVARIANT OneTurnAtATime
CHECK_DEADLOCK FALSE
