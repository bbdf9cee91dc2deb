CONSTANTS
    h1 = h1
    h2 = h2
    Handlers <- OneHandler
    MaxPrompts = 3
    MaxTurns = 3
    Ops <- Everything
    AcpMayFail = TRUE
SPECIFICATION Spec
INVARIANTS TypeOK PromptOnce
PROPERTY PromptDeliverySpec
CHECK_DEADLOCK FALSE
