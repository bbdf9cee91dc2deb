CONSTANTS
    h1 = h1
    h2 = h2
    Handlers <- OneHandler
    MaxPrompts = 3
    MaxTurns = 3
    Ops <- QueueUse
    AcpMayFail = FALSE
SPECIFICATION FairSpec
PROPERTIES QueueDrains PromptUnderLiveSession
CHECK_DEADLOCK FALSE
