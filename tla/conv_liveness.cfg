CONSTANTS
    h1 = h1
    h2 = h2
    Handlers <- TwoHandlers
    MaxPrompts = 2
    MaxTurns = 2
    Ops <- Everything
    AcpMayFail = TRUE
SPECIFICATION FairSpec
INVARIANTS RunningHasOwner CancelHandleLive
PROPERTY RunEnds
CHECK_DEADLOCK FALSE
