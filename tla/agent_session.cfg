CONSTANTS
    MaxPrompts = 2
    MaxRounds = 1
    MaxCalls = 2
    Features <- OneAtATime
SPECIFICATION Spec
INVARIANTS RequestWellFormed CancelReachesPrompt
PROPERTY ChatHistorySpec
CHECK_DEADLOCK FALSE
