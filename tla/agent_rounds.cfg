CONSTANTS
    MaxPrompts = 2
    MaxRounds = 2
    MaxCalls = 1
    Features <- Overlapping
SPECIFICATION FairSpec
INVARIANT CallsClosed
PROPERTY CancelEndsPrompt
CHECK_DEADLOCK FALSE
