CONSTANTS
    w1 = w1
    w2 = w2
    Writers <- OneWriter
    MaxChunks = 3
    MaxTitles = 1
    MaxLines = 7
    Types <- EveryKind
    Ops <- Sequential
SPECIFICATION Spec
INVARIANTS ReloadMatches
PROPERTY CrashKeepsRest
CHECK_DEADLOCK FALSE
