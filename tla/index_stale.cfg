CONSTANTS
    Files <- OneFile
    MaxEdits = 4
    MaxStarts = 2
    MaxReindex = 1
    Ops <- Anything
SPECIFICATION FairSpec
INVARIANTS StaleOnlyIfMissed SavedManifestTrue IdleIsWhole
PROPERTY CatchesUp
CHECK_DEADLOCK FALSE
