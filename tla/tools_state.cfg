CONSTANTS
    Handlers <- MCHandlers
    ProcessOf <- MCProcessOf
    Statuses = {"created", "completed"}
    MoreLines <- MCMoreLines
    MaxDepth = 2
    MaxChanges = 4
    Facts = {"a", "b", "c"}
    Near <- MCNear
    Alike <- MCAlike
    Extracts = {"e1", "e2"}
    Homes = {"p", "q"}
    HomeOf <- MCHomeOf
    MaxStores = 3
    SedCalls = {"c1", "c2"}
    Sigs = {"s", "t"}
    MaxSeds = 5
    Pages = {"p1", "p2"}
    ChanSize = 2
    RingSize = 2
    Second = 2
    MaxState = 3
    MaxAnswers = 1
    MaxTick = 5
    MaxNotifs = 4
    MaxPiece = 4
    MaxNodes = 2
    MaxLength = 3
    maxChunkSize = 2
    minChunkSize = 1
    linesPerChunk = 2
    MaxDocs = 4
    Scores <- MCScores
    searchCount = 3
    resultCount = 2
SPECIFICATION Spec
INVARIANTS ListWellFormed ChangesKept TwinsOnlyUnchecked LargeOnlyConfirmed ViewIsLatest NotificationsKept DocsTrue BestFirst
PROPERTIES RecallKeepsAge
CHECK_DEADLOCK FALSE
