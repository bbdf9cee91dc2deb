CONSTANTS
    w1 = w1
    w2 = w2
    Writers <- TwoWriters
    MaxChunks = 2
    MaxTitles = 1
    MaxLines = 4
    Types <- Stream
    Ops <- AppendOnly
SPECIFICATION Spec
INVARIANT WritersInOrder
SYMMETRY WriterSymmetry
CHECK_DEADLOCK FALSE
