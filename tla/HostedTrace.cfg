\* Two requests at a time on one trace, five in all.
SPECIFICATION LoadSpec
CONSTANTS
    k1 = k1  x = x  y = y  q = q  other = other  None = None
    w1 = w1  w2 = w2
    Workers = {w1, w2}
    ChunkIds = {k1}
    Contents = {x, y}
    Sources = {k1, other}
    Claims = {q}
    Batches <- OneChunk
    CitationLists <- CitesOne
    MaxRequests = 5
    EvaluationsAtOnce = 2
INVARIANTS VerdictHasReport FailsOnlyWhenRaced EvaluationsAgree
CHECK_DEADLOCK FALSE
SYMMETRY WorkerSymmetry
