\* A session that is still open when its trace outlives the retention.
SPECIFICATION Spec
CONSTANTS
    Clients = {p1, p2}
    Traces = {t1}
    Never = Never
    None = None
    ChunkIds = {"c1"}
    Contents = {"good"}
    Claims = {"k"}
    Answers = {"a"}
    Support <- MCSupport
    Batches <- OneChunk
    CitationSets <- OneCitation
    Retention = 1
    Shared = TRUE
    Crashes = FALSE
    MaxClock = 2
    MaxEvents = 1
SYMMETRY ClientSymmetry
PROPERTY CleanupLeavesNoDependents
CHECK_DEADLOCK FALSE
