\* Two clients logging to one shared session next to cleanups and crashes.
SPECIFICATION Spec
CONSTANTS
    Clients = {p1, p2}
    Traces = {t1}
    Never = Never
    None = None
    ChunkIds = {"c1"}
    Contents = {"good"}
    Claims = {"k"}
    Answers = {"a"}
    Support <- MCSupport
    Batches <- OneChunk
    CitationSets <- OneCitation
    Retention = 1
    Shared = TRUE
    Crashes = TRUE
    MaxClock = 2
    MaxEvents = 1
SYMMETRY ClientSymmetry
INVARIANTS StatusHasWitness VerdictHasReport AcceptedAnswerIsStored
PROPERTY LiveTraceIsKept
CHECK_DEADLOCK FALSE
