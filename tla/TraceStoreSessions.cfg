\* Two clients; traces, rows and clocks as each use needs them.
SPECIFICATION UsageSpec
CONSTANTS
    Clients = {p1, p2}
    p1 = p1  t1 = t1  t2 = t2
    Traces = {t1, t2}
    Never = Never
    None = None
    ChunkIds = {"c1", "c2", "c3"}
    Contents = {"good", "bad"}
    Claims = {"k"}
    Answers = {"a"}
    Support <- MCSupport
    Batches <- ManyChunks
    CitationSets <- TwoCitations
    Retention = None
    Shared = FALSE
    Crashes = TRUE
    MaxClock = 0
    MaxEvents = 0
INVARIANTS OneUserMeetsNoRace
PROPERTIES SelectionIsSticky ExpiredIsCleanedUp
CHECK_DEADLOCK FALSE
