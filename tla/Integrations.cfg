\* Three requests, a queue of two, two calls of drain, every write coming back in
\* the end; and every callback handler with two or three runs.
SPECIFICATION IntegrationsSpec
CONSTANTS
    Requests = {r1, r2, r3}
    Drains = {d1, d2}
    MaxPendingLogs = 2
    BackgroundLogging = TRUE
    EagerGather = TRUE
    a = a  a1 = a1  a2 = a2  b = b  b1 = b1  c = c  m = m
    here = here  there = there  byHand = byHand  Base = Base  NoRun = NoRun  NoState = NoState
    Contexts = {here, there}
    ChainRuns <- MCChainRuns  ChainParent <- MCChainParent  ChainKind <- MCChainKind
    PlainRuns <- MCPlainRuns  PlainParent <- MCPlainParent
    PlainKind <- MCPlainKind  PlainWhere <- MCPlainWhere
    Events <- MCEvents  EventParent <- MCEventParent  EventKind <- MCEventKind
    EventContexts = {here, there, byHand}  EventWhere <- MCEventWhere
    GraphRunIds = {a, b, c}  PlainGraphRuns = {a, b, c}  Implicit = {c}
    MaxEvents = 1
INVARIANTS QueueHoldsUnsettled EveryFailureCountedOnce DrainWaits RunsKeepApart 
PROPERTY WritesAndDrainsEnd
CHECK_DEADLOCK FALSE
