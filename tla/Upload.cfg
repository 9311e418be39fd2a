\* The retrying transport under an upload: a long trace, or two small ones twice;
\* and sessions of up to four calls under twelve settings.
SPECIFICATION MCSpec
CONSTANTS
    k1 = k1  k2 = k2  q = q  e1 = e1  e2 = e2  None = None
    Chunks = {k1, k2}  Checks = {q}  Events = {e1, e2}
    TraceLists <- FullOrSmall
    MaxCalls = 6
    Retries = 1
    MaxRuns = 2
    fact = fact  secret = secret  silent = silent  manual = manual  draft = draft  current = current
    n1 = n1  n2 = n2  n3 = n3  Nothing = Nothing
    Unanswerable = unanswerable  NoFailure = nofailure  Neutral = neutral
    Texts = {fact, secret, silent, manual, draft, current, unanswerable, nofailure, neutral}
    Matched = {secret}
    Abstaining = {silent}
    Names = {n1, n2, n3}
    Unnamed <- MadeUpNames
    Listed <- KeysListed
    Overlap <- OverlapTable
    SettingsGiven <- SomeSettings
    Traces <- SomeTraces
    ChunkLists <- SomeChunks
    NameSets <- SomeNames
    Replies <- SomeReplies
    CitationSets <- SomeCitations
    AgentEvents <- AnEvent
    MaxLogs = 4
INVARIANTS AcknowledgedIsApplied UploadedIsComplete OneFilledCopyPerRun
INVARIANTS TextsAreProtected EdgesStayJoinable CipherIsTransparent GradeIsExplained
PROPERTIES ImplementsDeliveryLog UploadEnds
CHECK_DEADLOCK FALSE
