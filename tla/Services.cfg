\* Three clients that call for the first time, two runs of a hosted evaluation set,
\* one evaluation of an endpoint on a local store, and the playground: a worker that
\* uploads for two users beside one that answers a query of the first.
SPECIFICATION MCSpec
CONSTANTS
    None = None
    Clients = {c1, c2, c3}
    Levels = 2
    Retries = 2
    Runs = {r1, r2}
    RunsAtOnce = 2
    Adders = {a1, a2}
    Datasets <- MCDatasets
    Answers <- MCAnswers
    RuleSets <- MCRuleSets
    Retentions = {None, 0, 1}
    MaxClock = 2
    u1 = u1
    w1 = w1
    w2 = w2
    Users = {u1, u2}
    Workers = {w1, w2}
    Words = {"apt", "near", "far"}
    Documents <- MCDocuments
    Samples <- MCSamples
    Queries <- MCQueries
    Comparisons <- MCComparisons
    TopKs = {1}
    MaxTokens = 3
    Overlap = 1
    ListLimit = 2
    MaxRequests = 3
INVARIANTS NoStartIsLost ReturnedRunIsComplete OutcomeIsEarned AnswerRestsOnOwnContext 
PROPERTY FirstCallsComeBack
CHECK_DEADLOCK FALSE
