\* The evaluation of an endpoint, with small sets for the rest.
SPECIFICATION EndpointSpec
CONSTANTS
    None = None
    Clients = {c1}
    Levels = 2
    Retries = 2
    Runs = {r1}
    RunsAtOnce = 2
    Adders = {a1}
    Datasets <- MCDatasets
    Answers <- MCAnswers
    RuleSets <- MCRuleSets
    Retentions = {None, 0, 1}
    MaxClock = 2
    u1 = u1
    w1 = w1
    w2 = w2
    Users = {u1}
    Workers = {w1, w2}
    Words = {"apt", "near", "far"}
    Documents <- MCDocuments
    Samples <- MCSamples
    Queries <- MCQueries
    Comparisons <- MCComparisons
    TopKs = {1}
    MaxTokens = 3
    Overlap = 1
    ListLimit = 2
    MaxRequests = 1
INVARIANT FinishedEvalIsListed
CHECK_DEADLOCK FALSE
