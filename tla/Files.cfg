\* The suites of MCSuite with two users; two processes on one cache file, or one of
\* them after another; and one trace that is repaired and may be captured again.
SPECIFICATION MCSpec
CONSTANTS
    None = None
    Similarity <- MCSimilarity
    Users = {u1, u2}
    Worlds <- MCWorlds
    NoFile = NoFile  NotLoaded = NotLoaded
    p1 = p1  p2 = p2
    Processes = {p1, p2}
    Claims = {"x", "y"}
    Models = {"m1", "m2"}
    MaxRequests = 5
    MaxCrashes = 2
  
PROPERTIES SuiteKeepsCases CacheOutlivesProcesses
CHECK_DEADLOCK FALSE
