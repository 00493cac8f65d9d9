CONSTANTS
    Requests = {r1, r2}
    CallCounts = {0, 3}
    Works = {0, 9}
    MaxChainCalls = 2
    MaxWork = 2
    ClientTimeout = 1
    WorkerURLs = {"none", "good", "malformed"}
    MaxTime = 3
SPECIFICATION FairSpec
INVARIANTS
    
    NoGoroutineLeft
    HandlersEndInTime
    MetricsExact
PROPERTIES
    EveryRequestLeaves
CHECK_DEADLOCK FALSE
