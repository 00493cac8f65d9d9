CONSTANTS
    Requests = {r1, r2}
    Durations = {5, 40}
    ShutdownDelay = 15
    ShutdownTimeout = 25
    Grace = 45
    ProbePeriod = 5
    FailureThreshold = 2
    Propagation = 4
    Slack = 1
    Horizon = 46
SPECIFICATION FairSpec
INVARIANTS
    TrafficStopsFirst
    OrderlyStop
PROPERTIES
    EveryRequestAnswered
CHECK_DEADLOCK FALSE
