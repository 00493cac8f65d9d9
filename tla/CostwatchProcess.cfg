CONSTANTS
    Requests = {r1, r2, r3}
    ShutdownTimeout = 10
    Grace = 30
    Slack = 2
SPECIFICATION Spec
SYMMETRY Symmetry
INVARIANT OrderlyStop
CHECK_DEADLOCK FALSE
