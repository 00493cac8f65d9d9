CONSTANTS
    Requests = {r1, r2, r3}
    Keys = {k1, k2}
    TTL = 0
    MaxEntries = 2
    MaxTime = 2
    FnMayPanic = TRUE
    NoKey = NoKey
    NoRequest = NoRequest
SPECIFICATION Spec
SYMMETRY Symmetry
INVARIANT OwnFateWhenOff
CHECK_DEADLOCK FALSE
