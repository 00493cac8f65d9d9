CONSTANTS
    Requests = {r1, r2, r3}
    Keys = {k1, k2, k3}
    TTL = 2
    MaxEntries = 2
    MaxTime = 3
    FnMayPanic = TRUE
    NoKey = NoKey
    NoRequest = NoRequest
SPECIFICATION Spec
SYMMETRY Symmetry
INVARIANTS
    TypeOK
    SingleFlight
    RegistryExact
    NoPurchaseWhileFresh
    MonotonicReads
    FlightAgreement
    CapHolds
PROPERTIES
    FreshEntriesKept
    ImplementsRegister
CHECK_DEADLOCK FALSE
