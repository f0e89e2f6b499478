SPECIFICATION Spec
CONSTANTS
    Keys = {k1, k2}
    NoKey = NoKey
    Tasks = {t1, t2, t3}
    TTL = 3
    InFlightTTL = 2
    HandlerBound = 1
    RedeliveryWindow = 3
    Mishaps = {"panic", "transient", "restart", "storeFault"}
    MaxMishaps = 2
SYMMETRY Symmetry
INVARIANTS TypedInv OneOwner AppliedOncePerMishap
PROPERTIES ImplementsWriteOnce
