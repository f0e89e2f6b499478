SPECIFICATION Spec
CONSTANTS
    Keys = {k1}
    NoKey = NoKey
    Tasks = {t1, t2}
    TTL = 3
    InFlightTTL = 2
    HandlerBound = 1
    RedeliveryWindow = 3
    Mishaps = {"transient"}
    MaxMishaps = 1
INVARIANTS NeverMutatesTwice
