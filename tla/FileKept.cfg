SPECIFICATION Spec
CONSTANTS
    Clients = {c1, c2}
    Keys = {k1, k2}
    Values = {v1}
    None = None
    Garbled = Garbled
    Offered = {"create", "delete"}
    Environment = {"sync", "crash", "failure"}
    CoarseClock = TRUE
    MaxTime = 1
    MaxMishaps = 1
CHECK_DEADLOCK FALSE
SYMMETRY Symmetry
INVARIANTS TypeOK AcknowledgedKept
PROPERTIES CallsAreAtomic
