SPECIFICATION FairSpec
CONSTANTS
    Clients = {c1}
    Keys = {k1, k2}
    Values = {v1}
    None = None
    Garbled = Garbled
    Offered = {"read"}
    Environment = {"sync", "edit", "crash"}
    CoarseClock = FALSE
    MaxTime = 3
    MaxMishaps = 1
CHECK_DEADLOCK FALSE
PROPERTIES EditsServed
