SPECIFICATION Spec
CONSTANTS
    Clients = {c1}
    Keys = {k1}
    Values = {v1}
    None = None
    Garbled = Garbled
    Offered = {"create"}
    Environment = {"sync"}
    CoarseClock = FALSE
    MaxTime = 4
    MaxMishaps = 0
PROPERTIES OwnWritesNotReloaded
