CONSTANTS
    r1 = r1
    r2 = r2
    med = med
    url = url
    None = None
    Requests = {r1, r2}
    Endpoints = {med, url}
    Setups <- Some
    Mishaps = {"send", "stray", "unreadable", "unpack", "delete", "panic", "cancel"}
    MaxMishaps = 1
SPECIFICATION Spec
INVARIANT NeverDowngrades
CHECK_DEADLOCK FALSE
