SPECIFICATION CapabilitiesSpec
CONSTANTS
    Available = {s1, s2}
    Unknown = Unknown
    Configs = {x1, x2}
    BadConfig = BadConfig
    Off = Off
    Admins = {a1, a2}
    Mishaps = {"crash", "saveFault"}
    MaxMishaps = 2
SYMMETRY Symmetry
INVARIANTS CapabilitiesTypeOK ServedIsPersisted AnswersHold
