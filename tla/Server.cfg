CONSTANTS
    Environments <- Deployments
    MaxAttempts = 2
    MaxRotations = 2
    Mishaps = {"vta", "secretStore", "storage", "bind", "unreachable", "mediator", "panic", "http", "crash"}
    MaxMishaps = 3
SPECIFICATION FairSpec
INVARIANTS TypeOK HealthAgrees AdvertisedIsServed NoOtherIdentity SurvivesVtaOutage
PROPERTIES ReadsSurvive WritesUpOrReported
CHECK_DEADLOCK FALSE
