CONSTANTS
    Environments <- Deployments
    MaxAttempts = 2
    MaxRotations = 2
    Mishaps = {"vta", "secretStore", "storage", "bind", "unreachable", "mediator", "panic", "http", "crash"}
    MaxMishaps = 0
SPECIFICATION Spec
INVARIANT ShutdownStopsListener
CHECK_DEADLOCK FALSE
