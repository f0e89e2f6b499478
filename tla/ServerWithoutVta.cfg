CONSTANTS
    Environments <- Deployments
    MaxAttempts = 2
    MaxRotations = 2
    Mishaps = {"vta", "secretStore", "storage", "bind", "unreachable", "mediator", "panic", "http", "crash"}
    MaxMishaps = 2
SPECIFICATION Spec
PROPERTY StartsWithoutItsVta
CHECK_DEADLOCK FALSE
