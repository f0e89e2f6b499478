SPECIFICATION FairSpec
CONSTANTS
    k1 = k1
    v1 = v1
    root = root
    guest = guest
    mallory = mallory
    i1 = i1
    None = None
    Keys = {k1}
    Values = {v1}
    Clients = {root, guest, mallory}
    Admins = {root, guest}
    Ids = {i1}
    MaxSent = 2
    Seeds <- Filled
    Messages <- Mail
    Copy <- Handlers
    Batch = 1
    Attempts = 2
    Mishaps = {"crash", "undeleted", "ack", "resolver", "storage", "send"}
    MaxMishaps = 1
CHECK_DEADLOCK FALSE
INVARIANTS TypeOK NothingVanishes AcknowledgedWereApplied OnlyAuthorisedEffects AuditedBeforeAnswered
PROPERTIES ImplementsWriteOnce HandledEventually
