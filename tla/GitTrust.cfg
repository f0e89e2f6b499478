SPECIFICATION Spec
CONSTANTS
    Available = {gitTrust}
    Unknown = Unknown
    Configs = {x1}
    BadConfig = BadConfig
    Off = Off
    Admins = {a1}
    Mishaps = {"crash", "saveFault"}
    MaxMishaps = 2
    Slug = gitTrust
    Subjects = {m1}
    Details = {none, some}
    NoDetails = none
    NoRecord = NoRecord
    Backends = {"fjall", "dynamodb"}
    Tasks = {t1, t2}
SYMMETRY Symmetry
INVARIANTS GrantsFollowConfig RevocationHolds
PROPERTIES RevokeOnlyMarksUnlessRaced
