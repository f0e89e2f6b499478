SPECIFICATION Spec
CONSTANTS
    Available = {gitTrust}
    Unknown = Unknown
    Configs = {x1}
    BadConfig = BadConfig
    Off = Off
    Admins = {a1}
    Mishaps = {}
    MaxMishaps = 1
    Slug = gitTrust
    Subjects = {m1}
    Details = {none, some}
    NoDetails = none
    NoRecord = NoRecord
    Backends = {"fjall", "dynamodb"}
    Tasks = {t1}
PROPERTIES RevokeOnlyMarks
