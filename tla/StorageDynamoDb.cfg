SPECIFICATION Spec
CONSTANTS
    Backends = {"dynamodb"}
    Offered = {"create", "update", "delete", "read", "list"}
    Clients = {c1}
    Keys = {k1}
    Values = {v1}
    None = None
PROPERTIES OneTable
