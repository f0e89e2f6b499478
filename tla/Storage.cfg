SPECIFICATION Spec
CONSTANTS
    Backends = {"redis", "dynamodb"}
    Offered = {"create", "update", "delete", "read", "list"}
    Clients = {c1, c2}
    Keys = {k1, k2}
    Values = {v1, v2}
    None = None
SYMMETRY Symmetry
PROPERTIES Linearizable EventuallyConsistent
