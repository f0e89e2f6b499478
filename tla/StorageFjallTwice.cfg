SPECIFICATION Spec
CONSTANTS
    Backends = {"fjall"}
    Offered = {"create", "update", "delete", "read", "list"}
    Clients = {c1, c2}
    Keys = {k1}
    Values = {v1, v2}
    None = None
PROPERTIES CreateFillsVacancy
