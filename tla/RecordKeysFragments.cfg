CONSTANTS
    Keys <- FragmentKeys
    Values = {v1, v2}
    None = None
    Clients = {c1}
    Characters <- Letters
SPECIFICATION NamedSpec
INVARIANT BackendsAgree
