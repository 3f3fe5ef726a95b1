CONSTANTS
    Accounts = {s, u}
    Superusers = {s}
    Tags = {a, b}
    Ops = {p1, p2}
    MaxRequests = 2
    MaxOps = 5
SPECIFICATION GrantsSpec
SYMMETRY Symmetry

PROPERTIES RenameAtomic
CHECK_DEADLOCK FALSE
