CONSTANTS
    Accounts = {s, u}
    Superusers = {s}
    Tags = {a, b}
    Ops = {p1, p2}
    MaxRequests = 2
    MaxOps = 5
SPECIFICATION GrantsSpec
SYMMETRY Symmetry
INVARIANTS GrantsBelongToMembers
PROPERTIES RequestsDecideOnce RenameMigrates
CHECK_DEADLOCK FALSE
