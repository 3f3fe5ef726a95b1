CONSTANTS
    None = None
    Humans = {h1}
    Services = {s1}
    Devices = {d1, d2}
    Requests = {p1, p2}
    MaxSessions = 1
    MaxTokens = 3
    MaxBans = 1
SPECIFICATION Spec
SYMMETRY Symmetry
INVARIANTS LiveSessionsAreCurrent SessionLimit BearersCovered
PROPERTIES ImplementsLedger RefusedBearersStayRefused
