CONSTANTS
    None = None
    Humans = {h1}
    Services = {s1}
    Devices = {d1}
    Requests = {p1, p2}
    MaxSessions = 1
    MaxTokens = 2
    MaxBans = 1
SPECIFICATION FairSpec
INVARIANT BearersCovered
PROPERTIES RefusedBearersStayRefused RequestsEnd
