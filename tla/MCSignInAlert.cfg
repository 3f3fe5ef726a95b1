CONSTANTS
    Requests = {p1, p2}
    LoginFailMax = 4
    NotifyOnFailThreshold = 2
    MaxChallenges = 0
    MaxGuesses = 3
    MaxCodes = 0
    MaxFaults = 0
SPECIFICATION Spec
SYMMETRY Symmetry
INVARIANTS AlertSent
