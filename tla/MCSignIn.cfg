CONSTANTS
    Requests = {p1, p2, p3}
    LoginFailMax = 2
    NotifyOnFailThreshold = 2
    MaxChallenges = 1
    MaxGuesses = 5
    MaxCodes = 5
    MaxFaults = 1
SPECIFICATION Spec
SYMMETRY Symmetry
INVARIANTS GuessesBounded CodesBounded
