CONSTANTS
    Calls = {c1, c2}
    None = None
    Ttl = 4
    Skew = 1
    Timeout = 2
    MaxTime = 6
    MaxBans = 1
    MaxRotations = 1
SPECIFICATION Spec
SYMMETRY Symmetry
INVARIANTS TransportsAgree RestFollowsContract TokensOutliveCalls
