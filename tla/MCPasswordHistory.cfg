CONSTANTS
    pa = pa
    pb = pb
    pc = pc
    pd = pd
    Requests = {p1, p2}
    Passwords = {pa, pb, pc, pd}
    Close <- MCClose
    Registered = pa
    PasswordHistoryN = 2
    MaxCodes = 2
    MaxSets = 3
    MaxClock = 3
    MaxFaults = 1
SPECIFICATION Spec
SYMMETRY Symmetry
INVARIANTS SerialNoReuse OneChangePerCode HistoryBounded
