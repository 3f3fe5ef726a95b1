CONSTANTS
    pa = pa
    pb = pb
    pc = pc
    pd = pd
    Requests = {p1, p2}
    Passwords = {pa, pb, pc, pd}
    Close <- MCClose
    Registered = pa
    PasswordHistoryN = 2
    MaxCodes = 2
    MaxSets = 2
    MaxClock = 3
    MaxFaults = 0
SPECIFICATION Spec
SYMMETRY Symmetry
INVARIANTS NoReuse
