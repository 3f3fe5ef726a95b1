CONSTANTS
    Requests = {p1, p2, p3}
    MaxCodes = 2
    MaxLinks = 1
    MaxFaults = 3
SPECIFICATION Spec
SYMMETRY Symmetry
INVARIANTS OneEffectPerCode RefusedLinksDie
PROPERTIES ResolvedStay
CHECK_DEADLOCK FALSE
