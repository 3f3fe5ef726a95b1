CONSTANTS
    Roles = {r1, r2}
    Users = {}
    MaxDepth = 2
    LegacyChildren = {r1}
    LegacyParents = {r2}
SPECIFICATION Spec
INVARIANTS Acyclic
