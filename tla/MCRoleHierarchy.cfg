CONSTANTS
    Roles = {r1, r2, r3, r4}
    Users = {u}
    MaxDepth = 2
    LegacyChildren = {}
    LegacyParents = {}
SPECIFICATION Spec
SYMMETRY Symmetry
INVARIANTS AccessViewsAgree
PROPERTIES CyclesHaveACause DeleteKeepsReachability
