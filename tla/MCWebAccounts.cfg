\* Two accounts and two overlapping flows; a sign-in and a rotation for each account.
CONSTANTS
    NoAccount = NoAccount
    Accounts = {a, b}
    Flows = {f1, f2}
    MaxGen = 2
SPECIFICATION Spec
SYMMETRY Symmetry
CONSTRAINT SignInsApart
INVARIANTS
    SessionFollowsActive
    SavedTokensAreCurrent
CHECK_DEADLOCK FALSE
