---------------------------- MODULE MCWebAccounts ---------------------------
(* The instance of WebAccounts that TLC checks.                            *)
EXTENDS WebAccounts, TLC

\* Once a sign-in has overlapped another flow, the invariants promise nothing any more.
SignInsApart == ~overlap

Symmetry == Permutations(Flows) \cup Permutations(Accounts)
=============================================================================
