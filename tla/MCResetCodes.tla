---------------------------- MODULE MCResetCodes ----------------------------
EXTENDS ResetCodes, TLC

Symmetry == Permutations(Jobs) \cup Permutations(Resets)
=============================================================================
