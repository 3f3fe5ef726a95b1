---------------------------- MODULE MCEmailCodes ----------------------------
EXTENDS EmailCodes, TLC

Symmetry == Permutations(Requests)
=============================================================================
