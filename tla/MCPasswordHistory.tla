------------------------- MODULE MCPasswordHistory --------------------------
EXTENDS PasswordHistory, TLC

CONSTANTS pa, pb, pc, pd

\* pc and pd resemble each other.
MCClose == {<<pc, pd>>, <<pd, pc>>}

Symmetry == Permutations(Requests)
=============================================================================
