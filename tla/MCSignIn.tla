------------------------------ MODULE MCSignIn ------------------------------
EXTENDS SignIn, TLC

Symmetry == Permutations(Requests)
=============================================================================
