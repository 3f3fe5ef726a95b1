---------------------------- MODULE MCRoleGrants ----------------------------
EXTENDS RoleGrants, TLC

Symmetry == Permutations(Ops)
=============================================================================
