--------------------------- MODULE MCRoleHierarchy ---------------------------
EXTENDS RoleHierarchy, TLC

\* Roles without a legacy parent or child are alike.
Symmetry == Permutations(Roles \ (LegacyChildren \cup LegacyParents))
=============================================================================
