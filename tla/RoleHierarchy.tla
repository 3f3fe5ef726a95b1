---------------------------- MODULE RoleHierarchy ----------------------------
(***************************************************************************)
(* The role hierarchy and what memberships give through it:                *)
(* internal/repository/roles.go and the use cases in                       *)
(* internal/service/{operations,rbac}.go that call it.                     *)
(*                                                                         *)
(* Every write of roles or role_mounts is one transaction that starts with *)
(* the advisory lock 'auth-master-role-hierarchy', so each is one action.  *)
(* A superuser may issue every one of them at any time, so the caller's    *)
(* authority restricts no reachable hierarchy and is not a guard here.     *)
(* A request that the code refuses leaves the tables as they are: it is a  *)
(* stuttering step.                                                        *)
(***************************************************************************)
EXTENDS Naturals, FiniteSets

CONSTANTS
    Roles,      \* role identifiers
    Users,      \* users whose memberships matter
    MaxDepth,   \* the bound "depth < 64" of the recursive queries
    LegacyChildren,     \* roles that had a roles.parent_id when the
    LegacyParents       \* hierarchy was moved to role_mounts, and that parent

ASSUME DepthAssumption == MaxDepth \in Nat
ASSUME LegacyAssumption ==
    /\ LegacyChildren \subseteq Roles /\ LegacyParents \subseteq Roles
    /\ LegacyChildren \cap LegacyParents = {}

VARIABLES
    roles,      \* the rows of roles
    legacy,     \* the roles.parent_id that are set, as <<child, parent>>
    mounts,     \* role_mounts, as <<child, parent>>
    level       \* user_roles: the level of an active membership, or "none"

vars == <<roles, legacy, mounts, level>>

Level == {"direct_member", "member", "role_admin"}
Inherits(l) == l \in {"member", "role_admin"}

\* The tables after the first start, which migrated them.
Init ==
    /\ roles = LegacyChildren \cup LegacyParents
    /\ legacy = LegacyChildren \X LegacyParents
    /\ mounts = legacy
    /\ level = [u \in Users |-> [r \in Roles |-> "none"]]

-----------------------------------------------------------------------------
(* The recursive queries.  They extend a path by a mount while its depth is *)
(* below the bound and the role is not on the path yet; the roles that are *)
(* reached that way are the ones within MaxDepth mounts.                   *)

Parents(S) == {p \in Roles : \E c \in S : <<c, p>> \in mounts}
Children(S) == {c \in Roles : \E p \in S : <<c, p>> \in mounts}

\* roleHasAncestorTx and the anc(id, depth, path) of the access queries.
Above(r) ==
    LET Walk[n \in 0..MaxDepth] ==
            IF n = 0 THEN {r}
            ELSE LET reached == Walk[n - 1] IN reached \cup Parents(reached)
    IN  {r} \cup Walk[MaxDepth]

\* access(role_id, ...) of ListEffectiveRoleAccess, from one membership.
Below(r) ==
    LET Walk[n \in 0..MaxDepth] ==
            IF n = 0 THEN {r}
            ELSE LET reached == Walk[n - 1] IN reached \cup Children(reached)
    IN  {r} \cup Walk[MaxDepth]

HasEffectiveRole(u, r) ==
    \E a \in Above(r) :
        level[u][a] # "none" /\ (a = r \/ Inherits(level[u][a]))

IsEffectiveRoleAdmin(u, r) == \E a \in Above(r) : level[u][a] = "role_admin"

InheritedFromAny(u, r) == {m \in Roles : level[u][m] # "none" /\ r \in Below(m)}

\* The memberships of u that list role r.
InheritedFrom(u, r) ==
    {m \in Roles : /\ level[u][m] # "none"
                   /\ r = m \/ (Inherits(level[u][m]) /\ r \in Below(m))}

\* ListEffectiveRoleAccess: the roles listed for u, and those with can_manage.
ListedAccess(u) == {r \in Roles : InheritedFrom(u, r) # {}}
ListedManage(u) ==
    {r \in Roles : \E m \in InheritedFrom(u, r) : level[u][m] = "role_admin"}

-----------------------------------------------------------------------------
(* Writes                                                                  *)

\* A new role has a new identifier, so no row refers to it.
CreateRoleWithParents(r, parents) ==
    /\ r \notin roles
    /\ \A m \in legacy : m[2] # r
    /\ parents \subseteq roles
    /\ roles' = roles \cup {r}
    /\ mounts' = mounts \cup ({r} \X parents)
    /\ UNCHANGED <<legacy, level>>

IsNotAParent(r, parent) == r \notin {parent} \cup Parents({parent})

MakesNoCycle(r, parent) == r \notin Above(parent)

\* "parent would create a cycle" is decided before the old mounts go.
SetRoleParent(r, parent) ==
    /\ r \in roles /\ parent \in roles
    /\ MakesNoCycle(r, parent)
    /\ mounts' = {m \in mounts : m[1] # r} \cup {<<r, parent>>}
    /\ UNCHANGED <<roles, legacy, level>>

ClearRoleParent(r) ==
    /\ r \in roles
    /\ mounts' = {m \in mounts : m[1] # r}
    /\ UNCHANGED <<roles, legacy, level>>

MountRole(r, parent) ==
    /\ r \in roles /\ parent \in roles
    /\ MakesNoCycle(r, parent)
    /\ mounts' = mounts \cup {<<r, parent>>}
    /\ UNCHANGED <<roles, legacy, level>>

UnmountRole(r, parent) ==
    /\ mounts' = mounts \ {<<r, parent>>}
    /\ UNCHANGED <<roles, legacy, level>>

NoBridge(r) == {}

\* Each direct child is mounted under every direct parent of the deleted role.
Bridge(r) == Children({r}) \X Parents({r})

Touches(r, m) == m[1] = r \/ m[2] = r

DeleteRole(r) ==
    /\ r \in roles
    /\ roles' = roles \ {r}
    /\ legacy' = {m \in legacy : m[1] # r}
    /\ mounts' = {m \in mounts \cup Bridge(r) : ~Touches(r, m)}
    /\ level' = [u \in Users |-> [level[u] EXCEPT ![r] = "none"]]

\* The upsert of assignUserRoleTx: a new level replaces the old one.
assignUserRoleTx(u, r, l) ==
    /\ r \in roles
    /\ level' = [level EXCEPT ![u][r] = l]
    /\ UNCHANGED <<roles, legacy, mounts>>

\* RemoveUserRole, or the end of valid_until: the queries see neither.
EndMembership(u, r) ==
    /\ level' = [level EXCEPT ![u][r] = "none"]
    /\ UNCHANGED <<roles, legacy, mounts>>

\* MigrateDB, at every start of authd: the legacy parents are copied again.
\* The foreign key of role_mounts fails the start when one no longer exists.
Migrate ==
    /\ \A m \in legacy : m[2] \in roles
    /\ mounts' = mounts \cup legacy
    /\ UNCHANGED <<roles, legacy, level>>

-----------------------------------------------------------------------------

Next ==
    \/ Migrate
    \/ \E r \in Roles \ roles, ps \in SUBSET roles : CreateRoleWithParents(r, ps)
    \/ \E r \in Roles : ClearRoleParent(r) \/ DeleteRole(r)
    \/ \E r \in Roles, p \in Roles :
           SetRoleParent(r, p) \/ MountRole(r, p) \/ UnmountRole(r, p)
    \/ \E u \in Users, r \in Roles :
           EndMembership(u, r) \/ \E l \in Level : assignUserRoleTx(u, r, l)

Spec == Init /\ [][Next]_vars

-----------------------------------------------------------------------------
(* Properties                                                              *)

\* Mounts join roles that exist and memberships are in roles that exist,
\* whatever is deleted.
TypeOK ==
    /\ roles \subseteq Roles
    /\ mounts \subseteq roles \X roles
    /\ legacy \subseteq roles \X Roles
    /\ level \in [Users -> [Roles -> Level \cup {"none"}]]
    /\ \A u \in Users, r \in Roles : level[u][r] # "none" => r \in roles

\* "Roles form a directed acyclic graph": every non-empty set of roles has a
\* role with no parent in the set.
Acyclic ==
    \A S \in SUBSET Roles :
        S # {} => \E r \in S : \A p \in S : <<r, p>> \notin mounts

\* No chain of mounts is longer than the recursive queries follow.
WalksComplete == \A r \in Roles : Parents(Above(r)) \subseteq Above(r)

\* A cycle has one of two causes.  The walk of the cycle check was cut off,
\* because a chain is longer than the bound; or a start brings back a legacy
\* edge that had been unmounted.  No other order of creations, mounts, moves
\* and deletions closes one.
CyclesHaveACause ==
    [][Acyclic /\ WalksComplete /\ legacy \subseteq mounts => Acyclic']_mounts

\* The list of roles that the SPA shows, computed downwards from the
\* memberships, and the checks that protect the operations, computed upwards
\* from the role, agree on every user and role.
AccessViewsAgree ==
    \A u \in Users :
        /\ ListedAccess(u) = {r \in roles : HasEffectiveRole(u, r)}
        /\ ListedManage(u) = {r \in roles : IsEffectiveRoleAdmin(u, r)}

\* Deleting a role keeps every inheritance between the other roles that the
\* queries see, chains that are cut off included.  It makes no new one either,
\* except that a shorter chain may bring a role within the bound.
DeleteKeepsReachability ==
    [][\A r \in roles \ roles' : \A x \in roles' :
           /\ Above(x) \ {r} \subseteq Above(x)'
           /\ WalksComplete => Above(x)' \subseteq Above(x) \ {r}]_roles
=============================================================================
