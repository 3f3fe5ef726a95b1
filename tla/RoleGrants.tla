----------------------------- MODULE RoleGrants -----------------------------
(***************************************************************************)
(* Memberships, tag definitions, tag grants and membership requests of one *)
(* role: ChangeRoleTag, RenameRoleTag, AssignRole, ChangeMembershipTag,    *)
(* RemoveRole, RequestRole and DecideRoleRequest of                        *)
(* internal/service/operations.go, over internal/repository/roles.go and   *)
(* role_requests.go.                                                       *)
(*                                                                         *)
(* An operation checks the authority of its actor in one statement and     *)
(* writes in a later transaction.  The transactions run at READ COMMITTED: *)
(* a statement sees what was committed when it started, and a row written  *)
(* by another transaction is waited for.  RenameRoleTag is the only one    *)
(* whose statements can be told apart from outside, so it takes three      *)
(* steps; its writes become visible with the last one.                     *)
(***************************************************************************)
EXTENDS Naturals, FiniteSets

CONSTANTS
    Accounts,       \* the accounts
    Superusers,     \* those with users.superuser
    Tags,           \* tag names, already normalised
    Ops,            \* operations in flight
    MaxRequests,    \* bound: rows of role_requests
    MaxOps          \* bound: operations started in a behaviour

ASSUME AccountsAssumption == Superusers \subseteq Accounts /\ Accounts # {} /\ Tags # {}
ASSUME GrantsBoundsAssumption == MaxRequests \in Nat /\ MaxOps \in Nat

VARIABLES
    members,    \* user_roles: level and validity, or NoMember
    defs,       \* role_tags
    grants,     \* user_role_tags, as pairs of a member and a tag
    request,    \* role_requests
    banned,     \* users.banned_at is set
    op,         \* the operations and their local variables
    started,    \* operations started
    seen        \* history: per rename, the holders its copy found and that
                \* have not lost the new name since

grantsVars == <<members, defs, grants, request, banned, op, started, seen>>

Requests == 1..MaxRequests
RoleLevels == {"member", "role_admin"}
Membership == [level : RoleLevels, until : {"never", "later", "past"}]
NoMember == [level |-> "none", until |-> "past"]
RoleRequest == [status : {"none", "pending", "approved", "rejected"}, target : Accounts]

Op == [pc : {"idle", "addTag", "deleteTag", "count", "copy", "drop", "assign",
             "load", "grant", "revoke", "remove", "member", "create", "decide"},
       user : Accounts, tag : Tags, new : Tags, tags : SUBSET Tags,
       as : Membership, req : 0..MaxRequests, approve : BOOLEAN,
       inserts : BOOLEAN, copied : SUBSET Accounts]

Idle == [pc |-> "idle", user |-> CHOOSE u \in Accounts : TRUE,
         tag |-> CHOOSE t \in Tags : TRUE, new |-> CHOOSE t \in Tags : TRUE,
         tags |-> {}, as |-> [level |-> "member", until |-> "never"],
         req |-> 0, approve |-> FALSE, inserts |-> FALSE, copied |-> {}]

GrantsInit ==
    /\ members = [u \in Accounts |-> NoMember]
    /\ defs = {} /\ grants = {} /\ banned = {}
    /\ request = [r \in Requests |-> [status |-> "none", target |-> CHOOSE u \in Accounts : TRUE]]
    /\ op = [p \in Ops |-> Idle]
    /\ started = 0
    /\ seen = [p \in Ops |-> {}]

IsMember(u) == members[u] # NoMember

\* UserIsEffectiveRoleAdmin on the role itself: the membership is valid now.
IsRoleAdmin(u) == members[u].level = "role_admin" /\ members[u].until # "past"

\* CanAssignRole; a banned actor is refused before either test.
CanAssignRole(u) == u \notin banned /\ (u \in Superusers \/ IsRoleAdmin(u))

Done(p) == op' = [op EXCEPT ![p] = Idle]

\* Grants W are withdrawn: a rename that counted on one of them as already
\* present no longer owes it.
Withdraw(W) == [q \in Ops |-> seen[q] \ {u \in Accounts : <<u, op[q].new>> \in W}]

-----------------------------------------------------------------------------
(* What a transaction in flight holds                                      *)

\* A rename has inserted the definition t and not committed it.
HoldsDef(q, t) == op[q].pc \in {"copy", "drop"} /\ op[q].inserts /\ op[q].new = t

\* A rename has inserted the grant of t to u and not committed it.
HoldsGrant(q, u, t) == op[q].pc = "drop" /\ u \in op[q].copied /\ op[q].new = t

\* No transaction in flight has inserted a row that refers to the membership:
\* the foreign key user_role_tags -> user_roles makes a delete wait for it.
MembershipFree(u) == \A q \in Ops : \A t \in Tags : ~HoldsGrant(q, u, t)

-----------------------------------------------------------------------------
(* Operations on tag definitions                                           *)

\* The first statements of every operation: the actor may assign the role.
Start(p, actor, next) ==
    /\ op[p].pc = "idle"
    /\ started < MaxOps /\ started' = started + 1
    /\ CanAssignRole(actor)
    /\ op' = [op EXCEPT ![p] = next]
    /\ UNCHANGED <<members, defs, grants, request, banned, seen>>

ChangeRoleTag(p, actor, t, add) ==
    Start(p, actor, [Idle EXCEPT !.pc = IF add THEN "addTag" ELSE "deleteTag", !.tag = t])

AddRoleTag(p) ==
    /\ op[p].pc = "addTag"
    /\ \A q \in Ops : ~HoldsDef(q, op[p].tag)
    /\ defs' = defs \cup {op[p].tag}
    /\ Done(p)
    /\ UNCHANGED <<members, grants, request, banned, started, seen>>

\* The grants of the tag stay behind.
DeleteRoleTag(p) ==
    /\ op[p].pc = "deleteTag"
    /\ defs' = defs \ {op[p].tag}
    /\ Done(p)
    /\ UNCHANGED <<members, grants, request, banned, started, seen>>

RenameRoleTag(p, actor, old, new) ==
    /\ old # new
    /\ Start(p, actor, [Idle EXCEPT !.pc = "count", !.tag = old, !.new = new])

\* The old definition is counted and the new one inserted.
RenameCount(p) ==
    /\ op[p].pc = "count"
    /\ op[p].tag \in defs
    /\ \A q \in Ops : ~HoldsDef(q, op[p].new)
    /\ op' = [op EXCEPT ![p].pc = "copy", ![p].inserts = op[p].new \notin defs]
    /\ UNCHANGED <<members, defs, grants, request, banned, started, seen>>

Holders(t) == {u \in Accounts : <<u, t>> \in grants}

CopyNothing(p) ==
    /\ op[p].pc = "copy"
    /\ op' = [op EXCEPT ![p].pc = "drop"]
    /\ seen' = [seen EXCEPT ![p] = Holders(op[p].tag)]
    /\ UNCHANGED <<members, defs, grants, request, banned, started>>

\* INSERT ... SELECT of the grants of the old name, ON CONFLICT DO NOTHING.
RenameCopy(p) ==
    /\ op[p].pc = "copy"
    /\ \A q \in Ops, u \in Holders(op[p].tag) : ~HoldsGrant(q, u, op[p].new)
    /\ op' = [op EXCEPT ![p].pc = "drop",
                        ![p].copied = Holders(op[p].tag) \ Holders(op[p].new)]
    /\ seen' = [seen EXCEPT ![p] = Holders(op[p].tag)]
    /\ UNCHANGED <<members, defs, grants, request, banned, started>>

Dropped(p) == {g \in grants : g[2] = op[p].tag}

\* The grants of the old name and its definition are deleted, as these
\* statements find them, and everything is committed.
RenameDrop(p) ==
    /\ op[p].pc = "drop"
    /\ grants' = (grants \ Dropped(p)) \cup (op[p].copied \X {op[p].new})
    /\ defs' = (defs \ {op[p].tag}) \cup (IF op[p].inserts THEN {op[p].new} ELSE {})
    /\ seen' = [Withdraw(Dropped(p)) EXCEPT ![p] = {}]
    /\ Done(p)
    /\ UNCHANGED <<members, request, banned, started>>

-----------------------------------------------------------------------------
(* Operations on memberships                                               *)

\* A new membership never starts in the past: validUntil must be later than now.
AssignRole(p, actor, u, m, T) ==
    /\ m.until # "past"
    /\ Start(p, actor, [Idle EXCEPT !.pc = "assign", !.user = u, !.as = m, !.tags = T])

\* assignUserRoleTx: the membership is inserted, or its level and validity
\* overwritten, and the tags, all of them configured, are added.
Assign(u, m, T) ==
    /\ \A q \in Ops, t \in T : ~HoldsGrant(q, u, t)
    /\ members' = [members EXCEPT ![u] = m]
    /\ grants' = grants \cup ({u} \X T)

AssignUserRole(p) ==
    /\ op[p].pc = "assign"
    /\ op[p].tags \subseteq defs
    /\ Assign(op[p].user, op[p].as, op[p].tags)
    /\ Done(p)
    /\ UNCHANGED <<defs, request, banned, started, seen>>

ChangeMembershipTag(p, actor, u, t, add) ==
    Start(p, actor, [Idle EXCEPT !.pc = IF add THEN "load" ELSE "revoke", !.user = u, !.tag = t])

\* GetRoleByID finds the tag configured.
LoadRole(p) ==
    /\ op[p].pc = "load"
    /\ op[p].tag \in defs
    /\ op' = [op EXCEPT ![p].pc = "grant"]
    /\ UNCHANGED <<members, defs, grants, request, banned, started, seen>>

AddWithoutMembership(p) ==
    /\ op[p].pc = "grant"
    /\ \A q \in Ops : ~HoldsGrant(q, op[p].user, op[p].tag)
    /\ grants' = grants \cup {<<op[p].user, op[p].tag>>}
    /\ Done(p)
    /\ UNCHANGED <<members, defs, request, banned, started, seen>>

AddUserRoleTag(p) ==
    /\ op[p].pc = "grant"
    /\ IsMember(op[p].user)
    /\ \A q \in Ops : ~HoldsGrant(q, op[p].user, op[p].tag)
    /\ grants' = grants \cup {<<op[p].user, op[p].tag>>}
    /\ Done(p)
    /\ UNCHANGED <<members, defs, request, banned, started, seen>>

DeleteUserRoleTag(p) ==
    /\ op[p].pc = "revoke"
    /\ grants' = grants \ {<<op[p].user, op[p].tag>>}
    /\ seen' = Withdraw({<<op[p].user, op[p].tag>>})
    /\ Done(p)
    /\ UNCHANGED <<members, defs, request, banned, started>>

RemoveRole(p, actor, u) ==
    Start(p, actor, [Idle EXCEPT !.pc = "remove", !.user = u])

\* The grants of the membership and then the membership are deleted.
RemoveUserRole(p) ==
    LET u == op[p].user
    IN  /\ op[p].pc = "remove"
        /\ MembershipFree(u)
        /\ members' = [members EXCEPT ![u] = NoMember]
        /\ grants' = grants \ ({u} \X Tags)
        /\ seen' = Withdraw({u} \X Tags)
        /\ Done(p)
        /\ UNCHANGED <<defs, request, banned, started>>

\* A membership with an end reaches it.
Lapse(u) ==
    /\ members[u].until = "later"
    /\ members' = [members EXCEPT ![u].until = "past"]
    /\ UNCHANGED <<defs, grants, request, banned, op, started, seen>>

-----------------------------------------------------------------------------
(* Membership requests                                                     *)

\* RequestRole and RequestRoleMembership: a manager grants at once, anyone
\* else asks for themselves.
RequestRole(p, actor, u) ==
    /\ op[p].pc = "idle"
    /\ started < MaxOps /\ started' = started + 1
    /\ actor \notin banned
    /\ CanAssignRole(actor) \/ actor = u
    /\ op' = [op EXCEPT ![p] = [Idle EXCEPT !.pc = IF CanAssignRole(actor) THEN "member" ELSE "create",
                                            !.user = u]]
    /\ UNCHANGED <<members, defs, grants, request, banned, seen>>

GrantMembership(p) ==
    /\ op[p].pc = "member"
    /\ Assign(op[p].user, [level |-> "member", until |-> "never"], {})
    /\ Done(p)
    /\ UNCHANGED <<defs, request, banned, started, seen>>

\* The partial unique index role_requests_one_pending refuses a second
\* pending request for the same user.
CreateRoleRequest(p) ==
    /\ op[p].pc = "create"
    /\ \A r \in Requests : request[r].status = "pending" => request[r].target # op[p].user
    /\ \E r \in Requests :
        /\ request[r].status = "none"
        /\ \A s \in Requests : s < r => request[s].status # "none"
        /\ request' = [request EXCEPT ![r] = [status |-> "pending", target |-> op[p].user]]
    /\ Done(p)
    /\ UNCHANGED <<members, defs, grants, banned, started, seen>>

\* DecideRoleRequest: the request is pending and its role may be assigned.
DecideRoleRequest(p, actor, r, approve) ==
    /\ request[r].status = "pending"
    /\ Start(p, actor, [Idle EXCEPT !.pc = "decide", !.req = r, !.approve = approve])

DecideUnlocked(p) ==
    LET r == op[p].req
        verdict == IF op[p].approve THEN "approved" ELSE "rejected"
    IN  /\ op[p].pc = "decide"
        /\ request' = [request EXCEPT ![r].status = verdict]
        /\ \/ op[p].approve /\ Assign(request[r].target, [level |-> "member", until |-> "never"], {})
           \/ ~op[p].approve /\ UNCHANGED <<members, grants>>
        /\ Done(p)
        /\ UNCHANGED <<defs, banned, started, seen>>

\* DecideRoleRequestWithMembership: under the lock of the request, which is
\* still pending, the membership is granted and the verdict recorded.
Decide(p) ==
    LET r == op[p].req
        verdict == IF op[p].approve THEN "approved" ELSE "rejected"
    IN  /\ op[p].pc = "decide"
        /\ request[r].status = "pending"
        /\ request' = [request EXCEPT ![r].status = verdict]
        /\ \/ op[p].approve /\ Assign(request[r].target, [level |-> "member", until |-> "never"], {})
           \/ ~op[p].approve /\ UNCHANGED <<members, grants>>
        /\ Done(p)
        /\ UNCHANGED <<defs, banned, started, seen>>

-----------------------------------------------------------------------------
(* Everything else                                                         *)

\* A statement fails, or a guard of the operation does: the transaction is
\* rolled back and the caller told.
Fail(p) ==
    /\ op[p].pc # "idle"
    /\ Done(p)
    /\ seen' = [seen EXCEPT ![p] = {}]
    /\ UNCHANGED <<members, defs, grants, request, banned, started>>

\* BanUser and UnbanUser, as far as this role is concerned.
SetUserBan(u) ==
    /\ u \notin Superusers
    /\ started < MaxOps /\ started' = started + 1
    /\ banned' = IF u \in banned THEN banned \ {u} ELSE banned \cup {u}
    /\ UNCHANGED <<members, defs, grants, request, op, seen>>

TagOperation(p, actor) ==
    \/ \E t \in Tags, add \in BOOLEAN : ChangeRoleTag(p, actor, t, add)
    \/ \E old, new \in Tags : RenameRoleTag(p, actor, old, new)

MemberOperation(p, actor) ==
    \E u \in Accounts :
        \/ \E m \in Membership, T \in SUBSET Tags : AssignRole(p, actor, u, m, T)
        \/ \E t \in Tags, add \in BOOLEAN : ChangeMembershipTag(p, actor, u, t, add)
        \/ RemoveRole(p, actor, u)
        \/ RequestRole(p, actor, u)

Statement(p) ==
    \/ AddRoleTag(p) \/ DeleteRoleTag(p)
    \/ RenameCount(p) \/ RenameCopy(p) \/ RenameDrop(p)
    \/ AssignUserRole(p) \/ LoadRole(p) \/ AddUserRoleTag(p) \/ DeleteUserRoleTag(p)
    \/ RemoveUserRole(p) \/ GrantMembership(p) \/ CreateRoleRequest(p) \/ Decide(p)
    \/ Fail(p)

GrantsNext ==
    \/ \E p \in Ops, actor \in Accounts :
        \/ TagOperation(p, actor) \/ MemberOperation(p, actor)
        \/ \E r \in Requests, approve \in BOOLEAN : DecideRoleRequest(p, actor, r, approve)
    \/ \E p \in Ops : Statement(p)
    \/ \E u \in Accounts : Lapse(u) \/ SetUserBan(u)

GrantsSpec == GrantsInit /\ [][GrantsNext]_grantsVars

-----------------------------------------------------------------------------
(* Properties                                                              *)

GrantsTypeOK ==
    /\ members \in [Accounts -> Membership \cup {NoMember}]
    /\ defs \subseteq Tags
    /\ grants \subseteq Accounts \X Tags
    /\ request \in [Requests -> RoleRequest]
    /\ banned \subseteq Accounts
    /\ op \in [Ops -> Op]
    /\ started \in 0..MaxOps
    /\ seen \in [Ops -> SUBSET Accounts]

\* Every tag grant belongs to a membership, also when the membership is
\* removed while a rename of the tag is copying it (RenameRoleTag,
\* RemoveUserRole and the foreign key between their tables).
GrantsBelongToMembers == \A g \in grants : IsMember(g[1])

\* A request is decided once, and the decision that approves it makes its
\* target a member in the same step ("eliminates an approved but not a member
\* state", DecideRoleRequestWithMembership), however many managers decide it
\* at the same time.
RequestsDecideOnce ==
    [][\A r \in Requests :
        /\ request[r].status \in {"approved", "rejected"} => request'[r] = request[r]
        /\ request[r].status = "pending" /\ request'[r].status = "approved"
           => IsMember(request[r].target)']_grantsVars

\* RenameRoleTag takes the old name from nobody its copy found without leaving
\* them the new one, unless that was withdrawn by another operation meanwhile.
RenameMigrates ==
    [][\A p \in Ops : RenameDrop(p) => \A u \in seen[p] : <<u, op[p].new>> \in grants']_grantsVars

\* A rename moves exactly the grants that are in force when it commits:
\* "matching membership grants migrate atomically" (README).
RenameAtomic ==
    [][\A p \in Ops : RenameDrop(p) =>
        {u \in Accounts : <<u, op[p].new>> \in grants'} = Holders(op[p].tag) \cup Holders(op[p].new)]_grantsVars
=============================================================================
