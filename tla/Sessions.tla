------------------------------ MODULE Sessions ------------------------------
(***************************************************************************)
(* Refresh sessions and bearer tokens of one account database:             *)
(* internal/service/auth.go (issueTokenPair, Refresh, Logout,              *)
(* RevokeOwnSession, IssueServiceToken, tokenSubject),                     *)
(* internal/repository/sessions.go and the ban transaction of users.go.    *)
(*                                                                         *)
(* A request is a small process.  It interleaves with every other request  *)
(* at the granularity of one SQL statement, except where statements are    *)
(* serialised by the row lock SELECT ... FROM users ... FOR UPDATE: the    *)
(* rotation and the ban transaction read and write nothing that an         *)
(* unlocked statement can change in between, so each is one action.  The   *)
(* issuing transaction is not: a revocation takes no user lock and can     *)
(* commit between its statements, so it is split into Lock, Count, Evict   *)
(* and Insert.                                                             *)
(*                                                                         *)
(* The random refresh tokens are numbers drawn from nextToken.  The number *)
(* drawn by a login is also its transaction's start time (Postgres now())  *)
(* and the primary key it would insert.                                    *)
(***************************************************************************)
EXTENDS Naturals, FiniteSets

CONSTANTS
    Humans,         \* accounts that own refresh sessions
    Services,       \* accounts that only obtain service tokens
    Devices,        \* device identifiers sent by clients
    None,           \* no account, no device
    Requests,       \* slots for requests in flight, over all replicas
    MaxSessions,    \* cfg.MaxSessionsPerUser
    MaxTokens,      \* bound: refresh tokens drawn in a behaviour
    MaxBans         \* bound: bans of one account in a behaviour

ASSUME MaxSessionsAssumption == MaxSessions \in Nat \ {0}
ASSUME BoundsAssumption == MaxTokens \in Nat /\ MaxBans \in Nat
ASSUME KindsAssumption == Humans \cap Services = {}
ASSUME DevicesAssumption == IsFiniteSet(Devices)

Users == Humans \cup Services

VARIABLES
    banned,         \* users.banned_at IS NOT NULL
    tokenVersion,   \* users.token_version
    rows,           \* refresh_sessions, keyed by (user, device)
    req,            \* the requests in flight and their local variables
    nextToken,      \* the next fresh token
    issued,         \* history: tokens whose hash was ever committed
    exchanged,      \* history: tokens presented to a refresh that committed
    delivered,      \* tokens returned to a client, which may present them
    access          \* bearer tokens returned to a client

vars == <<banned, tokenVersion, rows, req, nextToken, issued, exchanged,
          delivered, access>>

\* Everything but the requests' local variables.
store == <<banned, tokenVersion, rows, nextToken, issued, exchanged, delivered, access>>

Version == 0..MaxBans

\* A row of refresh_sessions.  ver is a history field: the account version
\* its token was issued under.  expired stands for expires_at <= now.
Row == [id : 0..MaxTokens, hash : 0..MaxTokens, created : 0..MaxTokens,
        revoked : BOOLEAN, expired : BOOLEAN, ver : Version]

NoRow == [id |-> 0, hash |-> 0, created |-> 0,
          revoked |-> TRUE, expired |-> TRUE, ver |-> 0]

Live(row) == ~row.revoked /\ ~row.expired

PC == {"idle", "lock", "count", "evict", "sign", "user", "rotate", "revoke"}

\* The local variables of a request: the account, the device, the version
\* read with the account, the token presented, the token drawn, the session
\* found, and for a login what its transaction has read and deleted so far.
Request == [pc : PC, user : Users \cup {None}, dev : Devices \cup {None},
            ver : Version, tok : 0..MaxTokens, new : 0..MaxTokens, sid : 0..MaxTokens,
            unexpired : SUBSET Devices, exists : BOOLEAN,
            projected : Nat, evicted : SUBSET Devices]

\* A request at its first statement.
Opened(pc, user, dev, ver, tok, new, sid) ==
    [pc |-> pc, user |-> user, dev |-> dev, ver |-> ver,
     tok |-> tok, new |-> new, sid |-> sid,
     unexpired |-> {}, exists |-> FALSE, projected |-> 0, evicted |-> {}]

IdleRequest == Opened("idle", None, None, 0, 0, 0, 0)

Bearer == [user : Users, ver : Version]

Init ==
    /\ banned = [u \in Users |-> FALSE]
    /\ tokenVersion = [u \in Users |-> 0]
    /\ rows = [u \in Humans |-> [d \in Devices |-> NoRow]]
    /\ req = [p \in Requests |-> IdleRequest]
    /\ nextToken = 1
    /\ issued = {}
    /\ exchanged = {}
    /\ delivered = {}
    /\ access = {}

-----------------------------------------------------------------------------
(* Who holds the row lock of an account, and what its transaction hides.   *)

HoldsLock(p) == req[p].pc \in {"count", "evict"}

LockFreeAlways(u) == TRUE

LockFree(u) == \A p \in Requests : HoldsLock(p) => req[p].user # u

\* Rows an open login transaction has deleted and not yet committed.
PendingDelete(u, d) ==
    \E p \in Requests : HoldsLock(p) /\ req[p].user = u /\ d \in req[p].evicted

ActiveDevices(u) == {d \in Devices : Live(rows[u][d])}

Become(p, r) == req' = [req EXCEPT ![p] = r]

Finish(p) == Become(p, IdleRequest)

-----------------------------------------------------------------------------
(* issueTokenPair and UpsertRefreshSessionForActiveVersion                 *)

\* The caller has proved who it is; its account is read and a token drawn.
IssueStart(p, u, d) ==
    /\ req[p].pc = "idle"
    /\ nextToken <= MaxTokens
    /\ ~banned[u]
    /\ Become(p, Opened("lock", u, d, tokenVersion[u], 0, nextToken, 0))
    /\ nextToken' = nextToken + 1
    /\ UNCHANGED <<banned, tokenVersion, rows, issued, exchanged, delivered, access>>

StillCurrentIgnoresVersion(r) == ~banned[r.user]

\* The recheck, under the row lock, of what the request read before it.
StillCurrent(r) == ~banned[r.user] /\ tokenVersion[r.user] = r.ver

\* SELECT the account FOR UPDATE and recheck it, fix the transaction's clock,
\* then SELECT the row of this device.
IssueLock(p) ==
    /\ req[p].pc = "lock"
    /\ LockFree(req[p].user)
    /\ LET r == req[p] IN
         IF ~StillCurrent(r)
         THEN Finish(p)
         ELSE Become(p, [r EXCEPT
                  !.pc = "count",
                  !.unexpired = {d \in Devices : ~rows[r.user][d].expired},
                  !.exists = Live(rows[r.user][r.dev])])
    /\ UNCHANGED store

ProjectedForgetsNew(r) ==
    Cardinality({d \in r.unexpired : ~rows[r.user][d].revoked})

\* SELECT COUNT of the account's active sessions, plus the one to insert.
ProjectedSessions(r) ==
    Cardinality({d \in r.unexpired : ~rows[r.user][d].revoked})
        + (IF r.exists THEN 0 ELSE 1)

IssueCount(p) ==
    /\ req[p].pc = "count"
    /\ LET r == req[p] IN
         Become(p, [r EXCEPT !.pc = "evict", !.projected = ProjectedSessions(r)])
    /\ UNCHANGED store

\* The sessions of other devices that one DELETE of the loop may choose from.
Evictable(p) ==
    LET r == req[p] IN
    {d \in r.unexpired \ ({r.dev} \cup r.evicted) : ~rows[r.user][d].revoked}

Oldest(u, ds) ==
    {d \in ds : \A e \in ds : rows[u][d].created <= rows[u][e].created}

DeleteOldest(p) ==
    \E d \in Oldest(req[p].user, Evictable(p)) :
        Become(p, [req[p] EXCEPT !.projected = @ - 1, !.evicted = @ \cup {d}])

\* One round of the eviction loop; no row to delete rolls the login back.
IssueEvict(p) ==
    /\ req[p].pc = "evict"
    /\ req[p].projected > MaxSessions
    /\ IF Evictable(p) = {} THEN Finish(p) ELSE DeleteOldest(p)
    /\ UNCHANGED store

\* The row INSERT ... ON CONFLICT (user_id, device_id) DO UPDATE leaves.
Upserted(old, r) ==
    [id |-> IF old.id = 0 THEN r.new ELSE old.id, hash |-> r.new,
     created |-> r.new, revoked |-> FALSE, expired |-> FALSE, ver |-> r.ver]

\* What a committed request still needs to sign and answer.
Answering(r) == Opened("sign", r.user, None, r.ver, 0, r.new, 0)

\* The upsert and the COMMIT, which also publishes the deletions.
IssueInsert(p) ==
    /\ req[p].pc = "evict"
    /\ req[p].projected <= MaxSessions
    /\ LET r == req[p] IN
         /\ rows' = [rows EXCEPT ![r.user] =
                [d \in Devices |->
                    IF d = r.dev THEN Upserted(rows[r.user][d], r)
                    ELSE IF d \in r.evicted THEN NoRow ELSE rows[r.user][d]]]
         /\ issued' = issued \cup {r.new}
         /\ Become(p, Answering(r))
    /\ UNCHANGED <<banned, tokenVersion, nextToken, exchanged, delivered, access>>

\* Sign the access token with the version read under the lock and answer.
Sign(p) ==
    /\ req[p].pc = "sign"
    /\ access' = access \cup {[user |-> req[p].user, ver |-> req[p].ver]}
    /\ delivered' = delivered \cup ({req[p].new} \ {0})
    /\ Finish(p)
    /\ UNCHANGED <<banned, tokenVersion, rows, nextToken, issued, exchanged>>

-----------------------------------------------------------------------------
(* Refresh and RotateRefreshSessionForActiveVersion                        *)

\* FindRefreshByTokenHash; a token that finds no row changes nothing.
RefreshFind(p, t) ==
    /\ req[p].pc = "idle"
    /\ nextToken <= MaxTokens
    /\ \E u \in Humans, d \in Devices :
         /\ Live(rows[u][d])
         /\ rows[u][d].hash = t
         /\ Become(p, Opened("user", u, None, 0, t, nextToken, rows[u][d].id))
    /\ nextToken' = nextToken + 1
    /\ UNCHANGED <<banned, tokenVersion, rows, issued, exchanged, delivered, access>>

RefreshUserWaits(p) ==
    /\ req[p].pc = "user"
    /\ ~banned[req[p].user]
    /\ Become(p, [req[p] EXCEPT !.pc = "rotate", !.ver = tokenVersion[req[p].user]])
    /\ UNCHANGED store

\* GetUserByID.
RefreshUser(p) ==
    /\ req[p].pc = "user"
    /\ LET r == req[p] IN
         IF banned[r.user] THEN Finish(p)
         ELSE Become(p, [r EXCEPT !.pc = "rotate", !.ver = tokenVersion[r.user]])
    /\ UNCHANGED store

RotateHitAnyHash(r) ==
    {d \in Devices : Live(rows[r.user][d]) /\ rows[r.user][d].id = r.sid}

RotateHitAnySession(r) == {d \in Devices : rows[r.user][d].id # 0}

\* The session row the rotation may replace: the one found, live, and still
\* carrying the token that was presented.
RotateHit(r) ==
    {d \in Devices : /\ Live(rows[r.user][d])
                     /\ rows[r.user][d].id = r.sid
                     /\ rows[r.user][d].hash = r.tok}

Rotated(old, r) == [old EXCEPT !.hash = r.new, !.ver = r.ver]

\* The rotation transaction: the account and the exact session row are
\* rechecked under their locks before the hash is replaced.
Rotate(p) ==
    /\ req[p].pc = "rotate"
    /\ LockFree(req[p].user)
    /\ LET r == req[p] IN
         IF ~StillCurrent(r) \/ RotateHit(r) = {}
         THEN Finish(p) /\ UNCHANGED <<rows, issued, exchanged>>
         ELSE /\ rows' = [rows EXCEPT ![r.user] =
                     [d \in Devices |->
                         IF d \in RotateHit(r) THEN Rotated(rows[r.user][d], r)
                         ELSE rows[r.user][d]]]
              /\ issued' = issued \cup {r.new}
              /\ exchanged' = exchanged \cup {r.tok}
              /\ Become(p, Answering(r))
    /\ UNCHANGED <<banned, tokenVersion, nextToken, delivered, access>>

-----------------------------------------------------------------------------
(* Logout, RevokeOwnSession and RevokeRefreshSession                       *)

\* Logout: FindRefreshByTokenHash; no row found is a success without effect.
LogoutFind(p, t) ==
    /\ req[p].pc = "idle"
    /\ \E u \in Humans, d \in Devices :
         /\ Live(rows[u][d])
         /\ rows[u][d].hash = t
         /\ Become(p, Opened("revoke", u, None, 0, 0, 0, rows[u][d].id))
    /\ UNCHANGED store

\* RevokeOwnSession: any listed session of the caller, live or not.
RevokeOwnFind(p, u, d) ==
    /\ req[p].pc = "idle"
    /\ rows[u][d].id # 0
    /\ Become(p, Opened("revoke", u, None, 0, 0, 0, rows[u][d].id))
    /\ UNCHANGED store

\* UPDATE ... SET revoked_at WHERE id = ?.  It takes no user lock; it waits
\* for an open transaction that has deleted the row, and then hits nothing.
Revoke(p) ==
    /\ req[p].pc = "revoke"
    /\ LET r == req[p] IN
         /\ \A d \in Devices :
               rows[r.user][d].id = r.sid => ~PendingDelete(r.user, d)
         /\ rows' = [rows EXCEPT ![r.user] =
                [d \in Devices |->
                    IF rows[r.user][d].id = r.sid
                    THEN [rows[r.user][d] EXCEPT !.revoked = TRUE]
                    ELSE rows[r.user][d]]]
    /\ Finish(p)
    /\ UNCHANGED <<banned, tokenVersion, nextToken, issued, exchanged, delivered, access>>

-----------------------------------------------------------------------------
(* Service tokens, bans, time and failures                                 *)

\* IssueServiceToken up to the signature.
ServiceTokenStart(p, u) ==
    /\ req[p].pc = "idle"
    /\ ~banned[u]
    /\ Become(p, Opened("sign", u, None, tokenVersion[u], 0, 0, 0))
    /\ UNCHANGED store

BanVersionTwice(u) == tokenVersion[u] + 2

BanVersionKept(u) == tokenVersion[u]

BanVersion(u) == tokenVersion[u] + 1

BanRow(row) == [row EXCEPT !.revoked = TRUE]

\* SetUserBan with an actor.  An account that is banned may be banned again.
Ban(u) ==
    /\ LockFree(u)
    /\ tokenVersion[u] < MaxBans
    /\ banned' = [banned EXCEPT ![u] = TRUE]
    /\ tokenVersion' = [tokenVersion EXCEPT ![u] = BanVersion(u)]
    /\ rows' = [h \in Humans |->
           IF h = u THEN [d \in Devices |-> BanRow(rows[h][d])] ELSE rows[h]]
    /\ UNCHANGED <<req, nextToken, issued, exchanged, delivered, access>>

\* SetUserBan without an actor.
Unban(u) ==
    /\ LockFree(u)
    /\ banned' = [banned EXCEPT ![u] = FALSE]
    /\ UNCHANGED <<tokenVersion, rows, req, nextToken, issued, exchanged, delivered, access>>

\* The clock passes expires_at of a session.
Expire(u, d) ==
    /\ ~rows[u][d].expired
    /\ rows' = [rows EXCEPT ![u][d].expired = TRUE]
    /\ UNCHANGED <<banned, tokenVersion, req, nextToken, issued, exchanged, delivered, access>>

\* A database error, a cancelled context or a crash: the open transaction is
\* rolled back and nothing is answered.
Abort(p) ==
    /\ req[p].pc # "idle"
    /\ Finish(p)
    /\ UNCHANGED store

-----------------------------------------------------------------------------

\* The steps a request in flight takes by itself.
Step(p) ==
    \/ IssueLock(p) \/ IssueCount(p) \/ IssueEvict(p) \/ IssueInsert(p)
    \/ RefreshUser(p) \/ Rotate(p) \/ Revoke(p) \/ Sign(p)

Start(p) ==
    \/ \E u \in Humans, d \in Devices : IssueStart(p, u, d)
    \/ \E t \in delivered : RefreshFind(p, t)
    \/ \E t \in delivered : LogoutFind(p, t)
    \/ \E u \in Humans, d \in Devices : RevokeOwnFind(p, u, d)
    \/ \E u \in Services : ServiceTokenStart(p, u)

Next ==
    \/ \E p \in Requests : Step(p) \/ Start(p) \/ Abort(p)
    \/ \E u \in Users : Ban(u) \/ Unban(u)
    \/ \E u \in Humans, d \in Devices : Expire(u, d)

Spec == Init /\ [][Next]_vars

\* Every statement of a request is answered.  Postgres grants a row lock to
\* its waiters in order, so a request that waits for one is not overtaken
\* for ever: strong fairness for the steps that wait for a row lock.
Fairness ==
    \A p \in Requests : /\ WF_vars(Step(p))
                        /\ SF_vars(IssueLock(p)) /\ SF_vars(Rotate(p))
                        /\ SF_vars(Revoke(p))

FairSpec == Spec /\ Fairness
-----------------------------------------------------------------------------
(* Properties                                                              *)

\* The values of the columns and of the requests' local variables.
TypeOK ==
    /\ banned \in [Users -> BOOLEAN]
    /\ tokenVersion \in [Users -> Version]
    /\ rows \in [Humans -> [Devices -> Row]]
    /\ req \in [Requests -> Request]
    /\ nextToken \in 1..(MaxTokens + 1)
    /\ issued \subseteq 1..(nextToken - 1)
    /\ exchanged \subseteq delivered
    /\ delivered \subseteq issued
    /\ access \subseteq Bearer

\* A refresh session that could be rotated belongs to an account that is not
\* banned, and was issued under the account's current token version: no
\* login, refresh or unban that overlaps a ban (setUserBan) leaves a session
\* of an earlier version behind.
LiveSessionsAreCurrent ==
    \A u \in Humans, d \in Devices :
        Live(rows[u][d]) => ~banned[u] /\ rows[u][d].ver = tokenVersion[u]

RequestOK(r) ==
    /\ r.new < nextToken
    /\ r.pc \in {"lock", "count", "evict"}
         => r.user \in Humans /\ r.dev \in Devices /\ r.new # 0
    /\ r.pc \in {"lock", "count"} => r.evicted = {}
    /\ r.pc \in {"user", "rotate", "revoke"} => r.user \in Humans
    /\ r.pc \in {"user", "rotate"} => r.tok \in delivered /\ r.new # 0
    /\ r.pc = "sign" => r.user \in Users /\ r.new \in issued \cup {0}
    /\ r.pc \in {"count", "evict"} => StillCurrent(r)

\* What a request in flight may rely on between two of its statements: the
\* account and device it works for, that the tokens it carries are delivered,
\* committed or still private to it, and that while it holds the user lock
\* its recheck of the account stays true (no ban can pass it).
RequestsConsistent == \A p \in Requests : RequestOK(req[p])

\* The inductive invariant behind LiveSessionsAreCurrent.
IInv == TypeOK /\ RequestsConsistent /\ LiveSessionsAreCurrent

\* The eviction loop of upsertRefreshSessionForActiveVersion keeps an account
\* within MaxSessionsPerUser at every moment, although its count, its
\* deletions and its insert are separate statements and a logout takes no
\* user lock.
SessionLimit ==
    \A u \in Humans : Cardinality(ActiveDevices(u)) <= MaxSessions

\* Why the limit holds.  One login at a time is past the user lock of an
\* account; while it is, no session appears behind its back, and what it may
\* still evict fits either in the projected count that its loop works off or,
\* when the row it replaces was revoked after it was read, in the limit.
LoginsKeepTheLimit ==
    /\ \A p, q \in Requests :
         HoldsLock(p) /\ HoldsLock(q) /\ req[p].user = req[q].user => p = q
    /\ \A p \in Requests : HoldsLock(p) =>
         LET r == req[p] IN
         /\ ActiveDevices(r.user) \ ({r.dev} \cup r.evicted) \subseteq Evictable(p)
         /\ r.pc = "count" /\ r.exists => Cardinality(Evictable(p)) < MaxSessions
         /\ r.pc = "evict" => \/ Cardinality(Evictable(p)) < r.projected
                             \/ Cardinality(Evictable(p)) < MaxSessions

\* A refresh token identifies at most one live session, which is what
\* FindRefreshByTokenHash relies on when it takes any row with the hash, and
\* a session id at most one row, which RevokeRefreshSession relies on.
TokensIdentifySessions ==
    \A u, v \in Humans, d, e \in Devices :
        /\ rows[u][d].id # 0
        /\ rows[u][d].id = rows[v][e].id \/ rows[u][d].hash = rows[v][e].hash
        => u = v /\ d = e

\* What tokenSubject accepts.
Accepted(b) == ~banned[b.user] /\ tokenVersion[b.user] = b.ver

\* A version that the next unban cannot make current again.
Behind(u, v) == v <= tokenVersion[u] /\ (banned[u] => v < tokenVersion[u])

\* A ban covers every bearer token of its account: the ones that clients hold
\* and the ones that a request past its read of the account will still sign.
BearersCovered ==
    /\ \A b \in access : Behind(b.user, b.ver)
    /\ \A p \in Requests :
         req[p].pc \in {"lock", "count", "evict", "rotate", "sign"}
             => Behind(req[p].user, req[p].ver)

\* A bearer token that was refused once is refused for ever: a ban
\* invalidates the tokens signed before it and the tokens that requests in
\* flight are still about to sign, and an unban restores none of them.
RefusedBearersStayRefused ==
    [][\A b \in access : ~Accepted(b) => ~Accepted(b)']_vars

\* Every request ends, the user lock is never held for ever.
RequestsEnd == \A p \in Requests : req[p].pc # "idle" ~> req[p].pc = "idle"

\* sessions.go:93 treats a DELETE of the eviction loop that finds no row as
\* something that cannot happen ("active refresh session count changed
\* unexpectedly"): while the loop has to go on there is a row to delete.
EvictionFindsARow ==
    \A p \in Requests :
        req[p].pc = "evict" /\ req[p].projected > MaxSessions => Evictable(p) # {}

LiveTokens ==
    UNION {{<<u, rows[u][d].hash>> : d \in ActiveDevices(u)} : u \in Humans}

\* Sessions implements the ledger of refresh tokens: what a client can rely
\* on, with rows, versions, locks and requests hidden.
Ledger == INSTANCE RefreshLedger WITH
    Accounts <- Humans, Tokens <- 1..MaxTokens, Limit <- MaxSessions,
    live <- LiveTokens,
    used <- issued, spent <- exchanged,
    suspended <- {u \in Humans : banned[u]}

\* The abstract specification, as the property of a run.
ImplementsLedger == Ledger!Spec
=============================================================================
