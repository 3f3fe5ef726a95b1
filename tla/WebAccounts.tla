---------------------------- MODULE WebAccounts -----------------------------
(***************************************************************************)
(* The accounts of the web client: the live session of web/src/api.ts, the *)
(* saved accounts of accounts.ts, and the refresh requests that            *)
(* single-flight.js coalesces, against a server that rotates refresh       *)
(* tokens.                                                                 *)
(*                                                                         *)
(* JavaScript runs one task at a time and switches only at an await, so    *)
(* the state is everything that survives an await: the session, the saved  *)
(* accounts, the flows that wait for a response and the requests in        *)
(* flight.  A token is an account and a generation; the server accepts the *)
(* last generation of an account that is not revoked.                      *)
(***************************************************************************)
EXTENDS Naturals, FiniteSets

CONSTANTS
    Accounts,   \* the accounts of one person
    NoAccount,  \* no account
    Flows,      \* async functions in progress
    MaxGen      \* bound: refresh tokens issued to an account

ASSUME AccountsAssumption == NoAccount \notin Accounts /\ IsFiniteSet(Accounts)
ASSUME WebBoundsAssumption == MaxGen \in Nat

VARIABLES
    srv,        \* the server: last generation and liveness of each session
    listed,     \* list, as kept in localStorage: the saved accounts
    saved,      \* the refresh token in each account's entry
    active,     \* activeId
    sess,       \* session: its tokens, which change together, and its user
    suspended,  \* syncSuspended
    flow,       \* the flows
    net,        \* the refresh requests in flight, by token
    overlap,    \* history: a sign-in has overlapped another flow, or failed
    strayed     \* history: the accounts whose entry may have missed a rotation

\* What the tab holds besides its flows.
tab == <<listed, saved, active, sess, suspended>>
vars == <<srv, tab, flow, net, overlap, strayed>>

Tokens == Accounts \X (1..MaxGen)
NoToken == <<NoAccount, 0>>
Owner(t) == t[1]

\* A flow: what it waits for; what was called, for which account, after which
\* other; token: the refresh it waits for; as: whose access token its call
\* carries; entry: the entry it holds, once sign-in has put another in its place;
\* logout: the token to be logged out; left: the accounts still to be signed out;
\* out: the outcome, of the refresh at.
Idle == [pc |-> "idle", kind |-> "page", id |-> NoAccount, prev |-> NoAccount, token |-> NoToken,
         as |-> NoAccount, entry |-> NoToken, logout |-> NoToken, left |-> {}, out |-> "ok", at |-> "refresh"]

NoSession == [token |-> NoToken, user |-> NoAccount]

Init ==
    /\ srv = [a \in Accounts |-> [gen |-> 0, alive |-> FALSE]]
    /\ listed = {}
    /\ saved = [a \in Accounts |-> NoToken]
    /\ active = NoAccount
    /\ sess = NoSession
    /\ suspended = FALSE
    /\ flow = [f \in Flows |-> Idle]
    /\ net = [t \in Tokens |-> "none"]
    /\ overlap = FALSE /\ strayed = {}

Busy == {f \in Flows : flow[f].pc # "idle"}

\* Continuations of a settled promise run before any other task.
NoMicrotask == \A f \in Flows : flow[f].pc # "resume"

Valid(t) == t # NoToken /\ srv[Owner(t)].alive /\ srv[Owner(t)].gen = t[2]

-----------------------------------------------------------------------------
(* The session and the saved accounts                                      *)

NeverSync(s) == saved

\* The listener of accounts.ts: the active account's saved tokens follow the
\* session, when the session's user is that account.
Sync(s) ==
    IF suspended \/ active \notin listed \/ s.user # active THEN saved
    ELSE [saved EXCEPT ![active] = s.token]

\* setTokens, setUser and clearSession change the session and run the listener.
SetSession(s) ==
    /\ sess' = s
    /\ saved' = Sync(s)
    /\ UNCHANGED <<listed, active, suspended>>

ClearSession == SetSession(NoSession)

\* applyCachedAccount of an entry, with the listener suspended while it lasts.
ApplyCachedAccount(a, token) ==
    /\ active' = a
    /\ sess' = [token |-> token, user |-> a]
    /\ suspended' = FALSE
    /\ UNCHANGED saved

\* refresh(): the request for the token is sent, unless one is in flight, and
\* the flow waits for it; without a token the outcome is at hand.
Refresh(f, next, t) ==
    IF t = NoToken
    THEN /\ flow' = [flow EXCEPT ![f] = [next EXCEPT !.at = next.pc, !.pc = "resume", !.out = "invalid"]]
         /\ UNCHANGED net
    ELSE /\ flow' = [flow EXCEPT ![f] = [next EXCEPT !.token = t]]
         /\ net' = IF net[t] = "none" THEN [net EXCEPT ![t] = "sent"] ELSE net

-----------------------------------------------------------------------------
(* Refresh requests                                                        *)

\* Refresh and handleRefresh: the server rotates the token and answers with the
\* next one; or answers 401, as it does for every error: the token is refused, a
\* read fails before the rotation, or the signing key after it.
ServerRefresh(t) ==
    /\ net[t] = "sent"
    /\ \/ /\ Valid(t) /\ t[2] < MaxGen
          /\ srv' = [srv EXCEPT ![Owner(t)].gen = t[2] + 1]
          /\ \/ net' = [net EXCEPT ![t] = "ok"] /\ UNCHANGED strayed
             \/ net' = [net EXCEPT ![t] = "invalid"] /\ strayed' = strayed \cup {Owner(t)}
       \/ /\ net' = [net EXCEPT ![t] = "invalid"]
          /\ UNCHANGED <<srv, strayed>>
    /\ UNCHANGED <<tab, flow, overlap>>

\* The request or its response is lost, or classifyRefreshResponse finds
\* neither a 401 nor a complete answer.
RefreshFails(t) ==
    /\ net[t] \in {"sent", "ok", "invalid"}
    /\ net' = [net EXCEPT ![t] = "transient"]
    /\ strayed' = IF net[t] = "ok" THEN strayed \cup {Owner(t)} ELSE strayed
    /\ UNCHANGED <<srv, tab, flow, overlap>>

AppliesAlways(t) == net[t] = "ok"

\* "Never let an old account's response overwrite the newly active account."
Applies(t) == net[t] = "ok" /\ sess.token = t

\* The response settles the operation: the session takes the new tokens if it
\* still has the old one, and every flow that waits for it goes on.
RefreshByToken(t) ==
    /\ NoMicrotask
    /\ net[t] \in {"ok", "invalid", "transient"}
    /\ IF Applies(t) THEN SetSession([sess EXCEPT !.token = <<Owner(t), t[2] + 1>>])
       ELSE UNCHANGED tab
    /\ strayed' = IF net[t] = "ok" /\ sess.token # t THEN strayed \cup {Owner(t)} ELSE strayed
    /\ flow' = [f \in Flows |->
         IF flow[f].pc \in {"refresh", "reactive"} /\ flow[f].token = t
         THEN [flow[f] EXCEPT !.at = flow[f].pc, !.pc = "resume", !.out = net[t], !.token = NoToken]
         ELSE flow[f]]
    /\ net' = [net EXCEPT ![t] = "none"]
    /\ UNCHANGED <<srv, overlap>>

-----------------------------------------------------------------------------
(* What starts a flow                                                      *)

Overlap(kind) ==
    overlap' = (overlap \/ (Busy # {} /\ "signin" \in {kind} \cup {flow[g].kind : g \in Busy}))

Begin(f, kind) ==
    /\ NoMicrotask
    /\ flow[f].pc = "idle"
    /\ Overlap(kind)
    /\ UNCHANGED strayed

\* switchTo: the saved account is applied and its token refreshed.
SwitchTo(f, a) ==
    /\ Begin(f, "switch")
    /\ a \in listed
    /\ ApplyCachedAccount(a, saved[a])
    /\ Refresh(f, [Idle EXCEPT !.pc = "refresh", !.kind = "switch", !.id = a, !.prev = active], saved[a])
    /\ UNCHANGED <<srv, listed>>

\* completeSignIn, once the server has issued a session, which replaces the
\* account's session on this device.
CompleteSignIn(f, a) ==
    /\ Begin(f, "signin")
    /\ srv[a].gen < MaxGen
    /\ srv' = [srv EXCEPT ![a] = [gen |-> @.gen + 1, alive |-> TRUE]]
    /\ suspended' = TRUE
    /\ sess' = [sess EXCEPT !.token = <<a, srv[a].gen + 1>>]
    /\ flow' = [flow EXCEPT ![f] = [Idle EXCEPT !.pc = "me", !.kind = "signin", !.id = a, !.as = a]]
    /\ UNCHANGED <<listed, saved, active, net>>

\* call: a page's request finds the access token refused or about to expire.
PageCall(f) ==
    /\ Begin(f, "page")
    /\ sess.token # NoToken
    /\ Refresh(f, [Idle EXCEPT !.pc = "refresh", !.kind = "page"], sess.token)
    /\ UNCHANGED <<srv, tab>>

\* api.logout, through call: the token to be logged out is read first; a session
\* that is about to expire is refreshed before the request is sent.
Logout(f, next) ==
    \/ /\ flow' = [flow EXCEPT ![f] = [next EXCEPT !.pc = "logout"]]
       /\ UNCHANGED net
    \/ /\ sess.token # NoToken
       /\ Refresh(f, [next EXCEPT !.pc = "refresh"], sess.token)

\* signOutAccount: the account's token is logged out.
SignOutAccount(f, a) ==
    /\ Begin(f, "signout")
    /\ a \in listed
    /\ Logout(f, [Idle EXCEPT !.kind = "signout", !.id = a, !.logout = saved[a]])
    /\ UNCHANGED <<srv, tab>>

\* signOutAll: one after the other, in any order.
SignOutAll(f) ==
    /\ Begin(f, "signoutall")
    /\ \E a \in listed :
         Logout(f, [Idle EXCEPT !.kind = "signoutall", !.id = a, !.logout = saved[a], !.left = listed \ {a}])
    /\ UNCHANGED <<srv, tab>>

\* A reload keeps localStorage only; bootRestore applies the active account, or
\* another, and refreshes it.  Of the requests in flight, the server may still
\* serve some.
BootRestore(f) ==
    /\ NoMicrotask
    /\ \E late \in SUBSET {t \in Tokens : net[t] = "sent" /\ Valid(t) /\ t[2] < MaxGen} :
         /\ srv' = [a \in Accounts |->
              IF \E t \in late : Owner(t) = a THEN [srv[a] EXCEPT !.gen = @ + 1] ELSE srv[a]]
         /\ strayed' = strayed \cup {Owner(t) : t \in late \cup {u \in Tokens : net[u] = "ok"}}
    /\ Overlap("boot")
    /\ \/ /\ listed = {}
          /\ sess' = NoSession /\ suspended' = FALSE
          /\ flow' = [g \in Flows |-> Idle]
          /\ net' = [t \in Tokens |-> "none"]
          /\ UNCHANGED <<saved, active>>
       \/ \E a \in IF active \in listed THEN {active} ELSE listed :
            /\ ApplyCachedAccount(a, saved[a])
            /\ flow' = [g \in Flows |->
                 IF g # f THEN Idle
                 ELSE [Idle EXCEPT !.pc = IF saved[a] = NoToken THEN "resume" ELSE "refresh",
                                   !.kind = "boot", !.id = a, !.token = saved[a], !.out = "invalid"]]
            /\ net' = [t \in Tokens |-> IF t = saved[a] THEN "sent" ELSE "none"]
    /\ UNCHANGED listed

-----------------------------------------------------------------------------
(* How a flow goes on                                                      *)

End(f) == flow' = [flow EXCEPT ![f] = Idle]

\* loadIdentity: me is asked with the access token the session has now.
LoadIdentity(f, at) ==
    /\ flow' = [flow EXCEPT ![f].pc = at, ![f].as = Owner(sess.token)]
    /\ UNCHANGED <<tab, net>>

\* An account is removed, and the previous one, or any other, is switched to.
RemoveAccount(f, a, prev) ==
    LET rest == listed \ {a} IN
    /\ listed' = rest
    /\ \/ /\ rest = {}
          /\ active' = NoAccount /\ sess' = NoSession
          /\ End(f)
          /\ UNCHANGED <<saved, suspended, net>>
       \/ \E b \in IF prev \in rest THEN {prev} ELSE rest :
            /\ ApplyCachedAccount(b, saved[b])
            /\ Refresh(f, [Idle EXCEPT !.pc = "refresh", !.kind = "switch", !.id = b], saved[b])

\* A failed switch restores the previous account, or shows the account it was
\* to switch to from the entry it holds.
RestorePrevious(f) ==
    LET a == flow[f].id
        held == IF flow[f].entry = NoToken THEN saved[a] ELSE flow[f].entry
    IN  /\ IF flow[f].prev \in listed THEN ApplyCachedAccount(flow[f].prev, saved[flow[f].prev])
           ELSE ApplyCachedAccount(a, held)
        /\ End(f)
        /\ UNCHANGED <<listed, net>>

\* The catch of switchTo, bootRestore and completeSignIn.
CatchUnauthorized(f) ==
    \/ /\ flow[f].kind \in {"switch", "boot"}
       /\ RemoveAccount(f, flow[f].id, flow[f].prev)
       /\ UNCHANGED overlap
    \/ /\ flow[f].kind = "signin"
       /\ suspended' = FALSE
       /\ overlap' = TRUE
       /\ End(f)
       /\ sess' = IF flow[f].out = "invalid" THEN NoSession ELSE sess
       /\ UNCHANGED <<listed, saved, active, net>>

CatchTransient(f) ==
    \/ flow[f].kind \in {"switch", "boot"} /\ RestorePrevious(f) /\ UNCHANGED overlap
    \/ flow[f].kind = "signin" /\ CatchUnauthorized(f)

\* switchTo, bootRestore, and call of a page or of a logout go on after refresh.
AfterRefresh(f) ==
    /\ flow[f].pc = "resume" /\ flow[f].at = "refresh"
    /\ \/ /\ flow[f].kind = "page"
          /\ IF flow[f].out = "invalid" THEN ClearSession ELSE UNCHANGED tab
          /\ End(f)
          /\ UNCHANGED net
       \/ /\ flow[f].kind \in {"signout", "signoutall"}
          /\ IF flow[f].out = "invalid" THEN ClearSession ELSE UNCHANGED tab
          /\ flow' = [flow EXCEPT ![f].pc = "logout"]
          /\ UNCHANGED net
       \/ flow[f].kind \in {"switch", "boot"} /\ flow[f].out = "ok" /\ LoadIdentity(f, "me")
       \/ /\ flow[f].kind \in {"switch", "boot"} /\ flow[f].out = "invalid"
          /\ RemoveAccount(f, flow[f].id, flow[f].prev)
       \/ flow[f].kind = "switch" /\ flow[f].out = "transient" /\ RestorePrevious(f)
       \/ flow[f].kind = "boot" /\ flow[f].out = "transient" /\ End(f) /\ UNCHANGED <<tab, net>>
    /\ UNCHANGED <<srv, overlap, strayed>>

\* The entry of the account that signed in takes the place of the one that other
\* flows hold.
RecordActiveLogin(f, u) ==
    /\ saved' = [saved EXCEPT ![u] = sess.token]
    /\ listed' = listed \cup {u}
    /\ active' = u
    /\ suspended' = FALSE
    /\ sess' = [sess EXCEPT !.user = u]
    /\ flow' = [g \in Flows |->
         IF g = f THEN Idle
         ELSE IF flow[g].id = u /\ flow[g].entry = NoToken /\ u \in listed
              THEN [flow[g] EXCEPT !.entry = saved[u]] ELSE flow[g]]

\* me answers: setUser, and completeSignIn records the account.  A late answer
\* leaves a user whose tokens the session no longer has.
Identity(f) ==
    /\ NoMicrotask
    /\ flow[f].pc \in {"me", "retry"}
    /\ flow[f].as # NoAccount /\ srv[flow[f].as].alive
    /\ \/ /\ flow[f].kind = "signin"
          /\ RecordActiveLogin(f, flow[f].as)
          /\ strayed' = strayed \ {flow[f].as}
       \/ /\ flow[f].kind # "signin"
          /\ SetSession([sess EXCEPT !.user = flow[f].as])
          /\ strayed' = IF flow[f].as # Owner(sess.token) THEN strayed \cup {active} ELSE strayed
          /\ End(f)
    /\ UNCHANGED <<srv, net, overlap>>

\* me is refused, for an access token that is stale, expired or revoked: call
\* refreshes once and asks again.
IdentityRefused(f) ==
    /\ NoMicrotask
    /\ \/ /\ flow[f].pc = "me" /\ flow[f].as # NoAccount
          /\ Refresh(f, [flow[f] EXCEPT !.pc = "reactive"], sess.token)
          /\ UNCHANGED <<tab, overlap>>
       \/ /\ flow[f].pc \in {"me", "retry"}
          /\ flow[f].as # NoAccount => (flow[f].pc = "retry" /\ ~srv[flow[f].as].alive)
          /\ CatchUnauthorized(f)
    /\ UNCHANGED <<srv, strayed>>

\* The answer is lost or a server error.
IdentityFails(f) ==
    /\ NoMicrotask
    /\ flow[f].pc \in {"me", "retry"}
    /\ CatchTransient(f)
    /\ UNCHANGED <<srv, strayed>>

\* call goes on after its reactive refresh.
AfterReactive(f) ==
    /\ flow[f].pc = "resume" /\ flow[f].at = "reactive"
    /\ \/ flow[f].out = "ok" /\ LoadIdentity(f, "retry") /\ UNCHANGED overlap
       \/ flow[f].out = "transient" /\ CatchTransient(f)
       \/ flow[f].out = "invalid" /\ CatchUnauthorized(f)
    /\ UNCHANGED <<srv, strayed>>

\* The logout has revoked the session of the token, if that is still the last one,
\* or the session of the cookie for want of a token; or it has failed.  Either way
\* the account leaves the list.
LogoutAnswered(f) ==
    LET a == flow[f].id IN
    /\ NoMicrotask
    /\ flow[f].pc = "logout"
    /\ \/ \E b \in Accounts :
            /\ flow[f].logout = NoToken \/ (Valid(flow[f].logout) /\ Owner(flow[f].logout) = b)
            /\ srv' = [srv EXCEPT ![b].alive = FALSE]
       \/ UNCHANGED srv
    /\ \/ flow[f].kind = "signout" /\ a = active /\ RemoveAccount(f, a, NoAccount)
       \/ /\ flow[f].kind = "signout" /\ a # active
          /\ listed' = listed \ {a}
          /\ End(f)
          /\ UNCHANGED <<saved, active, sess, suspended, net>>
       \/ /\ flow[f].kind = "signoutall" /\ flow[f].left = {}
          /\ listed' = {} /\ active' = NoAccount /\ sess' = NoSession
          /\ End(f)
          /\ UNCHANGED <<saved, suspended, net>>
       \/ /\ flow[f].kind = "signoutall"
          /\ \E b \in flow[f].left :
               Logout(f, [Idle EXCEPT !.kind = "signoutall", !.id = b, !.logout = saved[b],
                                      !.left = flow[f].left \ {b}])
          /\ UNCHANGED tab
    /\ UNCHANGED <<overlap, strayed>>

\* The session ends at the server: revoked elsewhere, expired, banned.
Revoke(a) ==
    /\ srv[a].alive
    /\ srv' = [srv EXCEPT ![a].alive = FALSE]
    /\ UNCHANGED <<tab, flow, net, overlap, strayed>>

Next ==
    \/ \E t \in Tokens : ServerRefresh(t) \/ RefreshFails(t) \/ RefreshByToken(t)
    \/ \E f \in Flows, a \in Accounts : SwitchTo(f, a) \/ CompleteSignIn(f, a) \/ SignOutAccount(f, a)
    \/ \E f \in Flows : PageCall(f) \/ SignOutAll(f) \/ BootRestore(f)
    \/ \E f \in Flows : AfterRefresh(f) \/ Identity(f) \/ IdentityRefused(f) \/ IdentityFails(f)
                       \/ AfterReactive(f) \/ LogoutAnswered(f)
    \/ \E a \in Accounts : Revoke(a)

Spec == Init /\ [][Next]_vars

-----------------------------------------------------------------------------
(* Properties                                                              *)

\* However switches, page requests, sign-outs and reloads overlap, the tokens of
\* the session are those of the active account: a late refresh response never
\* puts another account's tokens under it.  Sign-ins are excepted while they
\* last, and when one fails or overlaps another flow.
SessionFollowsActive ==
    ~overlap /\ sess.token # NoToken =>
        \/ Owner(sess.token) = active
        \/ \E f \in Flows : flow[f].kind = "signin"

\* However the flows overlap, sign-ins apart, the saved token of an account is the
\* one the server expects, or its rotation is on the way to the tab: an account
\* whose session lives can be switched to.  Only four things make an entry miss a
\* rotation before the account signs in again: its response is lost, the server
\* fails after it, the session has moved on when it arrives, or a late answer of me
\* has put a user into the session whose tokens it does not have.
SavedTokensAreCurrent ==
    ~overlap =>
        \A a \in listed \ strayed :
            /\ saved[a] # NoToken => Owner(saved[a]) = a
            /\ srv[a].alive => \/ Valid(saved[a])
                              \/ (saved[a] # NoToken /\ net[saved[a]] = "ok")
                              \/ \E f \in Flows : flow[f].kind = "signin" /\ flow[f].id = a

\* README.md: "Saved accounts are removed only when refresh returns 401, which
\* definitively means the refresh session is invalid" (or by signing out).
RemovedAreDead ==
    [][\A a \in listed \ listed' :
          \/ ~srv[a].alive
          \/ \E f \in Flows : flow[f].kind \in {"signout", "signoutall"}]_vars

=============================================================================
