---------------------------- MODULE RefreshLedger ----------------------------
(***************************************************************************)
(* What the service promises about refresh tokens (README "Security        *)
(* model" and "Ban semantics"), without rows, versions, locks or requests: *)
(* a token is exchanged at most once and only while it is live, a dead     *)
(* token stays dead, an account holds a limited number of live tokens and  *)
(* a suspended account holds none.                                         *)
(***************************************************************************)
EXTENDS Naturals, FiniteSets

CONSTANTS Accounts, Tokens, Limit

VARIABLES live,         \* pairs <<account, token>> that can be exchanged
          used,         \* tokens that are or once were live
          spent,        \* tokens that were exchanged
          suspended     \* accounts that are banned

vars == <<live, used, spent, suspended>>

TokensOf(a, s) == {t \in Tokens : <<a, t>> \in s}

Init == live = {} /\ used = {} /\ spent = {} /\ suspended = {}

\* A token becomes live for the first time.
Fresh(t) == t \notin used /\ used' = used \cup {t}

\* A sign-in: a fresh token, at the cost of any number of the account's others.
Grant(a, t) ==
    /\ Fresh(t)
    /\ a \notin suspended
    /\ \E lost \in SUBSET TokensOf(a, live) :
         live' = (live \ {<<a, s>> : s \in lost}) \cup {<<a, t>>}
    /\ Cardinality(TokensOf(a, live')) <= Limit
    /\ UNCHANGED <<spent, suspended>>

\* A refresh: a live token is replaced by a fresh one.
Exchange(a, s, t) ==
    /\ Fresh(t)
    /\ spent' = spent \cup {s}
    /\ a \notin suspended
    /\ <<a, s>> \in live
    /\ live' = (live \ {<<a, s>>}) \cup {<<a, t>>}
    /\ UNCHANGED suspended

\* A logout, a revocation or an expiry.
Kill(a, s) ==
    /\ UNCHANGED <<used, spent, suspended>>
    /\ <<a, s>> \in live
    /\ live' = live \ {<<a, s>>}

Suspend(a) ==
    /\ suspended' = suspended \cup {a}
    /\ live' = {x \in live : x[1] # a}
    /\ UNCHANGED <<used, spent>>

Restore(a) ==
    /\ suspended' = suspended \ {a}
    /\ UNCHANGED <<live, used, spent>>

Next ==
    \E a \in Accounts :
        \/ Restore(a)
        \/ Suspend(a)
        \/ \E s \in Tokens : Kill(a, s)
        \/ \E t \in Tokens : Grant(a, t)
        \/ \E s, t \in Tokens : Exchange(a, s, t)

Spec == Init /\ [][Next]_vars
=============================================================================
