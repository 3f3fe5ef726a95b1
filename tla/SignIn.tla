------------------------------- MODULE SignIn -------------------------------
(***************************************************************************)
(* Password sign-in of one account: LoginPassword, recordFailedLogin and   *)
(* LoginVerifyOTP of internal/service/auth.go, up to issueTokenPair, which *)
(* module Sessions continues.                                              *)
(*                                                                         *)
(* None of these operations is a transaction: a request interleaves with   *)
(* the others at every SQL statement.  A challenge is a number; the code   *)
(* that a client sends with it is right or wrong.                          *)
(***************************************************************************)
EXTENDS Naturals, FiniteSets

CONSTANTS
    Requests,           \* requests in flight
    LoginFailMax,       \* cfg.LoginFailMax
    NotifyOnFailThreshold,  \* cfg.NotifyOnFailThreshold
    MaxChallenges,      \* bound: challenges in a behaviour
    MaxGuesses,         \* bound: wrong passwords that are evaluated
    MaxCodes,           \* bound: wrong codes that are evaluated per challenge
    MaxFaults           \* bound: statements that fail

ASSUME RequestsAssumption == IsFiniteSet(Requests)
ASSUME FailMaxAssumption ==
    LoginFailMax \in Nat \ {0} /\ NotifyOnFailThreshold \in Nat
ASSUME SignInBoundsAssumption ==
    /\ MaxChallenges \in Nat /\ MaxGuesses \in Nat
    /\ MaxCodes \in Nat /\ MaxFaults \in Nat

VARIABLES
    failures,       \* rows of failed_login_attempts within the window
    locked,         \* users.locked_until is in the future
    state,          \* the login challenges in email_otp_challenges
    expired,        \* challenges past expires_at
    req,            \* the requests and their local variables
    issued,         \* history: sign-ins completed with each challenge
    wrong,          \* history: wrong codes evaluated against each challenge
    guesses,        \* history: wrong passwords evaluated in the window
    total,          \* history: all of them
    alerted,        \* history: the security alert has been mailed
    faults          \* statements that have failed

vars == <<failures, locked, state, expired, req, issued, wrong, guesses, total,
          alerted, faults>>

Challenges == 1..MaxChallenges

Request == [pc : {"idle", "insert", "count", "lock", "create", "burn", "consume", "issue"},
            n : Nat, ch : 0..MaxChallenges]

Idle == [pc |-> "idle", n |-> 0, ch |-> 0]

Init ==
    /\ failures = 0 /\ locked = FALSE
    /\ state = [c \in Challenges |-> "none"]
    /\ expired = {}
    /\ req = [p \in Requests |-> Idle]
    /\ issued = [c \in Challenges |-> 0]
    /\ wrong = [c \in Challenges |-> 0]
    /\ guesses = 0 /\ total = 0
    /\ alerted = FALSE /\ faults = 0

Goto(p, pc) == req' = [req EXCEPT ![p].pc = pc]
Done(p) == req' = [req EXCEPT ![p] = Idle]

\* A statement whose error the code ignores or turns into a refusal.
Fault == faults < MaxFaults /\ faults' = faults + 1

-----------------------------------------------------------------------------
(* LoginPassword and recordFailedLogin                                     *)

\* The account is read, it is not locked, and the password does not match.
WrongPassword(p) ==
    /\ req[p].pc = "idle"
    /\ ~locked
    /\ total < MaxGuesses
    /\ total' = total + 1 /\ guesses' = guesses + 1
    /\ Goto(p, "insert")
    /\ UNCHANGED <<failures, locked, state, expired, issued, wrong, alerted, faults>>

InsertFailedLogin(p) ==
    /\ req[p].pc = "insert"
    /\ Goto(p, "count")
    /\ \/ failures' = failures + 1 /\ UNCHANGED faults
       \/ Fault /\ UNCHANGED failures
    /\ UNCHANGED <<locked, state, expired, issued, wrong, guesses, total, alerted>>

CountFailedLogins(p) ==
    /\ req[p].pc = "count"
    /\ \/ req' = [req EXCEPT ![p].pc = "lock", ![p].n = failures] /\ UNCHANGED faults
       \/ req' = [req EXCEPT ![p].pc = "lock", ![p].n = 0] /\ Fault
    /\ UNCHANGED <<failures, locked, state, expired, issued, wrong, guesses, total, alerted>>

MustLockLate(n) == n > LoginFailMax

MustLock(n) == n >= LoginFailMax

MustNotify(n) == NotifyOnFailThreshold > 0 /\ n = NotifyOnFailThreshold

\* The rest of recordFailedLogin: the lock, whose error is ignored, and the
\* alert.
SetLockedUntil(p) ==
    /\ req[p].pc = "lock"
    /\ Done(p)
    /\ \/ locked' = (locked \/ MustLock(req[p].n)) /\ UNCHANGED faults
       \/ MustLock(req[p].n) /\ Fault /\ UNCHANGED locked
    /\ alerted' = (alerted \/ MustNotify(req[p].n))
    /\ UNCHANGED <<failures, state, expired, issued, wrong, guesses, total>>

RightPassword(p) ==
    /\ req[p].pc = "idle"
    /\ ~locked
    /\ Goto(p, "create")
    /\ UNCHANGED <<failures, locked, state, expired, issued, wrong, guesses, total, alerted, faults>>

\* CreateEmailOTP with the challenge as its correlation, after which the code
\* is mailed and the challenge returned; or its error is.
CreateChallenge(p) ==
    /\ req[p].pc = "create"
    /\ \/ \E c \in Challenges :
            /\ state[c] = "none"
            /\ \A d \in Challenges : d < c => state[d] # "none"
            /\ state' = [state EXCEPT ![c] = "open"]
       \/ UNCHANGED state
    /\ Done(p)
    /\ UNCHANGED <<failures, locked, expired, issued, wrong, guesses, total, alerted, faults>>

-----------------------------------------------------------------------------
(* LoginVerifyOTP                                                          *)

\* GetOTPByCorrelation finds the row unconsumed and it has not expired.
FindChallenge(p, c, pc) ==
    /\ req[p].pc = "idle"
    /\ state[c] = "open" /\ c \notin expired
    /\ req' = [req EXCEPT ![p].pc = pc, ![p].ch = c]

\* The code that came with the challenge is the one that was mailed.
RightCode(p, c) ==
    /\ FindChallenge(p, c, "consume")
    /\ UNCHANGED <<failures, locked, state, expired, issued, wrong, guesses, total, alerted, faults>>

\* It is another one.
WrongCode(p, c) ==
    /\ FindChallenge(p, c, "burn")
    /\ wrong[c] < MaxCodes
    /\ wrong' = [wrong EXCEPT ![c] = @ + 1]
    /\ UNCHANGED <<failures, locked, state, expired, issued, guesses, total, alerted, faults>>

BurnOnlyCounts(p) ==
    /\ req[p].pc = "burn"
    /\ Done(p)
    /\ UNCHANGED <<failures, locked, state, expired, issued, wrong, guesses, total, alerted, faults>>

\* IncrementOTPAttempt and ConsumeOTP, whose errors are ignored; the client
\* is told that the code is wrong.
Burn(p) ==
    /\ req[p].pc = "burn"
    /\ Done(p)
    /\ \/ state' = [state EXCEPT ![req[p].ch] = "consumed"] /\ UNCHANGED faults
       \/ Fault /\ UNCHANGED state
    /\ UNCHANGED <<failures, locked, expired, issued, wrong, guesses, total, alerted>>

\* UPDATE ... WHERE id = ? AND consumed_at IS NULL affects a row.
Consumable(c) == state[c] = "open"

ConsumeOTP(p) ==
    /\ req[p].pc = "consume"
    /\ \/ /\ Consumable(req[p].ch)
          /\ state' = [state EXCEPT ![req[p].ch] = "consumed"]
          /\ Goto(p, "issue") /\ UNCHANGED faults
       \/ ~Consumable(req[p].ch) /\ Done(p) /\ UNCHANGED <<state, faults>>
       \/ Fault /\ Done(p) /\ UNCHANGED state
    /\ UNCHANGED <<failures, locked, expired, issued, wrong, guesses, total, alerted>>

\* The account is read and a token pair is issued; or one of the two fails,
\* and the challenge is lost.
Issue(p) ==
    /\ req[p].pc = "issue"
    /\ Done(p)
    /\ \/ issued' = [issued EXCEPT ![req[p].ch] = @ + 1] /\ UNCHANGED faults
       \/ Fault /\ UNCHANGED issued
    /\ UNCHANGED <<failures, locked, state, expired, wrong, guesses, total, alerted>>

\* The process dies with the request, or the request's context is cancelled.
Abort(p) ==
    /\ req[p].pc # "idle"
    /\ Fault
    /\ Done(p)
    /\ UNCHANGED <<failures, locked, state, expired, issued, wrong, guesses, total, alerted>>

-----------------------------------------------------------------------------
(* Time                                                                    *)

Expire(c) ==
    /\ state[c] = "open" /\ c \notin expired
    /\ expired' = expired \cup {c}
    /\ UNCHANGED <<failures, locked, state, req, issued, wrong, guesses, total, alerted, faults>>

\* The lock ends: the guesses that led to it no longer count.
Unlock ==
    /\ locked
    /\ locked' = FALSE /\ guesses' = 0
    /\ UNCHANGED <<failures, state, expired, req, issued, wrong, total, alerted, faults>>

\* The oldest failure, and with it the guess it records, leaves the window.
Age ==
    /\ failures > 0
    /\ failures' = failures - 1
    /\ guesses' = IF guesses = 0 THEN 0 ELSE guesses - 1
    /\ UNCHANGED <<locked, state, expired, req, issued, wrong, total, alerted, faults>>

-----------------------------------------------------------------------------

Next ==
    \/ \E p \in Requests :
           \/ WrongPassword(p) \/ InsertFailedLogin(p) \/ CountFailedLogins(p)
           \/ SetLockedUntil(p) \/ RightPassword(p) \/ CreateChallenge(p)
           \/ \E c \in Challenges : RightCode(p, c) \/ WrongCode(p, c)
           \/ Burn(p) \/ ConsumeOTP(p) \/ Issue(p) \/ Abort(p)
    \/ \E c \in Challenges : Expire(c)
    \/ Unlock \/ Age

Spec == Init /\ [][Next]_vars

-----------------------------------------------------------------------------
(* Properties                                                              *)

\* The values of the columns and of the requests' local variables.
TypeOK ==
    /\ failures \in Nat /\ locked \in BOOLEAN
    /\ state \in [Challenges -> {"none", "open", "consumed"}]
    /\ expired \subseteq Challenges
    /\ req \in [Requests -> Request]
    /\ issued \in [Challenges -> Nat] /\ wrong \in [Challenges -> Nat]
    /\ guesses \in Nat /\ total \in 0..MaxGuesses
    /\ alerted \in BOOLEAN /\ faults \in 0..MaxFaults

\* A login challenge completes at most one sign-in, although the row is read,
\* consumed and acted on in separate statements.
SingleUse == \A c \in Challenges : issued[c] <= 1

\* "Single attempt: a wrong code burns the challenge [...] (no OTP brute-forcing
\* within the TTL)" (auth.go:235): the codes that can be tried against one
\* challenge are bounded.  Requests that found it open before the first of them
\* burns it are not stopped, and each failure of a statement, which the code
\* ignores, leaves the challenge open for one more.
CodesBounded == \A c \in Challenges : wrong[c] <= Cardinality(Requests) + faults

\* The lock-out bounds the passwords that are evaluated in a window: at most
\* LoginFailMax - 1 complete without a lock, and the requests that passed
\* the check of locked_until before the lock was set come on top.
GuessesBounded ==
    guesses <= (LoginFailMax - 1) + Cardinality(Requests) + faults

\* "email a security alert at this many fails" (.env.example:55): when no
\* attempt is being recorded and the threshold has been reached, the alert
\* has been mailed.
AlertSent ==
    /\ NotifyOnFailThreshold > 0
    /\ failures >= NotifyOnFailThreshold
    /\ \A p \in Requests : req[p].pc \notin {"insert", "count", "lock"}
    => alerted
=============================================================================
