-------------------------- MODULE PasswordHistory ---------------------------
(***************************************************************************)
(* The password of one account and its history: ChangePassword of          *)
(* internal/service/auth.go, a sequence of separate statements, beside     *)
(* ResetPasswordWithOTP, whose completion is one transaction.              *)
(*                                                                         *)
(* Passwords are model values; Close says which of them are within a       *)
(* Levenshtein distance of two.  The codes that authorise a change are     *)
(* numbered in the order of their creation; those that authorise a reset   *)
(* are the subject of module ResetCodes, and any reset may succeed here.   *)
(***************************************************************************)
EXTENDS Naturals, Sequences, FiniteSets

CONSTANTS
    Requests,           \* requests in flight
    Passwords,          \* passwords that satisfy the complexity rules
    Close,              \* pairs of passwords that are too similar
    Registered,         \* the password given at registration
    PasswordHistoryN,   \* cfg.PasswordHistoryN
    MaxCodes,           \* bound: codes mailed for a password change
    MaxSets,            \* bound: passwords set in a behaviour
    MaxClock,           \* bound: readings of the clock by resets
    MaxFaults           \* bound: requests that fail or die half-way

ASSUME InFlightAssumption == IsFiniteSet(Requests)
ASSUME PasswordsAssumption ==
    Registered \in Passwords /\ Close \subseteq Passwords \X Passwords
ASSUME HistoryAssumption == PasswordHistoryN \in Nat \ {0}
ASSUME PasswordBoundsAssumption ==
    MaxCodes \in Nat /\ MaxSets \in Nat /\ MaxClock \in Nat /\ MaxFaults \in Nat

VARIABLES
    password,   \* users.password_hash
    rows,       \* password_history: a password and its created_at
    clock,      \* the time, advanced by every reading of it
    codes,      \* the password-change codes of email_otp_challenges
    req,        \* the requests and their local variables
    changed,    \* history: password changes made with each code
    sets,       \* history: the passwords the account has had, in order
    serial,     \* history: no two requests have overlapped
    faults

vars == <<password, rows, clock, codes, req, changed, sets, serial, faults>>

Codes == 1..MaxCodes

Request == [pc : {"idle", "otp", "consume", "validate", "update", "insert", "trim", "reset"},
            new : Passwords, code : 0..MaxCodes, at : Nat]

Idle == [pc |-> "idle", new |-> Registered, code |-> 0, at |-> 0]

Init ==
    /\ password = Registered
    /\ rows = {[pw |-> Registered, at |-> 0]}
    /\ clock = 1
    /\ codes = [c \in Codes |-> "none"]
    /\ req = [p \in Requests |-> Idle]
    /\ changed = [c \in Codes |-> 0]
    /\ sets = <<Registered>>
    /\ serial = TRUE
    /\ faults = 0

Goto(p, pc) == req' = [req EXCEPT ![p].pc = pc]
Done(p) == req' = [req EXCEPT ![p] = Idle]

\* ORDER BY created_at DESC LIMIT n
Newest(n) == {r \in rows : Cardinality({s \in rows : s.at > r.at}) < n}

\* validatePasswordHistory: not equal and not too similar to an entry.
Acceptable(new, entries) ==
    \A r \in entries : r.pw # new /\ <<new, r.pw>> \notin Close

Alone == \A q \in Requests : req[q].pc = "idle"

\* The bound on the passwords set, those about to be set included.
MaySet == Len(sets) + Cardinality({q \in Requests : req[q].pc = "update"}) <= MaxSets

-----------------------------------------------------------------------------
(* StartPasswordChange2FA and ChangePassword                               *)

StartsReserved ==
    /\ \E c \in Codes : codes[c] = "none" /\ codes' = [codes EXCEPT ![c] = "reserved"]
    /\ UNCHANGED <<password, rows, clock, req, changed, sets, serial, faults>>

StartPasswordChange2FA ==
    /\ \E c \in Codes :
         /\ codes[c] = "none"
         /\ \A d \in Codes : d < c => codes[d] # "none"
         /\ codes' = [codes EXCEPT ![c] = "open"]
    /\ UNCHANGED <<password, rows, clock, req, changed, sets, serial, faults>>

\* The account is read and the old password matches.
ChangePassword(p, new) ==
    /\ req[p].pc = "idle"
    /\ req' = [req EXCEPT ![p].pc = "otp", ![p].new = new]
    /\ serial' = (serial /\ Alone)
    /\ UNCHANGED <<password, rows, clock, codes, changed, sets, faults>>

\* GetLatestOTP: the newest unconsumed code, and it is the one given; or
\* there is none, it has expired or is another one, and the request ends.
ReadCode(p) ==
    /\ req[p].pc = "otp"
    /\ \/ \E c \in Codes :
            /\ codes[c] = "open"
            /\ \A d \in Codes : d > c => codes[d] # "open"
            /\ req' = [req EXCEPT ![p].pc = "consume", ![p].code = c]
       \/ Done(p)
    /\ UNCHANGED <<password, rows, clock, codes, changed, sets, serial, faults>>

ConsumableAlways(c) == TRUE

\* UPDATE ... WHERE id = ? AND consumed_at IS NULL affects a row.
Consumable(c) == codes[c] = "open"

ConsumeOTP(p) ==
    /\ req[p].pc = "consume"
    /\ \/ /\ Consumable(req[p].code)
          /\ codes' = [codes EXCEPT ![req[p].code] = "consumed"]
          /\ Goto(p, "validate")
       \/ ~Consumable(req[p].code) /\ Done(p) /\ UNCHANGED codes
    /\ UNCHANGED <<password, rows, clock, changed, sets, serial, faults>>

ValidatesTooFew(p) ==
    /\ req[p].pc = "validate"
    /\ \/ Acceptable(req[p].new, Newest(PasswordHistoryN - 1)) /\ MaySet /\ Goto(p, "update")
       \/ Done(p)
    /\ UNCHANGED <<password, rows, clock, codes, changed, sets, serial, faults>>

\* validateNewPassword with ListPasswordHistory, or the error of the password
\* policy or of a statement.
Validate(p) ==
    /\ req[p].pc = "validate"
    /\ \/ Acceptable(req[p].new, Newest(PasswordHistoryN)) /\ MaySet /\ Goto(p, "update")
       \/ Done(p)
    /\ UNCHANGED <<password, rows, clock, codes, changed, sets, serial, faults>>

UpdatePassword(p) ==
    /\ req[p].pc = "update"
    /\ password' = req[p].new
    /\ sets' = Append(sets, req[p].new)
    /\ changed' = [changed EXCEPT ![req[p].code] = @ + 1]
    /\ Goto(p, "insert")
    /\ UNCHANGED <<rows, clock, codes, serial, faults>>

InsertPasswordHistory(p) ==
    /\ req[p].pc = "insert"
    /\ rows' = rows \cup {[pw |-> req[p].new, at |-> clock]}
    /\ clock' = clock + 1
    /\ Goto(p, "trim")
    /\ UNCHANGED <<password, codes, changed, sets, serial, faults>>

TrimsOneRow(p) ==
    /\ req[p].pc = "trim"
    /\ rows' = Newest(PasswordHistoryN + 1)
    /\ Done(p)
    /\ UNCHANGED <<password, clock, codes, changed, sets, serial, faults>>

TrimPasswordHistory(p) ==
    /\ req[p].pc = "trim"
    /\ rows' = Newest(PasswordHistoryN)
    /\ Done(p)
    /\ UNCHANGED <<password, clock, codes, changed, sets, serial, faults>>

\* A statement fails and ChangePassword returns its error, or the process
\* dies: what has been written stays.
Abort(p) ==
    /\ req[p].pc # "idle"
    /\ faults < MaxFaults /\ faults' = faults + 1
    /\ Done(p)
    /\ UNCHANGED <<password, rows, clock, codes, changed, sets, serial>>

-----------------------------------------------------------------------------
(* ResetPasswordWithOTP                                                    *)

\* The time is read before the transaction begins.
ResetPassword(p, new) ==
    /\ req[p].pc = "idle"
    /\ clock < MaxClock
    /\ req' = [req EXCEPT ![p].pc = "reset", ![p].new = new, ![p].at = clock]
    /\ clock' = clock + 1
    /\ serial' = (serial /\ Alone)
    /\ UNCHANGED <<password, rows, codes, changed, sets, faults>>

\* CompletePasswordResetOTP: one transaction, or its refusal.
CompletePasswordReset(p) ==
    /\ req[p].pc = "reset"
    /\ \/ /\ Acceptable(req[p].new, Newest(PasswordHistoryN))
          /\ MaySet
          /\ password' = req[p].new
          /\ sets' = Append(sets, req[p].new)
          /\ LET added == rows \cup {[pw |-> req[p].new, at |-> req[p].at]}
             IN rows' = {r \in added :
                           Cardinality({s \in added : s.at > r.at}) < PasswordHistoryN}
       \/ UNCHANGED <<password, rows, sets>>
    /\ Done(p)
    /\ UNCHANGED <<clock, codes, changed, serial, faults>>

-----------------------------------------------------------------------------

Next ==
    \/ StartPasswordChange2FA
    \/ \E p \in Requests :
           \/ \E new \in Passwords : ChangePassword(p, new) \/ ResetPassword(p, new)
           \/ ReadCode(p) \/ ConsumeOTP(p) \/ Validate(p) \/ UpdatePassword(p)
           \/ InsertPasswordHistory(p) \/ TrimPasswordHistory(p)
           \/ CompletePasswordReset(p) \/ Abort(p)

Spec == Init /\ [][Next]_vars

-----------------------------------------------------------------------------
(* Properties                                                              *)

\* The values of the columns and of the requests' local variables.
TypeOK ==
    /\ password \in Passwords
    /\ \A r \in rows : r \in [pw : Passwords, at : Nat]
    /\ clock \in Nat
    /\ codes \in [Codes -> {"none", "open", "consumed"}]
    /\ req \in [Requests -> Request]
    /\ changed \in [Codes -> Nat]
    /\ sets \in Seq(Passwords) /\ serial \in BOOLEAN
    /\ faults \in 0..MaxFaults

\* "reject reuse of the last N passwords" (.env.example:34; README.md:313):
\* no password equals or resembles one of the N that the account had before.
NoReuse ==
    \A j \in 1..Len(sets) : \A i \in 1..(j - 1) :
        j - i <= PasswordHistoryN => /\ sets[i] # sets[j]
                                     /\ <<sets[j], sets[i]>> \notin Close

\* The same of changes and resets that follow each other and complete.
SerialNoReuse == serial /\ faults = 0 => NoReuse

\* A code authorises at most one password change, although it is read,
\* consumed and acted on in separate statements.
OneChangePerCode == \A c \in Codes : changed[c] <= 1

\* The history holds at most N entries, and one more for every change that
\* has inserted and not trimmed yet, or failed in between.
HistoryBounded ==
    Cardinality(rows) <=
        PasswordHistoryN + Cardinality({p \in Requests : req[p].pc = "trim"}) + faults
=============================================================================
