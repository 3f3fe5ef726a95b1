----------------------------- MODULE ResetCodes -----------------------------
(***************************************************************************)
(* Password-reset codes of one account: processPasswordReset and           *)
(* ResetPasswordWithOTP (internal/service/auth.go) over the reset          *)
(* transactions of internal/repository/otp.go.                             *)
(*                                                                         *)
(* Each of the three transactions (reserve, activate, complete) takes the  *)
(* row lock of the user first, so each is one action.  What interleaves is *)
(* everything around them: several mail jobs, each between its             *)
(* reservation, its SMTP exchange and its activation, and the requests     *)
(* that complete a reset.                                                  *)
(*                                                                         *)
(* A challenge is named by its place in the order (created_at, id), which  *)
(* issuance keeps strict; its number also stands for the code mailed.      *)
(***************************************************************************)
EXTENDS Naturals

CONSTANTS
    Jobs,           \* mail jobs in flight, over all workers and replicas
    Resets,         \* completion requests in flight
    MaxAttempts,    \* cfg.OTPMaxAttempts
    Tries,          \* activation attempts of one job
    Throttled,      \* cfg.OTPResetMinInterval > 0
    MaxResetCodes,  \* bound: challenges issued in a behaviour
    MaxResetFaults, \* bound: activation transactions that report an error
    MaxCrashes      \* bound: jobs and requests that end in the middle

ASSUME AttemptsAssumption == MaxAttempts \in Nat \ {0}
ASSUME TriesAssumption == Tries \in Nat \ {0}
ASSUME ThrottledAssumption == Throttled \in BOOLEAN
ASSUME CodeBoundsAssumption ==
    MaxResetCodes \in Nat /\ MaxResetFaults \in Nat /\ MaxCrashes \in Nat

VARIABLES
    banned,     \* users.banned_at IS NOT NULL
    codes,      \* email_otp_challenges of purpose password_reset
    lastCode,   \* the newest challenge
    cooling,    \* the newest challenge is too young for another one
    mailJob,    \* the mail jobs and their local variables
    reset,      \* the completion requests and the code they present
    inbox,      \* codes that the SMTP server accepted
    usedCode,   \* history: the challenge that completed the latest reset
    resetFaults, \* errors so far
    crashes     \* crashes and expired deadlines so far

resetVars == <<banned, codes, lastCode, cooling, mailJob, reset, inbox, usedCode, resetFaults, crashes>>

CodeNumbers == 1..MaxResetCodes

Challenge == [state : {"none", "pending", "active"}, consumed : BOOLEAN,
              expired : BOOLEAN, attempts : 0..MaxAttempts]

FreshChallenge(s) == [state |-> s, consumed |-> FALSE, expired |-> FALSE, attempts |-> 0]

NoChallenge == FreshChallenge("none")

\* late: the clock had passed expires_at of the code when it was read, which
\* is before the transaction waits for the user lock.
Job == [pc : {"idle", "reserve", "send", "activate"}, code : 0..MaxResetCodes,
        tries : 0..Tries, late : BOOLEAN]

IdleJob == [pc |-> "idle", code |-> 0, tries |-> 0, late |-> FALSE]

\* Code 0 is a code that was never issued.
Reset == [pc : {"idle", "complete"}, code : 0..MaxResetCodes, late : SUBSET CodeNumbers]

IdleReset == [pc |-> "idle", code |-> 0, late |-> {}]

ResetInit ==
    /\ banned = FALSE
    /\ codes = [c \in CodeNumbers |-> NoChallenge]
    /\ lastCode = 0
    /\ cooling = FALSE
    /\ mailJob = [j \in Jobs |-> IdleJob]
    /\ reset = [p \in Resets |-> IdleReset]
    /\ inbox = {}
    /\ usedCode = 0
    /\ resetFaults = 0
    /\ crashes = 0

\* A code that CompletePasswordResetOTP may find.
Usable(c) == codes[c].state = "active" /\ ~codes[c].consumed

Consume(c) == [codes[c] EXCEPT !.consumed = TRUE]

-----------------------------------------------------------------------------
(* processPasswordReset                                                    *)

\* GetHumanUserByLoginOrEmail finds an account that may reset.
JobStart(j) ==
    /\ mailJob[j].pc = "idle"
    /\ ~banned
    /\ mailJob' = [mailJob EXCEPT ![j].pc = "reserve"]
    /\ UNCHANGED <<banned, codes, lastCode, cooling, reset, inbox, usedCode, resetFaults, crashes>>

ReservedActive(c) == FreshChallenge("active")

Reserved(c) == FreshChallenge("pending")

CarriesPrevious(c) == [pc |-> "send", code |-> c - 1, tries |-> 0, late |-> FALSE]

Carries(c) == [pc |-> "send", code |-> c, tries |-> 0, late |-> FALSE]

\* ReservePasswordResetOTP: throttled by the newest challenge, used or not.
Reserve(j) ==
    /\ mailJob[j].pc = "reserve"
    /\ IF Throttled /\ cooling
       THEN /\ mailJob' = [mailJob EXCEPT ![j] = IdleJob]
            /\ UNCHANGED <<codes, lastCode, cooling>>
       ELSE /\ lastCode < MaxResetCodes
            /\ lastCode' = lastCode + 1
            /\ codes' = [codes EXCEPT ![lastCode + 1] = Reserved(lastCode + 1)]
            /\ cooling' = Throttled
            /\ mailJob' = [mailJob EXCEPT ![j] = Carries(lastCode + 1)]
    /\ UNCHANGED <<banned, reset, inbox, usedCode, resetFaults, crashes>>

Attempt(c, n) ==
    [pc |-> "activate", code |-> c, tries |-> n, late |-> codes[c].expired]

\* The SMTP exchange ends with acceptance, reported as a success.
SendAccepted(j) ==
    /\ mailJob[j].pc = "send"
    /\ inbox' = inbox \cup {mailJob[j].code}
    /\ mailJob' = [mailJob EXCEPT ![j] = Attempt(mailJob[j].code, Tries)]
    /\ UNCHANGED <<banned, codes, lastCode, cooling, reset, usedCode, resetFaults, crashes>>

\* It fails; the last reply may have been lost after the server accepted.
SendFailed(j) ==
    /\ mailJob[j].pc = "send"
    /\ inbox' \in {inbox, inbox \cup {mailJob[j].code}}
    /\ mailJob' = [mailJob EXCEPT ![j] = IdleJob]
    /\ UNCHANGED <<banned, codes, lastCode, cooling, reset, usedCode, resetFaults, crashes>>

NewerActive(c) == \E d \in CodeNumbers : d > c /\ Usable(d)

ActivatedAlone(c) == [codes EXCEPT ![c].state = "active"]

\* Older challenges are consumed, delivered or not, and c becomes usable.
Activated(c) ==
    [d \in CodeNumbers |->
        IF d = c THEN [codes[d] EXCEPT !.state = "active"]
        ELSE IF d < c THEN Consume(d) ELSE codes[d]]

\* The transaction of ActivatePasswordResetOTP.
Activate(c, late) ==
    codes' = IF codes[c].consumed \/ late \/ codes[c].state = "active"
             THEN codes
             ELSE IF NewerActive(c)
             THEN [codes EXCEPT ![c] = Consume(c)]
             ELSE Activated(c)

ActivateDone(j) ==
    /\ mailJob[j].pc = "activate"
    /\ Activate(mailJob[j].code, mailJob[j].late)
    /\ mailJob' = [mailJob EXCEPT ![j] = IdleJob]
    /\ UNCHANGED <<banned, lastCode, cooling, reset, inbox, usedCode, resetFaults, crashes>>

RetryCountsUp(r) == Attempt(r.code, r.tries + 1)

RetryNever(r) == IdleJob

Retry(r) == IF r.tries = 1 THEN IdleJob ELSE Attempt(r.code, r.tries - 1)

\* An error is reported, whether the transaction committed or not; the job
\* tries again while it has attempts left.
ActivateError(j) ==
    /\ mailJob[j].pc = "activate"
    /\ resetFaults < MaxResetFaults
    /\ resetFaults' = resetFaults + 1
    /\ Activate(mailJob[j].code, mailJob[j].late) \/ UNCHANGED codes
    /\ mailJob' = [mailJob EXCEPT ![j] = Retry(mailJob[j])]
    /\ UNCHANGED <<banned, lastCode, cooling, reset, inbox, usedCode, crashes>>

\* The process dies, a deadline passes or the reservation reports an error.
JobCrash(j) ==
    /\ mailJob[j].pc # "idle"
    /\ crashes < MaxCrashes
    /\ crashes' = crashes + 1
    /\ mailJob' = [mailJob EXCEPT ![j] = IdleJob]
    /\ UNCHANGED <<banned, codes, lastCode, cooling, reset, inbox, usedCode, resetFaults>>

-----------------------------------------------------------------------------
(* ResetPasswordWithOTP                                                    *)

\* The account is read, without its lock.
ResetStart(p, c) ==
    /\ reset[p].pc = "idle"
    /\ ~banned
    /\ reset' = [reset EXCEPT ![p] =
           [pc |-> "complete", code |-> c, late |-> {d \in CodeNumbers : codes[d].expired}]]
    /\ UNCHANGED <<banned, codes, lastCode, cooling, mailJob, inbox, usedCode, resetFaults, crashes>>

\* The newest usable challenge.
Current(c) == Usable(c) /\ \A d \in CodeNumbers : Usable(d) => d <= c

CompleteKeepsCode(c) == codes

CompleteCode(c) == [codes EXCEPT ![c] = Consume(c)]

MissNeverConsumes(c) == [codes EXCEPT ![c].attempts = codes[c].attempts + 1]

\* A wrong code counts, and the last one allowed consumes the challenge.
Miss(c) ==
    [codes EXCEPT ![c].attempts = codes[c].attempts + 1,
                  ![c].consumed = codes[c].attempts + 1 >= MaxAttempts]

\* The transaction of CompletePasswordResetOTP and the end of the request.
Complete(p) ==
    /\ reset[p].pc = "complete"
    /\ \/ /\ \A c \in CodeNumbers : ~Usable(c)
          /\ UNCHANGED <<codes, usedCode>>
       \/ \E c \in CodeNumbers :
            /\ Current(c)
            /\ \/ /\ c \in reset[p].late \/ codes[c].attempts >= MaxAttempts
                  /\ codes' = [codes EXCEPT ![c] = Consume(c)]
                  /\ UNCHANGED usedCode
               \/ /\ c \notin reset[p].late /\ codes[c].attempts < MaxAttempts
                  /\ \/ /\ reset[p].code = c
                        /\ codes' = CompleteCode(c)
                        /\ usedCode' = c
                     \/ /\ reset[p].code # c
                        /\ codes' = Miss(c)
                        /\ UNCHANGED usedCode
    /\ reset' = [reset EXCEPT ![p] = IdleReset]
    /\ UNCHANGED <<banned, lastCode, cooling, mailJob, inbox, resetFaults, crashes>>

\* The new password is refused by the policy, the transaction fails, or the
\* process dies: everything is rolled back.
ResetAbort(p) ==
    /\ reset[p].pc = "complete"
    /\ reset' = [reset EXCEPT ![p] = IdleReset]
    /\ UNCHANGED <<banned, codes, lastCode, cooling, mailJob, inbox, usedCode, resetFaults, crashes>>

-----------------------------------------------------------------------------
(* Time and bans                                                           *)

Expire(c) ==
    /\ codes[c].state # "none"
    /\ ~codes[c].expired
    /\ codes' = [codes EXCEPT ![c].expired = TRUE]
    /\ UNCHANGED <<banned, lastCode, cooling, mailJob, reset, inbox, usedCode, resetFaults, crashes>>

CoolDown ==
    /\ cooling
    /\ cooling' = FALSE
    /\ UNCHANGED <<banned, codes, lastCode, mailJob, reset, inbox, usedCode, resetFaults, crashes>>

SetBan ==
    /\ banned' = ~banned
    /\ UNCHANGED <<codes, lastCode, cooling, mailJob, reset, inbox, usedCode, resetFaults, crashes>>

JobStep(j) ==
    Reserve(j) \/ SendAccepted(j) \/ SendFailed(j) \/ ActivateDone(j) \/ ActivateError(j)

ResetNext ==
    \/ \E j \in Jobs : JobStart(j) \/ JobStep(j) \/ JobCrash(j)
    \/ \E p \in Resets :
         (\E c \in 0..lastCode : ResetStart(p, c)) \/ Complete(p) \/ ResetAbort(p)
    \/ \E c \in CodeNumbers : Expire(c)
    \/ CoolDown
    \/ SetBan

ResetSpec == ResetInit /\ [][ResetNext]_resetVars

\* The worker goroutine of a job keeps running.
ResetFairSpec == ResetSpec /\ \A j \in Jobs : WF_resetVars(JobStep(j))
-----------------------------------------------------------------------------
(* Properties                                                              *)

\* The values of the columns and of the local variables.
ResetTypeOK ==
    /\ banned \in BOOLEAN
    /\ codes \in [CodeNumbers -> Challenge]
    /\ lastCode \in 0..MaxResetCodes
    /\ cooling \in BOOLEAN
    /\ mailJob \in [Jobs -> Job]
    /\ reset \in [Resets -> Reset]
    /\ inbox \subseteq 1..lastCode
    /\ usedCode \in 0..lastCode
    /\ resetFaults \in 0..MaxResetFaults
    /\ crashes \in 0..MaxCrashes

\* Activation supersedes: once a code has become active, every code issued
\* before it is consumed, whatever the order in which the mail jobs finish.
\* In particular no two codes are usable at once, so that no activation meets
\* the unique index email_otp_one_active_password_reset.
ActiveSupersedes ==
    \A c, d \in CodeNumbers : c < d /\ codes[d].state = "active" => codes[c].consumed

\* A code that can complete a reset was accepted by the SMTP server (the
\* promise of ReservePasswordResetOTP and of README "Reset codes remain
\* pending until SMTP accepts the message").
UsableWereDelivered == \A c \in CodeNumbers : codes[c].state = "active" => c \in inbox

JobOK(j) ==
    /\ mailJob[j].pc \in {"send", "activate"} => mailJob[j].code \in 1..lastCode
    /\ mailJob[j].pc = "activate" => mailJob[j].code \in inbox /\ mailJob[j].tries > 0

\* What a job relies on between its steps: the challenge it carries exists,
\* no other job carries it, and it is activated only after its acceptance.
JobsOwnTheirCode ==
    /\ \A j \in Jobs : JobOK(j)
    /\ \A i, j \in Jobs :
         mailJob[i].pc \in {"send", "activate"} /\ mailJob[j].pc \in {"send", "activate"}
             /\ mailJob[i].code = mailJob[j].code => i = j
    /\ \A c \in CodeNumbers : codes[c].state # "none" <=> c <= lastCode

\* At most MaxAttempts wrong codes are compared with a challenge: the one that
\* reaches the limit consumes it in the same transaction.
GuessesBounded ==
    \A c \in CodeNumbers : codes[c].attempts > 0 =>
        /\ codes[c].state = "active"
        /\ codes[c].attempts < MaxAttempts \/ codes[c].consumed

\* The code that completed a reset, and every code issued before it, is
\* consumed: a code completes at most one reset, and a code from an older mail
\* never overwrites the password that a newer one has set.
SpentStaySpent == \A c \in CodeNumbers : c <= usedCode => codes[c].consumed

\* The inductive invariant.
ResetInv ==
    /\ ResetTypeOK
    /\ ActiveSupersedes
    /\ UsableWereDelivered
    /\ JobsOwnTheirCode
    /\ GuessesBounded
    /\ SpentStaySpent

\* A job that has its code delivered makes it usable, unless the code has
\* expired, was superseded or was used by then, or a process died: the
\* retries of the activation outlast the errors that occur.
DeliveredBecomeUsable ==
    \A j \in Jobs, c \in CodeNumbers :
        mailJob[j].pc = "activate" /\ mailJob[j].code = c
            ~> codes[c].state = "active" \/ codes[c].consumed \/ codes[c].expired
               \/ crashes > 0

\* otp.go:171 on ActivatePasswordResetOTP: "makes a delivered reservation
\* usable only when it is still the newest reset challenge for that user".
OnlyNewestActivates ==
    [][\A c \in CodeNumbers : ~Usable(c) /\ Usable(c)' => c = lastCode]_resetVars
=============================================================================
