----------------------------- MODULE EmailCodes -----------------------------
(***************************************************************************)
(* What one account can do with what it is mailed: login challenges,       *)
(* step-up confirmations and session-revoke codes, which share the table   *)
(* email_otp_challenges, and magic links (internal/service/auth.go,        *)
(* magic_link.go; internal/repository/otp.go, step_up_2fa.go,              *)
(* magic_link.go).                                                         *)
(*                                                                         *)
(* None of the operations is a transaction: a request interleaves with the *)
(* others at every SQL statement, and may stop after any of them.  Codes   *)
(* are numbered in the order of created_at, and a step-up session has the  *)
(* number of the code that is mailed for its correlation id.  A wrong code *)
(* consumes a login challenge, and otherwise only increments               *)
(* attempt_count, which none of these purposes reads.                      *)
(***************************************************************************)
EXTENDS Naturals, FiniteSets, Sequences

CONSTANTS
    Requests,       \* requests in flight
    MaxCodes,       \* bound: rows of email_otp_challenges
    MaxLinks,       \* bound: rows of magic_link_tokens, and jobs that mail them
    MaxFaults       \* bound: statements that fail

ASSUME CodesRequestsAssumption == IsFiniteSet(Requests)
ASSUME CodesBoundsAssumption == MaxCodes \in Nat /\ MaxLinks \in Nat /\ MaxFaults \in Nat

VARIABLES
    code,       \* the rows of email_otp_challenges: purpose and state
    expired,    \* codes past expires_at
    step,       \* grpc_two_fa_sessions: the status of each step-up session
    past,       \* step-up sessions past expires_at
    link,       \* magic_link_tokens: "none", "live" or "used"
    job,        \* the mail job of each link; cut: it ran out of time or crashed
    req,        \* the requests and their local variables
    effects,    \* history: what each code has brought about
    signins,    \* history: sign-ins completed with each link
    faults      \* statements that have failed

vars == <<code, expired, step, past, link, job, req, effects, signins, faults>>

Codes == 1..MaxCodes
Links == 1..MaxLinks
Purposes == {"login", "step_up_2fa", "session_revoke"}
CleanupAttempts == 3

Code == [purpose : Purposes \cup {"none"}, open : BOOLEAN]
NoCode == [purpose |-> "none", open |-> FALSE]

\* for: what the request will do with the code once it has consumed it; nothing, if
\* the code it presents is wrong
Request == [pc : {"idle", "mail", "consume", "apply", "expire", "user"},
            for : Purposes \cup {"none"}, n : 0..(MaxCodes + MaxLinks)]
Idle == [pc |-> "idle", for |-> "none", n |-> 0]

Init ==
    /\ code = [c \in Codes |-> NoCode]
    /\ expired = {} /\ past = {}
    /\ step = [c \in Codes |-> "none"]
    /\ link = [l \in Links |-> "none"]
    /\ job = [l \in Links |-> [pc |-> "waiting", tries |-> 0, cut |-> FALSE]]
    /\ req = [p \in Requests |-> Idle]
    /\ effects = [c \in Codes |-> <<>>]
    /\ signins = [l \in Links |-> 0]
    /\ faults = 0

Done(p) == req' = [req EXCEPT ![p] = Idle]
Goto(p, pc) == req' = [req EXCEPT ![p].pc = pc]

\* The next free row.
Fresh(c) ==
    /\ code[c] = NoCode /\ step[c] = "none"
    /\ \A d \in Codes : d < c => code[d] # NoCode \/ step[d] # "none"

\* CreateEmailOTP
CreateEmailOTP(c, purpose) == code' = [code EXCEPT ![c] = [purpose |-> purpose, open |-> TRUE]]

-----------------------------------------------------------------------------
(* Codes are created                                                       *)

\* The password step of a login and StartSessionRevokeOTP: one row, whose
\* code is mailed.
StartWithCode(c, purpose) ==
    /\ purpose \in {"login", "session_revoke"}
    /\ Fresh(c)
    /\ CreateEmailOTP(c, purpose)
    /\ UNCHANGED <<expired, step, past, link, job, req, effects, signins, faults>>

\* BeginStepUp2FA: the session first, then its code.
CreateStepUp2FASession(p, c) ==
    /\ req[p].pc = "idle"
    /\ Fresh(c)
    /\ step' = [step EXCEPT ![c] = "pending"]
    /\ req' = [req EXCEPT ![p] = [pc |-> "mail", for |-> "step_up_2fa", n |-> c]]
    /\ UNCHANGED <<code, expired, past, link, job, effects, signins, faults>>

MailStepUpCode(p) ==
    /\ req[p].pc = "mail"
    /\ CreateEmailOTP(req[p].n, "step_up_2fa")
    /\ Done(p)
    /\ UNCHANGED <<expired, step, past, link, job, effects, signins, faults>>

-----------------------------------------------------------------------------
(* Codes are presented                                                     *)

Readable(c) == code[c].open /\ c \notin expired

Correlated(c) == code[c].purpose \in {"login", "step_up_2fa"}

Present(p, c, purpose) ==
    /\ req[p].pc = "idle"
    /\ Readable(c)
    /\ req' = [req EXCEPT ![p] = [pc |-> "consume", for |-> purpose, n |-> c]]
    /\ UNCHANGED <<code, expired, step, past, link, job, effects, signins, faults>>

\* CompleteStepUp2FAOTP: GetOTPByCorrelation returns a row of any purpose.
CompleteStepUp2FAOTP(p, c) == Correlated(c) /\ Present(p, c, "step_up_2fa")

VerifyAnyPurpose(p, c) == Correlated(c) /\ Present(p, c, "login")

\* LoginVerifyOTP: the row must be a login challenge; a wrong code burns it.
LoginVerifyOTP(p, c) == code[c].purpose = "login" /\ \E for \in {"login", "none"} : Present(p, c, for)

\* GetLatestOTP: the newest code of the purpose that is not consumed.
Latest(c, purpose) ==
    /\ code[c].purpose = purpose /\ code[c].open
    /\ \A d \in Codes : code[d].purpose = purpose /\ code[d].open => d <= c

\* RevokeSessionWithOTP
RevokeSessionWithOTP(p, c) == Latest(c, "session_revoke") /\ Present(p, c, "session_revoke")

\* ConsumeOTP updates the row only while it is not consumed; the request goes
\* on only if it did.
ConsumeOTP(p) ==
    /\ req[p].pc = "consume"
    /\ code[req[p].n].open
    /\ code' = [code EXCEPT ![req[p].n].open = FALSE]
    /\ Goto(p, "apply")
    /\ UNCHANGED <<expired, step, past, link, job, effects, signins, faults>>

Effect(p) == effects' = [effects EXCEPT ![req[p].n] = Append(@, req[p].for)]

\* The login is completed, or the session revoked.
Apply(p) ==
    /\ req[p].pc = "apply"
    /\ req[p].for \in {"login", "session_revoke"}
    /\ Effect(p)
    /\ Done(p)
    /\ UNCHANGED <<code, expired, step, past, link, job, signins, faults>>

ApproveAny(p) ==
    /\ req[p].pc = "apply" /\ req[p].for = "step_up_2fa"
    /\ step' = [step EXCEPT ![req[p].n] = "approved"]
    /\ Effect(p)
    /\ Done(p)
    /\ UNCHANGED <<code, expired, past, link, job, signins, faults>>

\* ApproveStepUp2FA: only a pending session is approved.
ApproveStepUp2FA(p) ==
    /\ req[p].pc = "apply" /\ req[p].for = "step_up_2fa"
    /\ step[req[p].n] = "pending"
    /\ step' = [step EXCEPT ![req[p].n] = "approved"]
    /\ Effect(p)
    /\ Done(p)
    /\ UNCHANGED <<code, expired, past, link, job, signins, faults>>

-----------------------------------------------------------------------------
(* Step-up sessions end                                                    *)

Resolve(p, c) ==
    /\ req[p].pc = "idle"
    /\ req' = [req EXCEPT ![p] = [pc |-> "expire", for |-> "step_up_2fa", n |-> c]]
    /\ UNCHANGED <<code, expired, step, past, link, job, effects, signins, faults>>

\* StepUp2FAStatusForUser reads a session that is pending past its expiry, and
\* answers "expired"; every other status is answered as it is.
StepUp2FAStatusForUser(p, c) == step[c] = "pending" /\ c \in past /\ Resolve(p, c)

\* ExpireStepUp2FASessionForUser
ExpireStepUp2FASessionForUser(p, c) == step[c] # "none" /\ Resolve(p, c)

\* ExpireStepUp2FA: only a pending session is expired.
ExpireStepUp2FA(p) ==
    /\ req[p].pc = "expire"
    /\ step' = [step EXCEPT ![req[p].n] = IF @ = "pending" THEN "expired" ELSE @]
    /\ Done(p)
    /\ UNCHANGED <<code, expired, past, link, job, effects, signins, faults>>

CodeExpires(c) ==
    /\ code[c] # NoCode /\ c \notin expired
    /\ expired' = expired \cup {c}
    /\ UNCHANGED <<code, step, past, link, job, req, effects, signins, faults>>

\* The code of a step-up session expires no later than the session does.
StepUpExpires(c) ==
    /\ step[c] # "none" /\ c \notin past
    /\ past' = past \cup {c} /\ expired' = expired \cup {c}
    /\ UNCHANGED <<code, step, link, job, req, effects, signins, faults>>

-----------------------------------------------------------------------------
(* Magic links                                                             *)

\* processMagicLink stores the link before it mails it; or it stops earlier.
InsertMagicLink(l) ==
    /\ job[l].pc = "waiting"
    /\ \A m \in Links : m < l => job[m].pc # "waiting"
    /\ link' = [link EXCEPT ![l] = "live"]
    /\ job' = [job EXCEPT ![l].pc = "send"]
    /\ UNCHANGED <<code, expired, step, past, req, effects, signins, faults>>

\* The mail is accepted, or Send returns an error; the message may have been
\* delivered all the same.
SendLink(l) ==
    /\ job[l].pc = "send"
    /\ \E outcome \in {"sent", "cleanup"} : job' = [job EXCEPT ![l].pc = outcome]
    /\ UNCHANGED <<code, expired, step, past, link, req, effects, signins, faults>>

CleanupOnce(l) ==
    /\ job[l].pc = "cleanup"
    /\ job' = [job EXCEPT ![l] = [pc |-> "ended", tries |-> @.tries + 1, cut |-> FALSE]]
    /\ \/ link' = [link EXCEPT ![l] = "used"] /\ UNCHANGED faults
       \/ faults < MaxFaults /\ faults' = faults + 1 /\ UNCHANGED link
    /\ UNCHANGED <<code, expired, step, past, req, effects, signins>>

\* invalidateUndeliveredMagicLink: InvalidateMagicLink is tried up to three
\* times within its own two seconds.
InvalidateMagicLink(l) ==
    /\ job[l].pc = "cleanup"
    /\ \/ /\ link' = [link EXCEPT ![l] = "used"]
          /\ job' = [job EXCEPT ![l].pc = "ended"]
          /\ UNCHANGED faults
       \/ /\ faults < MaxFaults /\ faults' = faults + 1
          /\ \E timeout \in BOOLEAN :
                LET tries == job[l].tries + 1
                    last == timeout \/ tries = CleanupAttempts
                IN  job' = [job EXCEPT ![l] = [pc |-> IF last THEN "ended" ELSE "cleanup",
                                               tries |-> tries, cut |-> timeout]]
          /\ UNCHANGED link
    /\ UNCHANGED <<code, expired, step, past, req, effects, signins>>

\* The process stops: the jobs in progress are lost.
Crash(l) ==
    /\ job[l].pc \in {"send", "cleanup"}
    /\ job' = [job EXCEPT ![l].pc = "ended", ![l].cut = TRUE]
    /\ UNCHANGED <<code, expired, step, past, link, req, effects, signins, faults>>

LinkExpires(l) ==
    /\ link[l] = "live"
    /\ link' = [link EXCEPT ![l] = "past"]
    /\ UNCHANGED <<code, expired, step, past, job, req, effects, signins, faults>>

\* ConsumeMagicLink: the update that marks the link used finds it unused.
ConsumeMagicLink(p, l) ==
    /\ req[p].pc = "idle"
    /\ link[l] = "live"
    /\ link' = [link EXCEPT ![l] = "used"]
    /\ req' = [req EXCEPT ![p] = [pc |-> "user", for |-> "none", n |-> l]]
    /\ UNCHANGED <<code, expired, step, past, job, effects, signins, faults>>

\* CompleteMagicLink: the account is read, is active, and a session is issued.
CompleteMagicLink(p) ==
    /\ req[p].pc = "user"
    /\ signins' = [signins EXCEPT ![req[p].n] = @ + 1]
    /\ Done(p)
    /\ UNCHANGED <<code, expired, step, past, link, job, effects, faults>>

-----------------------------------------------------------------------------

\* A request stops after any statement: the statement failed, a guarded
\* update found no row, the account is banned, or the process ended.
Stop(p) ==
    /\ req[p].pc # "idle"
    /\ Done(p)
    /\ UNCHANGED <<code, expired, step, past, link, job, effects, signins, faults>>

Handler(p, c) ==
    \/ CompleteStepUp2FAOTP(p, c) \/ LoginVerifyOTP(p, c) \/ RevokeSessionWithOTP(p, c)
    \/ StepUp2FAStatusForUser(p, c) \/ ExpireStepUp2FASessionForUser(p, c)
    \/ CreateStepUp2FASession(p, c)

Statement(p) ==
    \/ MailStepUpCode(p) \/ ConsumeOTP(p) \/ Apply(p) \/ ApproveStepUp2FA(p)
    \/ ExpireStepUp2FA(p) \/ CompleteMagicLink(p) \/ Stop(p)

Next ==
    \/ \E c \in Codes : CodeExpires(c) \/ StepUpExpires(c)
    \/ \E c \in Codes, purpose \in Purposes : StartWithCode(c, purpose)
    \/ \E p \in Requests : Statement(p) \/ \E c \in Codes : Handler(p, c)
    \/ \E p \in Requests, l \in Links : ConsumeMagicLink(p, l)
    \/ \E l \in Links :
        \/ InsertMagicLink(l) \/ SendLink(l) \/ InvalidateMagicLink(l)
        \/ Crash(l) \/ LinkExpires(l)

Spec == Init /\ [][Next]_vars

-----------------------------------------------------------------------------
(* Properties                                                              *)

TypeOK ==
    /\ code \in [Codes -> Code]
    /\ expired \subseteq Codes /\ past \subseteq Codes
    /\ step \in [Codes -> {"none", "pending", "approved", "expired"}]
    /\ link \in [Links -> {"none", "live", "past", "used"}]
    /\ job \in [Links -> [pc : {"waiting", "send", "sent", "cleanup", "ended"},
                          tries : 0..CleanupAttempts, cut : BOOLEAN]]
    /\ req \in [Requests -> Request]
    /\ effects \in [Codes -> Seq(Purposes)]
    /\ signins \in [Links -> Nat]
    /\ faults \in 0..MaxFaults

\* However requests overlap, a mailed code or link brings about one thing,
\* once, and of the purpose it was mailed for: a login challenge signs in, a
\* step-up code approves its session, a revoke code revokes a session, a link
\* signs in (ConsumeOTP, ConsumeMagicLink and the purpose test of
\* LoginVerifyOTP; CompleteStepUp2FAOTP has none and relies on the session).
OneEffectPerCode ==
    /\ \A c \in Codes : effects[c] \in {<<>>, <<code[c].purpose>>}
    /\ \A l \in Links : signins[l] <= 1

\* A step-up session that is approved or expired keeps that status: a late
\* code does not approve an expired session and a late status poll does not
\* expire an approved one (ApproveStepUp2FA, ExpireStepUp2FA).
ResolvedStay ==
    [][\A c \in Codes : step[c] \in {"approved", "expired"} => step'[c] = step[c]]_vars

\* A link that SMTP refused, or that its job never got to send, is dead once
\* the job has ended, although up to two of the cleanup statements fail: it
\* stays alive until it expires only if all of CleanupAttempts failed, or if
\* the cleanup was cut off by its two seconds or by a crash
\* (invalidateUndeliveredMagicLink).
RefusedLinksDie ==
    \A l \in Links :
        job[l].pc = "ended" /\ link[l] = "live" => job[l].cut \/ job[l].tries = CleanupAttempts
=============================================================================
