---------------------------- MODULE CodesProofs -----------------------------
(***************************************************************************)
(* The safety properties of EmailCodes hold for any number of requests,    *)
(* codes and links, and for any number of failing statements; those of     *)
(* ResetCodes, in the second half, for any number of mail jobs, resets,    *)
(* codes and attempts.                                                     *)
(***************************************************************************)
EXTENDS EmailCodes, ResetCodes, TLAPS

\* A code that has had its effect is consumed, and only a step-up code has a
\* step-up session.
CodeOK(c) ==
    /\ code[c].purpose = "none" => ~code[c].open /\ effects[c] = <<>>
    /\ effects[c] \in {<<>>, <<code[c].purpose>>}
    /\ effects[c] # <<>> => ~code[c].open
    /\ step[c] # "none" => code[c].purpose \in {"none", "step_up_2fa"}

\* A link is unused until it is marked used and not stored before its job
\* starts, and a job that is still cleaning up has a try left.
LinkOK(l) ==
    /\ job[l].pc = "waiting" => link[l] = "none"
    /\ job[l].pc = "ended" /\ ~job[l].cut /\ job[l].tries < CleanupAttempts => link[l] = "used"
    /\ link[l] # "used" => signins[l] = 0
    /\ signins[l] \in {0, 1}
    /\ job[l].pc \in {"waiting", "send"} => job[l].tries = 0
    /\ job[l].pc = "cleanup" => job[l].tries < CleanupAttempts

\* What a request has read or written before its next statement.
ReqOK(p) ==
    LET n == req[p].n
    IN  /\ req[p].pc \in {"mail", "consume", "apply", "expire"} => n \in Codes
        /\ req[p].pc = "mail" => code[n].purpose = "none" /\ step[n] # "none"
        /\ req[p].pc \in {"consume", "apply"} =>
            /\ req[p].for \in Purposes \cup {"none"}
            /\ code[n].purpose # "none"
            /\ req[p].for \notin {"step_up_2fa", "none"} => code[n].purpose = req[p].for
        /\ req[p].pc = "apply" => ~code[n].open /\ effects[n] = <<>>
        /\ req[p].pc = "user" => n \in Links /\ link[n] = "used" /\ signins[n] = 0

\* Two requests never mail one code, nor have both consumed one code or link.
Apart(p, q) ==
    p # q /\ req[p].pc = req[q].pc /\ req[p].pc \in {"mail", "apply", "user"} => req[p].n # req[q].n

IInv ==
    /\ TypeOK
    /\ \A c \in Codes : CodeOK(c)
    /\ \A l \in Links : LinkOK(l)
    /\ \A p \in Requests : ReqOK(p)
    /\ \A p, q \in Requests : Apart(p, q)

\* Codes and links are numbers of challenges.
LEMMA Bounds == Codes \subseteq 0..(MaxCodes + MaxLinks) /\ Links \subseteq 0..(MaxCodes + MaxLinks)
  BY CodesBoundsAssumption DEF Codes, Links

\* A database without codes and links satisfies IInv.
LEMMA InitIInv == Init => IInv
  <1> SUFFICES ASSUME Init PROVE IInv
    OBVIOUS
  <1>1. TypeOK
    BY CodesBoundsAssumption DEF Init, TypeOK, Code, NoCode, Request, Idle, CleanupAttempts
  <1> QED
    BY <1>1 DEF Init, IInv, CodeOK, LinkOK, ReqOK, Apart, NoCode, Idle

\* A request ends, or moves to a statement that assumes nothing new.
LEMMA RequestStep ==
    ASSUME IInv, NEW p \in Requests, NEW r \in Request, req' = [req EXCEPT ![p] = r],
           UNCHANGED <<code, expired, step, past, link, job, effects, signins, faults>>,
           ReqOK(p)', r.pc \notin {"mail", "apply", "user"}
    PROVE  IInv'
  <1>1. TypeOK'
    BY DEF IInv, TypeOK
  <1>2. req'[p] = r /\ \A q \in Requests \ {p} : req'[q] = req[q]
    BY ZenonT(40) DEF IInv, TypeOK
  <1>3. \A q \in Requests : ReqOK(q)'
    BY <1>2 DEF IInv, ReqOK
  <1>4. \A q, s \in Requests : Apart(q, s)'
    BY <1>2 DEF IInv, Apart
  <1> QED
    BY <1>1, <1>3, <1>4 DEF IInv, CodeOK, LinkOK

\* A request that ends keeps IInv.
LEMMA StopStep == ASSUME IInv, NEW p \in Requests, Stop(p) PROVE IInv'
  <1>1. Idle \in Request
    BY CodesBoundsAssumption DEF Idle, Request
  <1>2. ReqOK(p)'
    BY DEF IInv, TypeOK, Stop, Done, Idle, ReqOK
  <1> QED
    BY Zenon, <1>1, <1>2, RequestStep DEF Stop, Done, Idle

\* A request that presents a code it found keeps IInv.
LEMMA PresentStep ==
    ASSUME IInv, NEW p \in Requests, NEW c \in Codes, NEW purpose \in Purposes \cup {"none"},
           Present(p, c, purpose), code[c].purpose # "none",
           purpose \notin {"step_up_2fa", "none"} => code[c].purpose = purpose
    PROVE  IInv'
  <1> DEFINE r == [pc |-> "consume", for |-> purpose, n |-> c]
  <1>1. r \in Request
    BY Bounds DEF Request
  <1>2. req'[p] = r
    BY DEF IInv, TypeOK, Present
  <1>3. ReqOK(p)'
    BY <1>2 DEF ReqOK, Present
  <1> QED
    BY Zenon, <1>1, <1>3, RequestStep DEF Present

\* A request that resolves a step-up session keeps IInv.
LEMMA ResolveStep == ASSUME IInv, NEW p \in Requests, NEW c \in Codes, Resolve(p, c) PROVE IInv'
  <1> DEFINE r == [pc |-> "expire", for |-> "step_up_2fa", n |-> c]
  <1>1. r \in Request
    BY Bounds DEF Request, Purposes
  <1>2. req'[p] = r
    BY DEF IInv, TypeOK, Resolve
  <1>3. ReqOK(p)'
    BY <1>2 DEF ReqOK
  <1> QED
    BY Zenon, <1>1, <1>3, RequestStep DEF Resolve

\* A new step-up session keeps IInv.
LEMMA CreateSessionStep ==
    ASSUME IInv, NEW p \in Requests, NEW c \in Codes, CreateStepUp2FASession(p, c) PROVE IInv'
  <1> USE DEF CreateStepUp2FASession
  <1>1. [pc |-> "mail", for |-> "step_up_2fa", n |-> c] \in Request
    BY Bounds DEF Request, Purposes
  <1>2. TypeOK'
    BY <1>1 DEF IInv, TypeOK
  <1>3. code[c].purpose = "none" /\ step[c] = "none" /\ step'[c] = "pending"
    BY DEF IInv, TypeOK, Fresh, NoCode
  <1>4. /\ req'[p].pc = "mail" /\ req'[p].n = c
        /\ \A q \in Requests \ {p} : req'[q] = req[q]
        /\ \A d \in Codes \ {c} : step'[d] = step[d]
    BY DEF IInv, TypeOK
  <1>5. \A d \in Codes : CodeOK(d)'
    BY Zenon, <1>3, <1>4 DEF IInv, CodeOK
  <1>6. \A q \in Requests : ReqOK(q)'
    BY <1>3, <1>4 DEF IInv, ReqOK
  <1>7. \A q, s \in Requests : Apart(q, s)'
    BY <1>3, <1>4 DEF IInv, Apart, ReqOK
  <1> QED
    BY <1>2, <1>5, <1>6, <1>7 DEF IInv, LinkOK

\* A new row of email_otp_challenges.
LEMMA NewCodeStep ==
    ASSUME IInv, NEW c \in Codes, NEW purpose \in Purposes, CreateEmailOTP(c, purpose),
           code[c].purpose = "none", step[c] # "none" => purpose = "step_up_2fa",
           req' \in [Requests -> Request],
           \A q \in Requests : req'[q] = Idle \/ (req'[q] = req[q] /\ ~(req[q].pc = "mail" /\ req[q].n = c)),
           UNCHANGED <<expired, step, past, link, job, effects, signins, faults>>
    PROVE  IInv'
  <1>1. [purpose |-> purpose, open |-> TRUE] \in Code
    BY DEF Code
  <1>2. TypeOK'
    BY <1>1 DEF IInv, TypeOK, CreateEmailOTP
  <1>3. /\ code'[c] = [purpose |-> purpose, open |-> TRUE]
        /\ \A d \in Codes \ {c} : code'[d] = code[d]
    BY DEF IInv, TypeOK, CreateEmailOTP
  <1>4. purpose # "none"
    BY DEF Purposes
  <1>5. \A d \in Codes : CodeOK(d)'
    BY <1>3, <1>4 DEF IInv, CodeOK
  <1>6. \A q \in Requests : ReqOK(q)'
    <2> TAKE q \in Requests
    <2>1. ReqOK(q)
      BY DEF IInv
    <2>2. CASE req'[q] = Idle
      BY <2>2 DEF ReqOK, Idle
    <2>3. CASE req'[q] = req[q] /\ ~(req[q].pc = "mail" /\ req[q].n = c)
      BY ZenonT(40), <1>3, <2>1, <2>3 DEF ReqOK
    <2> QED
      BY <2>2, <2>3
  <1>7. \A q, s \in Requests : Apart(q, s)'
    BY DEF IInv, Apart, Idle
  <1> QED
    BY <1>2, <1>5, <1>6, <1>7 DEF IInv, LinkOK

\* The start of a change confirmed by a code keeps IInv.
LEMMA StartWithCodeStep ==
    ASSUME IInv, NEW c \in Codes, NEW purpose \in Purposes, StartWithCode(c, purpose) PROVE IInv'
  <1>1. code[c].purpose = "none" /\ step[c] = "none"
    BY DEF StartWithCode, Fresh, NoCode
  <1>2. \A q \in Requests : ~(req[q].pc = "mail" /\ req[q].n = c)
    BY Zenon, <1>1 DEF IInv, ReqOK
  <1> QED
    BY Zenon, <1>1, <1>2, NewCodeStep DEF StartWithCode, IInv, TypeOK

\* Storing and mailing the step-up code keeps IInv.
LEMMA MailStep == ASSUME IInv, NEW p \in Requests, MailStepUpCode(p) PROVE IInv'
  <1> USE DEF MailStepUpCode
  <1>1. /\ req[p].n \in Codes /\ code[req[p].n].purpose = "none"
        /\ "step_up_2fa" \in Purposes
    BY DEF IInv, ReqOK, Purposes
  <1>2. Idle \in Request
    BY CodesBoundsAssumption DEF Idle, Request
  <1>3. req' \in [Requests -> Request]
    BY <1>2 DEF IInv, TypeOK, Done
  <1>4. \A q \in Requests : req'[q] = Idle \/ (req'[q] = req[q] /\ ~(req[q].pc = "mail" /\ req[q].n = req[p].n))
    BY DEF IInv, TypeOK, Done, Apart
  <1>5. /\ CreateEmailOTP(req[p].n, "step_up_2fa")
        /\ UNCHANGED <<expired, step, past, link, job, effects, signins, faults>>
    OBVIOUS
  <1> HIDE DEF MailStepUpCode
  <1> QED
    BY Zenon, <1>1, <1>3, <1>4, <1>5, NewCodeStep

\* Consuming a code keeps IInv.
LEMMA ConsumeStep == ASSUME IInv, NEW p \in Requests, ConsumeOTP(p) PROVE IInv'
  <1> DEFINE n == req[p].n
  <1> USE DEF ConsumeOTP
  <1>1. n \in Codes /\ code[n].open /\ effects[n] = <<>>
    BY DEF IInv, ReqOK, CodeOK
  <1>2. TypeOK'
    <2>1. code' \in [Codes -> Code]
      <3>1. code[n] \in Code /\ code \in [Codes -> Code]
        BY <1>1 DEF IInv, TypeOK
      <3>2. [code[n] EXCEPT !.open = FALSE] \in Code
        BY Zenon, <3>1 DEF Code
      <3> QED
        BY Zenon, <3>1, <3>2
    <2>2. req' \in [Requests -> Request]
      <3>1. req[p] \in Request /\ req \in [Requests -> Request]
        BY DEF IInv, TypeOK
      <3>2. [req[p] EXCEPT !.pc = "apply"] \in Request
        BY <3>1 DEF Request
      <3> QED
        BY <3>1, <3>2 DEF Goto
    <2> QED
      BY <2>1, <2>2 DEF IInv, TypeOK
  <1>3. /\ code'[n].purpose = code[n].purpose /\ ~code'[n].open
        /\ \A d \in Codes \ {n} : code'[d] = code[d]
    BY <1>1 DEF IInv, TypeOK, Code
  <1>4. /\ req'[p].pc = "apply" /\ req'[p].n = n /\ req'[p].for = req[p].for
        /\ \A q \in Requests \ {p} : req'[q] = req[q]
    BY DEF IInv, TypeOK, Goto, Request
  <1>5. \A d \in Codes : CodeOK(d)'
    BY <1>1, <1>3 DEF IInv, CodeOK
  <1>6. ReqOK(p)'
    BY ZenonT(40), <1>1, <1>3, <1>4 DEF IInv, ReqOK
  <1>7. \A q \in Requests \ {p} : ReqOK(q)'
    BY <1>1, <1>3, <1>4 DEF IInv, ReqOK
  <1>8. \A q \in Requests : req[q].pc = "apply" => req[q].n # n
    BY <1>1 DEF IInv, ReqOK
  <1>9. \A q, s \in Requests : Apart(q, s)'
    BY <1>4, <1>8 DEF IInv, Apart
  <1> QED
    BY <1>2, <1>5, <1>6, <1>7, <1>9 DEF IInv, LinkOK

\* The effect of a consumed code, whose purpose it has.
LEMMA EffectStep ==
    ASSUME IInv, NEW p \in Requests, req[p].pc = "apply", Effect(p), Done(p),
           code[req[p].n].purpose = req[p].for,
           UNCHANGED <<code, expired, past, link, job, signins, faults>>,
           step' \in [Codes -> {"none", "pending", "approved", "expired"}],
           \A c \in Codes : step[c] = "none" <=> step'[c] = "none"
    PROVE  IInv'
  <1> DEFINE n == req[p].n
             for == req[p].for
  <1>1. n \in Codes /\ for \in Purposes \cup {"none"} /\ effects[n] = <<>> /\ ~code[n].open /\ for # "none"
    BY DEF IInv, ReqOK
  <1>2. for \in Purposes
    BY <1>1
  <1>3. /\ effects'[n] = <<for>>
        /\ \A d \in Codes \ {n} : effects'[d] = effects[d]
        /\ effects' \in [Codes -> Seq(Purposes)]
    BY <1>1 DEF IInv, TypeOK, Effect
  <1>4. Idle \in Request
    BY CodesBoundsAssumption DEF Idle, Request
  <1>5. TypeOK'
    BY <1>3, <1>4 DEF IInv, TypeOK, Done
  <1>6. /\ req'[p].pc = "idle"
        /\ \A q \in Requests \ {p} : req'[q] = req[q]
    BY DEF IInv, TypeOK, Done, Idle
  <1>7. \A d \in Codes : CodeOK(d)'
    BY ZenonT(40), <1>1, <1>2, <1>3 DEF IInv, CodeOK
  <1>8. \A q \in Requests \ {p} : req[q].pc = "apply" => req[q].n # n
    BY Zenon DEF IInv, Apart
  <1>9. \A q \in Requests : ReqOK(q)'
    <2>1. ReqOK(p)'
      BY <1>6 DEF ReqOK
    <2>2. ASSUME NEW q \in Requests \ {p} PROVE ReqOK(q)'
      <3>1. ReqOK(q) /\ req'[q] = req[q]
        BY Zenon, <1>6 DEF IInv
      <3>2. req[q].pc = "apply" => req[q].n # n
        BY Zenon, <1>8
      <3>3. req[q].pc = "apply" => effects'[req[q].n] = effects[req[q].n]
        BY Zenon, <1>3, <3>1, <3>2 DEF ReqOK
      <3> QED
        BY Zenon, <3>1, <3>3 DEF ReqOK
    <2> QED
      BY Zenon, <2>1, <2>2
  <1>10. \A q, s \in Requests : Apart(q, s)'
    BY <1>6 DEF IInv, Apart
  <1> QED
    BY Zenon, <1>5, <1>7, <1>9, <1>10 DEF IInv, LinkOK

\* The effect of a consumed code keeps IInv.
LEMMA ApplyStep == ASSUME IInv, NEW p \in Requests, Apply(p) PROVE IInv'
  <1>1. code[req[p].n].purpose = req[p].for
    BY DEF IInv, ReqOK, Apply
  <1>2. step' \in [Codes -> {"none", "pending", "approved", "expired"}]
    BY DEF IInv, TypeOK, Apply
  <1> QED
    BY Zenon, <1>1, <1>2, EffectStep DEF Apply

\* Approving a step-up session keeps IInv.
LEMMA ApproveStep == ASSUME IInv, NEW p \in Requests, ApproveStepUp2FA(p) PROVE IInv'
  <1> USE DEF ApproveStepUp2FA
  <1>1. req[p].n \in Codes /\ code[req[p].n].purpose = "step_up_2fa"
    BY DEF IInv, ReqOK, CodeOK
  <1>2. /\ step' \in [Codes -> {"none", "pending", "approved", "expired"}]
        /\ \A c \in Codes : step[c] = "none" <=> step'[c] = "none"
    BY Zenon, <1>1 DEF IInv, TypeOK
  <1> QED
    BY Zenon, <1>1, <1>2, EffectStep

\* A step-up session that is not created changes its status only.
LEMMA ExpireStep == ASSUME IInv, NEW p \in Requests, ExpireStepUp2FA(p) PROVE IInv'
  <1> USE DEF ExpireStepUp2FA
  <1>1. Idle \in Request
    BY CodesBoundsAssumption DEF Idle, Request
  <1>2. /\ step' \in [Codes -> {"none", "pending", "approved", "expired"}]
        /\ \A c \in Codes : step[c] = "none" <=> step'[c] = "none"
    BY Zenon DEF IInv, TypeOK
  <1>3. TypeOK'
    BY <1>1, <1>2 DEF IInv, TypeOK, Done
  <1>4. /\ req'[p].pc = "idle"
        /\ \A q \in Requests \ {p} : req'[q] = req[q]
    BY DEF IInv, TypeOK, Done, Idle
  <1>5. \A q \in Requests : ReqOK(q)'
    <2> TAKE q \in Requests
    <2>1. ReqOK(q)
      BY Zenon DEF IInv
    <2>2. CASE q = p
      BY Zenon, <1>4, <2>2 DEF ReqOK
    <2>3. CASE q # p
      BY ZenonT(40), <1>2, <1>4, <2>1, <2>3 DEF ReqOK
    <2> QED
      BY <2>2, <2>3
  <1>6. \A q, s \in Requests : Apart(q, s)'
    BY ZenonT(40), <1>4 DEF IInv, Apart
  <1> QED
    BY <1>2, <1>3, <1>5, <1>6 DEF IInv, CodeOK, LinkOK

\* Time that passes keeps IInv.
LEMMA ExpiryStep ==
    ASSUME IInv, expired' \subseteq Codes, past' \subseteq Codes,
           UNCHANGED <<code, step, link, job, req, effects, signins, faults>>
    PROVE  IInv'
  <1>1. TypeOK'
    BY Zenon DEF IInv, TypeOK
  <1>2. \A c \in Codes : CodeOK(c)'
    BY Zenon DEF IInv, CodeOK
  <1>3. \A q \in Requests : ReqOK(q)'
    <2> TAKE q \in Requests
    <2>1. ReqOK(q)
      BY Zenon DEF IInv
    <2> QED
      BY <2>1 DEF ReqOK
  <1> QED
    BY <1>1, <1>2, <1>3 DEF IInv, LinkOK, Apart

\* The job of a link that no request has consumed, or that ends up used.
LEMMA LinkStep ==
    ASSUME IInv, NEW l \in Links,
           UNCHANGED <<code, expired, step, past, req, effects, signins>>, TypeOK',
           \A m \in Links \ {l} : link'[m] = link[m] /\ job'[m] = job[m],
           LinkOK(l)', link[l] = "used" => link'[l] = "used"
    PROVE  IInv'
  <1>1. \A m \in Links : LinkOK(m)'
    BY ZenonT(40) DEF IInv, LinkOK
  <1>2. \A q \in Requests : ReqOK(q)'
    BY DEF IInv, ReqOK
  <1> QED
    BY Zenon, <1>1, <1>2 DEF IInv, CodeOK, Apart

\* Storing a magic link keeps IInv.
LEMMA InsertLinkStep == ASSUME IInv, NEW l \in Links, InsertMagicLink(l) PROVE IInv'
  <1> USE DEF InsertMagicLink
  <1>1. TypeOK'
    BY ZenonT(40) DEF IInv, TypeOK
  <1>2. LinkOK(l)' /\ link[l] # "used"
    BY DEF IInv, TypeOK, LinkOK
  <1>3. \A m \in Links \ {l} : link'[m] = link[m] /\ job'[m] = job[m]
    BY DEF IInv, TypeOK
  <1> QED
    BY <1>1, <1>2, <1>3, LinkStep

\* Sending a magic link, or a crash before it, keeps IInv.
LEMMA SendLinkStep == ASSUME IInv, NEW l \in Links, SendLink(l) \/ Crash(l) PROVE IInv'
  <1> USE DEF SendLink, Crash
  <1>0. PICK pc \in {"sent", "cleanup", "ended"}, cut \in BOOLEAN :
            /\ job' = [job EXCEPT ![l].pc = pc, ![l].cut = cut]
            /\ pc = "cleanup" => job[l].pc = "send"
            /\ pc = "ended" => cut
    <2>1. CASE Crash(l)
      BY Zenon, <2>1
    <2>2. CASE SendLink(l)
      <3>1. PICK pc \in {"sent", "cleanup"} : job' = [job EXCEPT ![l].pc = pc]
        BY Zenon, <2>2
      <3>2. job' = [job EXCEPT ![l].pc = pc, ![l].cut = job[l].cut] /\ job[l].cut \in BOOLEAN
        BY Zenon, <3>1 DEF IInv, TypeOK
      <3> QED
        BY Zenon, <2>2, <3>2
    <2> QED
      BY <2>1, <2>2
  <1> DEFINE j == job[l]
             LinkJob == [pc : {"waiting", "send", "sent", "cleanup", "ended"},
                         tries : 0..CleanupAttempts, cut : BOOLEAN]
  <1>4. j \in LinkJob /\ job \in [Links -> LinkJob]
    BY DEF IInv, TypeOK
  <1>5. [j EXCEPT !.pc = pc, !.cut = cut] \in LinkJob
    BY Zenon, <1>4
  <1>6. job' \in [Links -> LinkJob]
    BY <1>0, <1>4, <1>5
  <1>1. TypeOK'
    BY <1>6 DEF IInv, TypeOK
  <1>7. /\ job'[l].pc = pc /\ job'[l].cut = cut /\ job'[l].tries = job[l].tries
        /\ link' = link /\ signins' = signins
    BY <1>0, <1>4
  <1>2. LinkOK(l)'
    <2>1. LinkOK(l)
      BY DEF IInv
    <2> QED
      BY <1>0, <1>7, <2>1 DEF LinkOK, CleanupAttempts
  <1>3. \A m \in Links \ {l} : link'[m] = link[m] /\ job'[m] = job[m]
    BY Zenon, <1>0 DEF IInv, TypeOK
  <1> QED
    BY <1>1, <1>2, <1>3, LinkStep

\* The expiry of a link keeps IInv.
LEMMA LinkExpiresStep == ASSUME IInv, NEW l \in Links, LinkExpires(l) PROVE IInv'
  <1> USE DEF LinkExpires
  <1>1. TypeOK'
    BY DEF IInv, TypeOK
  <1>2. LinkOK(l)'
    BY DEF IInv, TypeOK, LinkOK
  <1>3. \A m \in Links \ {l} : link'[m] = link[m] /\ job'[m] = job[m]
    BY DEF IInv, TypeOK
  <1> QED
    BY <1>1, <1>2, <1>3, LinkStep

\* The cleanup of a link that was not sent keeps IInv.
LEMMA InvalidateStep == ASSUME IInv, NEW l \in Links, InvalidateMagicLink(l) PROVE IInv'
  <1>1. CASE /\ link' = [link EXCEPT ![l] = "used"]
             /\ job' = [job EXCEPT ![l].pc = "ended"]
             /\ UNCHANGED faults
    <2>1. TypeOK'
      <3>1. job' \in [Links -> [pc : {"waiting", "send", "sent", "cleanup", "ended"},
                                tries : 0..CleanupAttempts, cut : BOOLEAN]]
        BY ZenonT(40), <1>1 DEF IInv, TypeOK
      <3>2. link' \in [Links -> {"none", "live", "past", "used"}]
        BY <1>1 DEF IInv, TypeOK
      <3> QED
        BY <1>1, <3>1, <3>2 DEF IInv, TypeOK, InvalidateMagicLink
    <2>2. LinkOK(l)' /\ link'[l] = "used"
      BY <1>1 DEF IInv, TypeOK, LinkOK, InvalidateMagicLink
    <2>3. \A m \in Links \ {l} : link'[m] = link[m] /\ job'[m] = job[m]
      BY <1>1 DEF IInv, TypeOK
    <2> QED
      BY <2>1, <2>2, <2>3, LinkStep DEF InvalidateMagicLink
  <1>2. ASSUME faults < MaxFaults, faults' = faults + 1, UNCHANGED link,
               NEW pc \in {"ended", "cleanup"}, NEW cut \in BOOLEAN,
               pc = "cleanup" <=> ~cut /\ job[l].tries + 1 # CleanupAttempts,
               job' = [job EXCEPT ![l] = [pc |-> pc, tries |-> job[l].tries + 1, cut |-> cut]]
        PROVE  IInv'
    <2>1. job[l].tries + 1 \in 0..CleanupAttempts
      <3>1. LinkOK(l) /\ job[l].tries \in 0..CleanupAttempts /\ job[l].pc = "cleanup"
        BY DEF IInv, TypeOK, InvalidateMagicLink
      <3> QED
        BY <3>1 DEF LinkOK, CleanupAttempts
    <2>2. faults' \in 0..MaxFaults
      BY <1>2, CodesBoundsAssumption DEF IInv, TypeOK
    <2>3. TypeOK'
      <3>1. [pc |-> pc, tries |-> job[l].tries + 1, cut |-> cut]
                \in [pc : {"waiting", "send", "sent", "cleanup", "ended"},
                    tries : 0..CleanupAttempts, cut : BOOLEAN]
        BY <2>1
      <3>2. job' \in [Links -> [pc : {"waiting", "send", "sent", "cleanup", "ended"},
                                tries : 0..CleanupAttempts, cut : BOOLEAN]]
        BY <1>2, <3>1 DEF IInv, TypeOK
      <3> QED
        BY <1>2, <2>2, <3>2 DEF IInv, TypeOK, InvalidateMagicLink
    <2>4. job'[l].pc = pc /\ job'[l].tries = job[l].tries + 1 /\ job'[l].cut = cut
      BY Zenon, <1>2 DEF IInv, TypeOK
    <2>5. LinkOK(l)'
      <3>1. LinkOK(l) /\ link' = link /\ signins' = signins
        BY <1>2 DEF IInv, InvalidateMagicLink
      <3> QED
        BY <1>2, <2>1, <2>4, <3>1 DEF LinkOK, CleanupAttempts
    <2>6. \A m \in Links \ {l} : link'[m] = link[m] /\ job'[m] = job[m]
      BY Zenon, <1>2 DEF IInv, TypeOK
    <2> QED
      BY <1>2, <2>3, <2>5, <2>6, LinkStep DEF InvalidateMagicLink
  <1> QED
    BY <1>1, <1>2 DEF InvalidateMagicLink

\* Consuming a magic link keeps IInv.
LEMMA ConsumeLinkStep ==
    ASSUME IInv, NEW p \in Requests, NEW l \in Links, ConsumeMagicLink(p, l) PROVE IInv'
  <1> USE DEF ConsumeMagicLink
  <1>1. [pc |-> "user", for |-> "none", n |-> l] \in Request
    BY Bounds DEF Request
  <1>2. TypeOK'
    BY <1>1 DEF IInv, TypeOK
  <1>3. /\ req'[p].pc = "user" /\ req'[p].n = l
        /\ \A q \in Requests \ {p} : req'[q] = req[q]
        /\ link'[l] = "used" /\ \A m \in Links \ {l} : link'[m] = link[m]
    BY Zenon DEF IInv, TypeOK
  <1>4. signins[l] = 0
    BY Zenon DEF IInv, LinkOK
  <1>5. \A m \in Links : LinkOK(m)'
    BY <1>3 DEF IInv, LinkOK
  <1>6. ReqOK(p)'
    BY Zenon, <1>3, <1>4 DEF ReqOK
  <1>7. \A q \in Requests \ {p} : ReqOK(q)'
    <2> TAKE q \in Requests \ {p}
    <2>1. ReqOK(q)
      BY Zenon DEF IInv
    <2> QED
      BY <1>3, <2>1 DEF ReqOK
  <1>8. \A q \in Requests : req[q].pc = "user" => req[q].n # l
    BY Zenon DEF IInv, ReqOK
  <1>9. \A q, s \in Requests : Apart(q, s)'
    BY <1>3, <1>8 DEF IInv, Apart
  <1> QED
    BY <1>2, <1>5, <1>6, <1>7, <1>9 DEF IInv, CodeOK

\* The sign-in by a consumed link keeps IInv.
LEMMA CompleteLinkStep == ASSUME IInv, NEW p \in Requests, CompleteMagicLink(p) PROVE IInv'
  <1> DEFINE n == req[p].n
  <1> USE DEF CompleteMagicLink
  <1>1. n \in Links /\ link[n] = "used" /\ signins[n] = 0
    BY DEF IInv, ReqOK
  <1>2. Idle \in Request
    BY CodesBoundsAssumption DEF Idle, Request
  <1>3. /\ signins' \in [Links -> Nat] /\ signins'[n] = 1
        /\ \A m \in Links \ {n} : signins'[m] = signins[m]
    BY <1>1 DEF IInv, TypeOK
  <1>4. TypeOK'
    BY Zenon, <1>2, <1>3 DEF IInv, TypeOK, Done
  <1>5. /\ req'[p].pc = "idle"
        /\ \A q \in Requests \ {p} : req'[q] = req[q]
    BY Zenon DEF IInv, TypeOK, Done, Idle
  <1>6. \A m \in Links : LinkOK(m)'
    BY ZenonT(40), <1>1, <1>3 DEF IInv, LinkOK
  <1>7. \A q \in Requests \ {p} : req[q].pc = "user" => req[q].n # n
    BY DEF IInv, Apart
  <1>8. \A q \in Requests : ReqOK(q)'
    <2> TAKE q \in Requests
    <2>1. ReqOK(q)
      BY Zenon DEF IInv
    <2>2. CASE q = p
      BY Zenon, <1>5, <2>2 DEF ReqOK
    <2>3. CASE q # p
      <3>1. req'[q] = req[q] /\ UNCHANGED <<code, step, effects, link>>
        BY Zenon, <1>5, <2>3
      <3>2. req[q].pc = "user" => signins'[req[q].n] = signins[req[q].n]
        BY Zenon, <1>3, <1>7, <2>1, <2>3 DEF ReqOK
      <3> QED
        BY Zenon, <2>1, <3>1, <3>2 DEF ReqOK
    <2> QED
      BY <2>2, <2>3
  <1>9. \A q, s \in Requests : Apart(q, s)'
    <2> TAKE q, s \in Requests
    <2>1. Apart(q, s)
      BY Zenon DEF IInv
    <2> QED
      BY <1>5, <2>1 DEF Apart
  <1> QED
    BY Zenon, <1>4, <1>6, <1>8, <1>9 DEF IInv, CodeOK

\* The start of every handler keeps IInv.
LEMMA HandlerStep == ASSUME IInv, NEW p \in Requests, NEW c \in Codes, Handler(p, c) PROVE IInv'
  <1>0. Purposes = {"login", "step_up_2fa", "session_revoke"}
    BY Zenon DEF Purposes
  <1>1. CASE CompleteStepUp2FAOTP(p, c)
    BY <1>0, <1>1, PresentStep DEF CompleteStepUp2FAOTP, Correlated
  <1>2. CASE LoginVerifyOTP(p, c)
    BY <1>0, <1>2, PresentStep DEF LoginVerifyOTP
  <1>3. CASE RevokeSessionWithOTP(p, c)
    BY <1>0, <1>3, PresentStep DEF RevokeSessionWithOTP, Latest
  <1>4. CASE StepUp2FAStatusForUser(p, c) \/ ExpireStepUp2FASessionForUser(p, c)
    BY <1>4, ResolveStep DEF StepUp2FAStatusForUser, ExpireStepUp2FASessionForUser
  <1>5. CASE CreateStepUp2FASession(p, c)
    BY <1>5, CreateSessionStep
  <1> QED
    BY <1>1, <1>2, <1>3, <1>4, <1>5 DEF Handler

\* Every statement of a handler keeps IInv.
LEMMA StatementStep == ASSUME IInv, NEW p \in Requests, Statement(p) PROVE IInv'
  BY Zenon, MailStep, ConsumeStep, ApplyStep, ApproveStep, ExpireStep, CompleteLinkStep, StopStep
  DEF Statement

\* A step of something else keeps IInv.
LEMMA StutterStep == ASSUME IInv, UNCHANGED vars PROVE IInv'
  BY DEF IInv, TypeOK, CodeOK, LinkOK, ReqOK, Apart, vars

\* Every step keeps IInv.
LEMMA NextIInv == ASSUME IInv, [Next]_vars PROVE IInv'
  <1>1. ASSUME NEW c \in Codes, CodeExpires(c) \/ StepUpExpires(c) PROVE IInv'
    BY <1>1, ExpiryStep DEF CodeExpires, StepUpExpires, IInv, TypeOK
  <1>2. ASSUME NEW c \in Codes, NEW purpose \in Purposes, StartWithCode(c, purpose) PROVE IInv'
    BY <1>2, StartWithCodeStep
  <1>3. ASSUME NEW p \in Requests, Statement(p) \/ \E c \in Codes : Handler(p, c) PROVE IInv'
    BY <1>3, StatementStep, HandlerStep
  <1>4. ASSUME NEW p \in Requests, NEW l \in Links, ConsumeMagicLink(p, l) PROVE IInv'
    BY <1>4, ConsumeLinkStep
  <1>5. ASSUME NEW l \in Links,
               \/ InsertMagicLink(l) \/ SendLink(l) \/ InvalidateMagicLink(l)
               \/ Crash(l) \/ LinkExpires(l)
        PROVE  IInv'
    BY <1>5, InsertLinkStep, SendLinkStep, InvalidateStep, LinkExpiresStep
  <1> QED
    BY Zenon, <1>1, <1>2, <1>3, <1>4, <1>5, StutterStep DEF Next

\* IInv holds in every reachable state.
LEMMA Inductive == Spec => []IInv
  <1>1. Init => IInv
    BY InitIInv
  <1>2. IInv /\ [Next]_vars => IInv'
    BY NextIInv
  <1> QED
    BY <1>1, <1>2, PTL DEF Spec

\* However many requests overlap, a mailed code or link brings about one thing,
\* once, of the purpose it was mailed for (ConsumeOTP, ConsumeMagicLink,
\* ApproveStepUp2FA).
THEOREM CodesActOnce == Spec => []OneEffectPerCode
  <1>1. IInv => OneEffectPerCode
    BY DEF IInv, CodeOK, LinkOK, OneEffectPerCode
  <1> QED
    BY <1>1, Inductive, PTL

\* A link whose mail failed survives the end of its job only after three
\* failed cleanups, or after one that was cut off
\* (invalidateUndeliveredMagicLink).
THEOREM RefusedLinksStayDead == Spec => []RefusedLinksDie
  <1>1. IInv => RefusedLinksDie
    <2> SUFFICES ASSUME IInv, NEW l \in Links, job[l].pc = "ended", link[l] = "live",
                        ~job[l].cut, job[l].tries # CleanupAttempts
                 PROVE  FALSE
      BY DEF RefusedLinksDie
    <2>1. LinkOK(l) /\ job[l].tries \in 0..CleanupAttempts
      BY DEF IInv, TypeOK
    <2> QED
      BY <2>1 DEF LinkOK, CleanupAttempts
  <1> QED
    BY <1>1, Inductive, PTL

\* No step changes a step-up session that is approved or expired.
LEMMA ResolvedStep ==
    ASSUME IInv, [Next]_vars, NEW c \in Codes, step[c] \in {"approved", "expired"}
    PROVE  step'[c] = step[c]
  <1>1. ASSUME NEW p \in Requests, NEW d \in Codes, CreateStepUp2FASession(p, d)
        PROVE  step'[c] = step[c]
    BY <1>1 DEF CreateStepUp2FASession, Fresh, IInv, TypeOK
  <1>2. ASSUME NEW p \in Requests, ApproveStepUp2FA(p) PROVE step'[c] = step[c]
    BY Zenon, <1>2 DEF ApproveStepUp2FA, IInv, TypeOK
  <1>3. ASSUME NEW p \in Requests, ExpireStepUp2FA(p) PROVE step'[c] = step[c]
    BY <1>3 DEF ExpireStepUp2FA, IInv, TypeOK
  <1>4. ASSUME NEW p \in Requests, Statement(p) PROVE step'[c] = step[c]
    BY Zenon, <1>2, <1>3, <1>4
    DEF Statement, MailStepUpCode, ConsumeOTP, Apply, CompleteMagicLink, Stop
  <1>5. ASSUME NEW p \in Requests, NEW d \in Codes, Handler(p, d) PROVE step'[c] = step[c]
    BY Zenon, <1>1, <1>5
    DEF Handler, CompleteStepUp2FAOTP, LoginVerifyOTP, RevokeSessionWithOTP, Present,
        StepUp2FAStatusForUser, ExpireStepUp2FASessionForUser, Resolve
  <1> QED
    BY Zenon, <1>4, <1>5
    DEF Next, vars, CodeExpires, StepUpExpires, StartWithCode, ConsumeMagicLink,
        InsertMagicLink, SendLink, InvalidateMagicLink, Crash, LinkExpires

\* A step-up session that is approved or expired keeps that status
\* (ApproveStepUp2FA and ExpireStepUp2FA update pending sessions only).
THEOREM ResolvedSessionsStay == Spec => ResolvedStay
  <1>1. IInv /\ [Next]_vars =>
            [\A c \in Codes : step[c] \in {"approved", "expired"} => step'[c] = step[c]]_vars
    BY ResolvedStep
  <1> QED
    BY <1>1, Inductive, PTL DEF Spec, ResolvedStay

-----------------------------------------------------------------------------
(* Password-reset codes, for any number of jobs, requests, codes and       *)
(* attempts.                                                               *)

\* A new challenge has no attempts and is not consumed.
LEMMA FreshChallengeOK ==
    ASSUME NEW s \in {"none", "pending"}
    PROVE  /\ FreshChallenge(s) \in Challenge
           /\ FreshChallenge(s).state = s
           /\ FreshChallenge(s).attempts = 0
           /\ ~FreshChallenge(s).consumed
  <1>1. 0 \in 0..MaxAttempts
    BY AttemptsAssumption
  <1> QED
    BY Zenon, <1>1 DEF FreshChallenge, Challenge

\* Idle jobs and resets are jobs and resets.
LEMMA IdleRecords ==
    IdleJob \in Job /\ IdleReset \in Reset
  BY CodeBoundsAssumption, TriesAssumption DEF IdleJob, Job, IdleReset, Reset

\* A database without reset codes satisfies the invariant.
LEMMA InitResetInv ==
    ResetInit => ResetInv
  <1> SUFFICES ASSUME ResetInit PROVE ResetInv
    OBVIOUS
  <1>1. ResetTypeOK
    <2>1. FreshChallenge("none") \in Challenge
      BY FreshChallengeOK
    <2>2. codes \in [CodeNumbers -> Challenge]
      BY <2>1 DEF ResetInit, NoChallenge
    <2>3. mailJob \in [Jobs -> Job] /\ reset \in [Resets -> Reset]
      BY IdleRecords DEF ResetInit
    <2>4. resetFaults \in 0..MaxResetFaults /\ crashes \in 0..MaxCrashes /\ lastCode \in 0..MaxResetCodes
      BY CodeBoundsAssumption DEF ResetInit
    <2>5. inbox \subseteq 1..lastCode /\ usedCode \in 0..lastCode
      BY DEF ResetInit
    <2>6. banned \in BOOLEAN /\ cooling \in BOOLEAN
      BY ZenonT(40) DEF ResetInit
    <2> QED
      BY <2>2, <2>3, <2>4, <2>5, <2>6 DEF ResetTypeOK
  <1>2. \A c \in CodeNumbers : codes[c].state = "none" /\ codes[c].attempts = 0
    BY FreshChallengeOK DEF ResetInit, NoChallenge
  <1>3. \A j \in Jobs : mailJob[j].pc = "idle"
    BY Zenon DEF ResetInit, IdleJob
  <1> QED
    BY <1>1, <1>2, <1>3
    DEF ResetInit, ResetInv, ActiveSupersedes,
        UsableWereDelivered, JobsOwnTheirCode, JobOK,
        GuessesBounded, SpentStaySpent, CodeNumbers

\* A transaction that touches existing challenges without creating one: it may
\* consume, count and activate, but never gives a challenge back.
LEMMA CodesStep ==
    ASSUME ResetInv, codes' \in [CodeNumbers -> Challenge],
           UNCHANGED <<lastCode, inbox>>,
           mailJob' \in [Jobs -> Job], ResetTypeOK',
           \A j \in Jobs : mailJob'[j].pc \in {"send", "activate"} =>
               /\ mailJob[j].pc \in {"send", "activate"} /\ mailJob'[j].code = mailJob[j].code
               /\ mailJob'[j].pc = "activate" => mailJob[j].pc = "activate" /\ mailJob'[j].tries > 0,
           \A c \in CodeNumbers :
               /\ codes[c].consumed => codes'[c].consumed
               /\ codes'[c].state = "none" <=> codes[c].state = "none"
               /\ codes'[c].state = "active" /\ codes[c].state # "active" =>
                      /\ c \in inbox
                      /\ \A d \in CodeNumbers : d < c => codes'[d].consumed
               /\ codes[c].state = "active" => codes'[c].state = "active"
               /\ codes'[c].attempts # codes[c].attempts =>
                      /\ codes'[c].state = "active"
                      /\ codes'[c].attempts < MaxAttempts \/ codes'[c].consumed,
           \A c \in CodeNumbers : c <= usedCode' => codes'[c].consumed
    PROVE  ResetInv'
  <1>1. ActiveSupersedes'
    BY Zenon DEF ResetInv, ActiveSupersedes
  <1>2. UsableWereDelivered'
    BY Zenon DEF ResetInv, UsableWereDelivered
  <1>3. JobsOwnTheirCode'
    BY ZenonT(40) DEF ResetInv, JobsOwnTheirCode, JobOK
  <1>4. GuessesBounded'
    BY Zenon DEF ResetInv, GuessesBounded
  <1>5. SpentStaySpent'
    BY Zenon DEF SpentStaySpent
  <1> QED
    BY Zenon, <1>1, <1>2, <1>3, <1>4, <1>5 DEF ResetInv

\* A step that leaves the challenges alone.
LEMMA JobsStep ==
    ASSUME ResetInv, UNCHANGED <<codes, lastCode, inbox, usedCode>>, ResetTypeOK',
           \A j \in Jobs : mailJob'[j].pc \in {"send", "activate"} =>
               /\ mailJob[j].pc \in {"send", "activate"} /\ mailJob'[j].code = mailJob[j].code
               /\ mailJob'[j].pc = "activate" => mailJob[j].pc = "activate" /\ mailJob'[j].tries > 0
    PROVE  ResetInv'
  BY CodesStep DEF ResetInv, ResetTypeOK, SpentStaySpent

\* The start of a mail job keeps the invariant.
LEMMA JobStartStep ==
    ASSUME ResetInv, NEW j \in Jobs, JobStart(j)
    PROVE  ResetInv'
  <1>1. ResetTypeOK'
    BY DEF ResetInv, ResetTypeOK, JobStart, Job
  <1>2. \A i \in Jobs : mailJob'[i].pc \in {"send", "activate"} => mailJob'[i] = mailJob[i]
    BY Zenon DEF ResetInv, ResetTypeOK, JobStart, Job
  <1> QED
    BY <1>1, <1>2, JobsStep
    DEF JobStart, ResetInv, JobsOwnTheirCode, JobOK

\* The end of a mail job keeps the invariant.
LEMMA JobEndStep ==
    ASSUME ResetInv,
           NEW j \in Jobs, mailJob' = [mailJob EXCEPT ![j] = IdleJob],
           UNCHANGED <<banned, codes, lastCode, cooling, reset, inbox, usedCode, resetFaults>>,
           crashes' \in 0..MaxCrashes
    PROVE  ResetInv'
  <1>1. ResetTypeOK'
    BY CodeBoundsAssumption, TriesAssumption DEF ResetInv, ResetTypeOK, Job, IdleJob
  <1>2. \A i \in Jobs : mailJob'[i].pc \in {"send", "activate"} => mailJob'[i] = mailJob[i]
    BY DEF ResetInv, ResetTypeOK, IdleJob
  <1> QED
    BY Zenon, <1>1, <1>2, JobsStep DEF ResetInv, JobsOwnTheirCode, JobOK

\* Reserving a code under the cooldown keeps the invariant.
LEMMA ReserveStep ==
    ASSUME ResetInv,
           NEW j \in Jobs, Reserve(j)
    PROVE  ResetInv'
  <1>1. CASE Throttled /\ cooling
    BY <1>1, JobEndStep DEF Reserve, ResetInv, ResetTypeOK
  <1>2. CASE ~(Throttled /\ cooling)
    <2> DEFINE n == lastCode + 1
    <2>0. /\ lastCode < MaxResetCodes
          /\ lastCode' = lastCode + 1
          /\ n \in CodeNumbers
          /\ lastCode \in Nat
          /\ codes' = [codes EXCEPT ![n] = Reserved(n)]
          /\ mailJob' = [mailJob EXCEPT ![j] = Carries(n)]
          /\ UNCHANGED <<inbox, usedCode>>
      BY <1>2, CodeBoundsAssumption DEF Reserve, ResetInv, ResetTypeOK, CodeNumbers
    <2>1. /\ Reserved(n) \in Challenge
          /\ Reserved(n).state = "pending"
          /\ Reserved(n).attempts = 0
      BY Zenon, FreshChallengeOK DEF Reserved
    <2>2. /\ Carries(n) \in Job
          /\ Carries(n).code = n
          /\ Carries(n).pc = "send"
      BY <2>0, CodeBoundsAssumption, TriesAssumption DEF Carries, Job, CodeNumbers
    <2>3. ResetTypeOK'
      <3>1. codes' \in [CodeNumbers -> Challenge] /\ mailJob' \in [Jobs -> Job]
        BY Zenon, <2>0, <2>1, <2>2 DEF ResetInv, ResetTypeOK
      <3>2. lastCode' \in 0..MaxResetCodes /\ inbox' \subseteq 1..lastCode' /\ usedCode' \in 0..lastCode'
        BY <2>0, CodeBoundsAssumption DEF ResetInv, ResetTypeOK
      <3> QED
        BY Zenon, <1>2, <3>1, <3>2, ThrottledAssumption DEF Reserve, ResetInv, ResetTypeOK
    <2>4. /\ \A c \in CodeNumbers : c # n => codes'[c] = codes[c]
          /\ codes'[n] = Reserved(n)
          /\ \A i \in Jobs : i # j => mailJob'[i] = mailJob[i]
          /\ mailJob'[j] = Carries(n)
      BY Zenon, <2>0 DEF ResetInv, ResetTypeOK
    <2>5. ActiveSupersedes'
      <3> SUFFICES ASSUME NEW c \in CodeNumbers, NEW d \in CodeNumbers, c < d,
                          codes'[d].state = "active"
                   PROVE  codes'[c].consumed
        BY Zenon DEF ActiveSupersedes
      <3>1. d # n /\ codes[d].state = "active"
        BY <2>1, <2>4
      <3>2. d <= lastCode
        BY <3>1 DEF ResetInv, JobsOwnTheirCode
      <3>3. c # n
        BY <2>0, <3>2 DEF CodeNumbers
      <3> QED
        BY Zenon, <2>4, <3>1, <3>3 DEF ResetInv, ActiveSupersedes
    <2>6. UsableWereDelivered'
      BY Zenon, <2>0, <2>1, <2>4 DEF ResetInv, UsableWereDelivered
    <2>7. JobsOwnTheirCode'
      <3>1. \A i \in Jobs : JobOK(i)'
        BY <2>0, <2>2, <2>4
        DEF ResetInv, ResetTypeOK, JobsOwnTheirCode, JobOK
      <3>2. \A i \in Jobs : i # j /\ mailJob'[i].pc \in {"send", "activate"} => mailJob'[i].code # n
        BY <2>0, <2>4
        DEF ResetInv, ResetTypeOK, JobsOwnTheirCode, JobOK
      <3>3. \A c \in CodeNumbers : codes'[c].state # "none" <=> c <= lastCode'
        <4>1. \A c \in CodeNumbers : codes[c].state # "none" <=> c <= lastCode
          BY Zenon DEF ResetInv, JobsOwnTheirCode
        <4>2. \A c \in CodeNumbers : c # n => (c <= lastCode' <=> c <= lastCode)
          BY <2>0 DEF ResetInv, ResetTypeOK, CodeNumbers
        <4>3. n <= lastCode' /\ codes'[n].state # "none"
          BY <2>0, <2>1, <2>4 DEF ResetInv, ResetTypeOK, CodeNumbers
        <4> QED
          BY Zenon, <2>4, <4>1, <4>2, <4>3
      <3> QED
        BY <2>2, <2>4, <3>1, <3>2, <3>3 DEF ResetInv, JobsOwnTheirCode
    <2>8. GuessesBounded'
      BY <2>1, <2>4 DEF ResetInv, GuessesBounded
    <2>9. SpentStaySpent'
      BY <2>0, <2>4 DEF ResetInv, ResetTypeOK, SpentStaySpent, CodeNumbers
    <2> QED
      BY Zenon, <2>3, <2>5, <2>6, <2>7, <2>8, <2>9 DEF ResetInv
  <1> QED
    BY Zenon, <1>1, <1>2

\* A code the mail server accepted keeps the invariant.
LEMMA SendAcceptedStep ==
    ASSUME ResetInv,
           NEW j \in Jobs, SendAccepted(j)
    PROVE  ResetInv'
  <1> DEFINE c == mailJob[j].code
  <1>0. /\ c \in 1..lastCode /\ c \in CodeNumbers /\ mailJob[j].pc = "send"
        /\ inbox' = inbox \cup {c}
        /\ mailJob' = [mailJob EXCEPT ![j] = Attempt(c, Tries)]
        /\ UNCHANGED <<codes, lastCode, usedCode>>
    BY CodeBoundsAssumption
    DEF SendAccepted, ResetInv, ResetTypeOK, JobsOwnTheirCode, JobOK, CodeNumbers
  <1>1. /\ Attempt(c, Tries) \in Job /\ Attempt(c, Tries).code = c
        /\ Attempt(c, Tries).pc = "activate" /\ Attempt(c, Tries).tries > 0
    BY <1>0, CodeBoundsAssumption, TriesAssumption
    DEF Attempt, Job, ResetInv, ResetTypeOK, CodeNumbers, Challenge
  <1>2. ResetTypeOK'
    BY Zenon, <1>0, <1>1 DEF SendAccepted, ResetInv, ResetTypeOK
  <1>3. /\ \A i \in Jobs : i # j => mailJob'[i] = mailJob[i]
        /\ mailJob'[j].code = c /\ mailJob'[j].pc = "activate" /\ mailJob'[j].tries > 0
    BY Zenon, <1>0, <1>1 DEF ResetInv, ResetTypeOK
  <1>4. JobsOwnTheirCode'
    BY <1>0, <1>3 DEF ResetInv, JobsOwnTheirCode, JobOK
  <1> QED
    BY Zenon, <1>0, <1>2, <1>4
    DEF ResetInv, ActiveSupersedes, UsableWereDelivered,
        GuessesBounded, SpentStaySpent

\* A code the mail server refused keeps the invariant.
LEMMA SendFailedStep ==
    ASSUME ResetInv,
           NEW j \in Jobs, SendFailed(j)
    PROVE  ResetInv'
  <1>0. /\ mailJob[j].code \in 1..lastCode
        /\ inbox \subseteq inbox' /\ inbox' \subseteq 1..lastCode
        /\ UNCHANGED <<codes, lastCode, usedCode>>
    BY DEF SendFailed, ResetInv, ResetTypeOK, JobsOwnTheirCode,
        JobOK
  <1>1. ResetTypeOK'
    BY Zenon, <1>0, IdleRecords DEF SendFailed, ResetInv, ResetTypeOK
  <1>2. \A i \in Jobs : mailJob'[i].pc \in {"send", "activate"} => mailJob'[i] = mailJob[i]
    BY Zenon DEF SendFailed, ResetInv, ResetTypeOK, IdleJob
  <1>3. JobsOwnTheirCode'
    BY Zenon, <1>0, <1>2 DEF ResetInv, JobsOwnTheirCode, JobOK
  <1> QED
    BY ZenonT(40), <1>0, <1>1, <1>3
    DEF ResetInv, ActiveSupersedes, UsableWereDelivered,
        GuessesBounded, SpentStaySpent

\* What the activation transaction does to the challenges.
LEMMA ActivateCodes ==
    ASSUME ResetInv, NEW n \in CodeNumbers, n \in inbox, NEW late,
           Activate(n, late)
    PROVE  /\ codes' \in [CodeNumbers -> Challenge]
           /\ \A c \in CodeNumbers :
                /\ codes[c].consumed => codes'[c].consumed
                /\ codes'[c].state = "none" <=> codes[c].state = "none"
                /\ codes'[c].state = "active" /\ codes[c].state # "active" =>
                      c \in inbox /\ \A d \in CodeNumbers : d < c => codes'[d].consumed
                /\ codes[c].state = "active" => codes'[c].state = "active"
                /\ codes'[c].attempts = codes[c].attempts
  <1>0. codes \in [CodeNumbers -> Challenge] /\ codes[n].state # "none"
    BY DEF ResetInv, ResetTypeOK, JobsOwnTheirCode
  <1>1. \/ codes' = codes
        \/ codes' = [codes EXCEPT ![n] = Consume(n)]
        \/ codes' = Activated(n)
    BY DEF Activate
  <1>2. \A c \in CodeNumbers : /\ Consume(c) \in Challenge
                               /\ Consume(c).consumed
                               /\ Consume(c).state = codes[c].state
                               /\ Consume(c).attempts = codes[c].attempts
    BY Zenon, <1>0 DEF Consume, Challenge
  <1>3. CASE codes' = codes
    BY Zenon, <1>0, <1>3
  <1>4. CASE codes' = [codes EXCEPT ![n] = Consume(n)]
    BY Zenon, <1>0, <1>2, <1>4
  <1>5. CASE codes' = Activated(n)
    <2>1. PICK a : a = [codes[n] EXCEPT !.state = "active"]
      BY ZenonT(40)
    <2>2. /\ a \in Challenge /\ a.state = "active" /\ a.attempts = codes[n].attempts
          /\ a.consumed = codes[n].consumed
      BY <1>0, <2>1 DEF Challenge
    <2>3. /\ codes' \in [CodeNumbers -> Challenge] /\ codes'[n] = a
          /\ \A d \in CodeNumbers : d < n => codes'[d] = Consume(d)
          /\ \A d \in CodeNumbers : d > n => codes'[d] = codes[d]
      BY <1>0, <1>2, <1>5, <2>1, <2>2 DEF Activated, CodeNumbers
    <2>4. \A d \in CodeNumbers : d = n \/ d < n \/ d > n
      BY DEF CodeNumbers
    <2> QED
      BY <1>0, <1>2, <2>2, <2>3, <2>4
  <1> QED
    BY <1>1, <1>3, <1>4, <1>5

\* One try to activate a code keeps the invariant.
LEMMA ActivateStep ==
    ASSUME ResetInv, NEW j \in Jobs,
           mailJob[j].pc = "activate",
           NEW r \in Job, mailJob' = [mailJob EXCEPT ![j] = r],
           r.pc \in {"send", "activate"} =>
               r.pc = "activate" /\ r.code = mailJob[j].code /\ r.tries > 0,
           Activate(mailJob[j].code, mailJob[j].late) \/ UNCHANGED codes,
           resetFaults' \in 0..MaxResetFaults,
           UNCHANGED <<banned, lastCode, cooling, reset, inbox, usedCode, crashes>>
    PROVE  ResetInv'
  <1>0. mailJob[j].code \in CodeNumbers /\ mailJob[j].code \in inbox
    BY CodeBoundsAssumption DEF ResetInv, ResetTypeOK, JobsOwnTheirCode, JobOK, CodeNumbers
  <1>1. /\ codes' \in [CodeNumbers -> Challenge]
        /\ \A c \in CodeNumbers :
             /\ codes[c].consumed => codes'[c].consumed
             /\ codes'[c].state = "none" <=> codes[c].state = "none"
             /\ codes'[c].state = "active" /\ codes[c].state # "active" =>
                   c \in inbox /\ \A d \in CodeNumbers : d < c => codes'[d].consumed
             /\ codes[c].state = "active" => codes'[c].state = "active"
             /\ codes'[c].attempts = codes[c].attempts
    <2>1. CASE Activate(mailJob[j].code, mailJob[j].late)
      BY Zenon, <1>0, <2>1, ActivateCodes
    <2>2. CASE UNCHANGED codes
      BY Zenon, <2>2 DEF ResetInv, ResetTypeOK
    <2> QED
      BY Zenon, <2>1, <2>2
  <1>2. mailJob' \in [Jobs -> Job] /\ ResetTypeOK'
    BY Zenon, <1>1 DEF ResetInv, ResetTypeOK
  <1>3. \A i \in Jobs : mailJob'[i].pc \in {"send", "activate"} =>
               /\ mailJob[i].pc \in {"send", "activate"} /\ mailJob'[i].code = mailJob[i].code
               /\ mailJob'[i].pc = "activate" => mailJob[i].pc = "activate" /\ mailJob'[i].tries > 0
    BY Zenon DEF ResetInv, ResetTypeOK, JobsOwnTheirCode, JobOK
  <1>4. \A c \in CodeNumbers : c <= usedCode' => codes'[c].consumed
    BY SMTT(40), <1>1 DEF ResetInv, SpentStaySpent
  <1> QED
    BY Zenon, <1>1, <1>2, <1>3, <1>4, CodesStep

\* An activation that succeeds keeps the invariant.
LEMMA ActivateDoneStep ==
    ASSUME ResetInv,
           NEW j \in Jobs, ActivateDone(j)
    PROVE  ResetInv'
  <1>1. IdleJob.pc = "idle"
    BY DEF IdleJob
  <1> QED
    BY Zenon, <1>1, IdleRecords, ActivateStep
    DEF ActivateDone, ResetInv, ResetTypeOK

\* An activation that fails, and is retried or given up, keeps the invariant.
LEMMA ActivateErrorStep ==
    ASSUME ResetInv,
           NEW j \in Jobs, ActivateError(j)
    PROVE  ResetInv'
  <1> DEFINE r == mailJob[j]
  <1>0. r \in Job /\ r.pc = "activate" /\ r.code \in CodeNumbers /\ r.tries > 0
    BY CodeBoundsAssumption
    DEF ActivateError, ResetInv, ResetTypeOK, JobsOwnTheirCode, JobOK, CodeNumbers
  <1>1. /\ Retry(r) \in Job
        /\ Retry(r).pc \in {"send", "activate"} =>
               Retry(r).pc = "activate" /\ Retry(r).code = r.code /\ Retry(r).tries > 0
    <2>1. CASE r.tries = 1
      BY Zenon, <2>1, IdleRecords DEF Retry, IdleJob
    <2>2. CASE r.tries # 1
      <3>1. r.tries - 1 \in 0..Tries /\ r.tries - 1 > 0
        BY <1>0, <2>2, TriesAssumption DEF Job
      <3>2. Retry(r) = Attempt(r.code, r.tries - 1)
        BY <2>2 DEF Retry
      <3>3. codes[r.code].expired \in BOOLEAN /\ r.code \in 0..MaxResetCodes
        BY <1>0 DEF ResetInv, ResetTypeOK, Challenge, Job
      <3> QED
        BY <3>1, <3>2, <3>3 DEF Attempt, Job
    <2> QED
      BY Zenon, <2>1, <2>2
  <1>2. resetFaults' \in 0..MaxResetFaults
    BY CodeBoundsAssumption DEF ActivateError, ResetInv, ResetTypeOK
  <1> QED
    BY ZenonT(40), <1>0, <1>1, <1>2, ActivateStep DEF ActivateError

\* A crash of a mail job keeps the invariant.
LEMMA JobCrashStep ==
    ASSUME ResetInv,
           NEW j \in Jobs, JobCrash(j)
    PROVE  ResetInv'
  <1>1. crashes' \in 0..MaxCrashes
    BY CodeBoundsAssumption DEF JobCrash, ResetInv, ResetTypeOK
  <1> QED
    BY Zenon, <1>1, JobEndStep DEF JobCrash

\* A step of a completion request that leaves the challenges alone.
LEMMA ResetOnlyStep ==
    ASSUME ResetInv, NEW p \in Resets, NEW r \in Reset,
           reset' = [reset EXCEPT ![p] = r],
           UNCHANGED <<banned, codes, lastCode, cooling, mailJob, inbox, usedCode, resetFaults, crashes>>
    PROVE  ResetInv'
  <1>1. ResetTypeOK'
    BY DEF ResetInv, ResetTypeOK
  <1> QED
    BY Zenon, <1>1, JobsStep DEF ResetInv, JobsOwnTheirCode, JobOK

\* The start of a reset keeps the invariant.
LEMMA ResetStartStep ==
    ASSUME ResetInv, NEW p \in Resets,
           NEW c \in 0..lastCode, ResetStart(p, c)
    PROVE  ResetInv'
  <1>1. [pc |-> "complete", code |-> c, late |-> {d \in CodeNumbers : codes[d].expired}] \in Reset
    BY CodeBoundsAssumption DEF Reset, ResetInv, ResetTypeOK
  <1> QED
    BY ZenonT(40), <1>1, ResetOnlyStep DEF ResetStart

\* Verifying a code and completing the reset keep the invariant.
LEMMA CompleteStep ==
    ASSUME ResetInv, NEW p \in Resets, Complete(p)
    PROVE  ResetInv'
  <1>0. /\ codes \in [CodeNumbers -> Challenge]
        /\ reset' \in [Resets -> Reset]
        /\ UNCHANGED <<banned, lastCode, cooling, mailJob, inbox, resetFaults, crashes>>
    BY SMTT(40), IdleRecords DEF Complete, ResetInv, ResetTypeOK
  <1>1. CASE UNCHANGED <<codes, usedCode>>
    BY Zenon, <1>0, <1>1, IdleRecords, ResetOnlyStep DEF Complete
  <1>2. ASSUME NEW c \in CodeNumbers, Current(c), NEW b \in Challenge,
               codes' = [codes EXCEPT ![c] = b], b.state = "active",
               b.attempts # codes[c].attempts => b.attempts < MaxAttempts \/ b.consumed,
               usedCode' = usedCode \/ (usedCode' = c /\ b.consumed)
        PROVE  ResetInv'
    <2>1. codes[c].state = "active" /\ ~codes[c].consumed
      BY <1>2 DEF Current, Usable
    <2>2. /\ codes' \in [CodeNumbers -> Challenge] /\ codes'[c] = b
          /\ \A d \in CodeNumbers : d # c => codes'[d] = codes[d]
      BY <1>0, <1>2
    <2>3. c <= lastCode
      BY Zenon, <2>1 DEF ResetInv, JobsOwnTheirCode
    <2>4. ResetTypeOK'
      BY <1>0, <1>2, <2>2, <2>3 DEF ResetInv, ResetTypeOK, CodeNumbers
    <2>5. \A d \in CodeNumbers : d <= usedCode' => codes'[d].consumed
      <3>1. \A d \in CodeNumbers : d <= usedCode => d # c
        BY <2>1 DEF ResetInv, SpentStaySpent
      <3>2. CASE usedCode' = usedCode
        BY <2>2, <3>1, <3>2 DEF ResetInv, SpentStaySpent
      <3>3. CASE usedCode' = c /\ b.consumed
        <4>1. \A d \in CodeNumbers : d < c => codes[d].consumed
          BY <2>1 DEF ResetInv, ActiveSupersedes
        <4> QED
          BY <2>2, <3>3, <4>1 DEF CodeNumbers
      <3> QED
        BY <1>2, <3>2, <3>3
    <2> QED
      BY ZenonT(40), <1>0, <1>2, <2>1, <2>2, <2>4, <2>5, CodesStep
      DEF ResetInv, ResetTypeOK, JobsOwnTheirCode, JobOK
  <1>3. ASSUME NEW c \in CodeNumbers, Current(c)
        PROVE  /\ Consume(c) \in Challenge
               /\ Consume(c).state = "active"
               /\ Consume(c).attempts = codes[c].attempts /\ Consume(c).consumed
    BY Zenon, <1>0, <1>3
    DEF Consume, Challenge, Current, Usable
  <1>4. CASE \E c \in CodeNumbers : Current(c) /\ codes' = [codes EXCEPT ![c] = Consume(c)]
                              /\ (UNCHANGED usedCode \/ usedCode' = c)
    BY Zenon, <1>2, <1>3, <1>4
  <1>5. CASE \E c \in CodeNumbers : Current(c) /\ codes[c].attempts < MaxAttempts
                              /\ codes' = Miss(c) /\ UNCHANGED usedCode
    <2>1. PICK c \in CodeNumbers : /\ Current(c) /\ codes[c].attempts < MaxAttempts
                             /\ codes' = Miss(c) /\ UNCHANGED usedCode
      BY <1>5
    <2>2. codes[c] \in Challenge /\ codes[c].state = "active"
      BY <1>0, <2>1 DEF Current, Usable
    <2>3. PICK b : b = [codes[c] EXCEPT !.attempts = codes[c].attempts + 1,
                                        !.consumed = codes[c].attempts + 1 >= MaxAttempts]
      OBVIOUS
    <2>4. /\ b.state = "active" /\ b \in Challenge
          /\ b.attempts < MaxAttempts \/ b.consumed
      <3> DEFINE n == codes[c].attempts + 1
                 full == n >= MaxAttempts
      <3>1. n \in 0..MaxAttempts /\ (n < MaxAttempts \/ full)
        BY <2>1, <2>2, AttemptsAssumption DEF Challenge
      <3>2. full \in BOOLEAN
        OBVIOUS
      <3> HIDE DEF n, full
      <3>3. b = [codes[c] EXCEPT !.attempts = n, !.consumed = full]
        BY <2>3 DEF n, full
      <3>4. b.state = "active" /\ b \in Challenge /\ b.attempts = n /\ b.consumed = full
        BY Zenon, <2>2, <3>1, <3>2, <3>3 DEF Challenge
      <3> QED
        BY Zenon, <3>1, <3>4
    <2>5. codes' = [codes EXCEPT ![c] = b]
      BY Zenon, <1>0, <2>1, <2>2, <2>3 DEF Miss
    <2> QED
      BY Zenon, <1>2, <2>1, <2>4, <2>5
  <1> QED
    BY Zenon, <1>1, <1>4, <1>5 DEF Complete, CompleteCode

\* The expiry of a code keeps the invariant.
LEMMA ResetExpireStep ==
    ASSUME ResetInv, NEW c \in CodeNumbers, Expire(c)
    PROVE  ResetInv'
  <1>0. PICK b : b = [codes[c] EXCEPT !.expired = TRUE]
    BY Zenon
  <1>1. /\ b \in Challenge /\ b.state = codes[c].state /\ b.consumed = codes[c].consumed
        /\ b.attempts = codes[c].attempts
    BY Zenon, <1>0 DEF ResetInv, ResetTypeOK, Challenge
  <1>2. codes' = [codes EXCEPT ![c] = b]
    BY <1>0 DEF Expire, ResetInv, ResetTypeOK, Challenge
  <1>3. ResetTypeOK'
    BY Zenon, <1>1, <1>2 DEF Expire, ResetInv, ResetTypeOK
  <1> QED
    BY <1>1, <1>2, <1>3, CodesStep
    DEF Expire, ResetInv, ResetTypeOK, JobsOwnTheirCode,
        JobOK, SpentStaySpent

\* Every step keeps the invariant.
LEMMA NextResetInv ==
    ResetInv /\ [ResetNext]_resetVars => ResetInv'
  <1> SUFFICES ASSUME ResetInv, [ResetNext]_resetVars PROVE ResetInv'
    OBVIOUS
  <1>1. ASSUME NEW j \in Jobs,
               JobStart(j) \/ JobStep(j) \/ JobCrash(j)
        PROVE  ResetInv'
    BY <1>1, JobStartStep, ReserveStep, SendAcceptedStep, SendFailedStep,
       ActivateDoneStep, ActivateErrorStep, JobCrashStep DEF JobStep
  <1>2. ASSUME NEW p \in Resets, NEW c \in 0..lastCode, ResetStart(p, c)
        PROVE  ResetInv'
    BY <1>2, ResetStartStep
  <1>3. ASSUME NEW p \in Resets, Complete(p) PROVE ResetInv'
    BY <1>3, CompleteStep
  <1>4. ASSUME NEW p \in Resets, ResetAbort(p) PROVE ResetInv'
    BY ZenonT(40), <1>4, IdleRecords, ResetOnlyStep DEF ResetAbort
  <1>5. ASSUME NEW c \in CodeNumbers, Expire(c) PROVE ResetInv'
    BY <1>5, ResetExpireStep
  <1>6. ASSUME UNCHANGED <<codes, lastCode, mailJob, reset, inbox, usedCode, resetFaults, crashes>>,
               banned' \in BOOLEAN, cooling' \in BOOLEAN
        PROVE  ResetInv'
    <2>1. ResetTypeOK'
      BY <1>6 DEF ResetInv, ResetTypeOK
    <2> QED
      BY Zenon, <1>6, <2>1, JobsStep DEF ResetInv, JobsOwnTheirCode, JobOK
  <1>7. CASE CoolDown
    BY Zenon, <1>6, <1>7 DEF CoolDown, ResetInv, ResetTypeOK
  <1>8. CASE SetBan
    BY Zenon, <1>6, <1>8 DEF SetBan, ResetInv, ResetTypeOK
  <1>9. CASE UNCHANGED resetVars
    BY <1>6, <1>9 DEF resetVars, ResetInv, ResetTypeOK
  <1> QED
    BY Zenon, <1>1, <1>2, <1>3, <1>4, <1>5, <1>7, <1>8, <1>9 DEF ResetNext

\* The columns and the local variables keep their types.
THEOREM ResetTypeCorrect ==
    ResetSpec => []ResetTypeOK
  <1>1. ResetInv => ResetTypeOK
    BY DEF ResetInv
  <1> QED
    BY InitResetInv, NextResetInv, <1>1, PTL DEF ResetSpec

\* However many mail jobs overlap and in whatever order they finish, a code
\* that became active has consumed every earlier one.
THEOREM ActivationSupersedes ==
    ResetSpec => []ActiveSupersedes
  <1>1. ResetInv => ActiveSupersedes
    BY DEF ResetInv
  <1> QED
    BY InitResetInv, NextResetInv, <1>1, PTL DEF ResetSpec

\* A code that was not accepted for delivery cannot complete a reset, whatever
\* fails and whenever a job dies.
THEOREM OnlyDeliveredUsable ==
    ResetSpec => []UsableWereDelivered
  <1>1. ResetInv => UsableWereDelivered
    BY DEF ResetInv
  <1> QED
    BY InitResetInv, NextResetInv, <1>1, PTL DEF ResetSpec

\* At most MaxAttempts wrong codes are compared with a challenge.
THEOREM BoundedGuesses ==
    ResetSpec => []GuessesBounded
  <1>1. ResetInv => GuessesBounded
    BY DEF ResetInv
  <1> QED
    BY InitResetInv, NextResetInv, <1>1, PTL DEF ResetSpec

\* A code completes at most one reset and never one after a newer code has.
THEOREM SpentCodesStaySpent ==
    ResetSpec => []SpentStaySpent
  <1>1. ResetInv => SpentStaySpent
    BY DEF ResetInv
  <1> QED
    BY InitResetInv, NextResetInv, <1>1, PTL DEF ResetSpec
=============================================================================
