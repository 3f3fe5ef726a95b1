----------------------- MODULE PasswordHistoryProofs ------------------------
(* Theorems about PasswordHistory, for every value of its constants. *)
EXTENDS PasswordHistory, FiniteSetTheorems, WellFoundedInduction, TLAPS

PC == {"idle", "otp", "consume", "validate", "update", "insert", "trim", "reset"}

\* The changes that have inserted an entry and not trimmed yet.
Trimming == {p \in Requests : req[p].pc = "trim"}

-----------------------------------------------------------------------------
(* The inductive invariants                                                *)

\* The request acts with a code it has consumed.
Holds(p) == req[p].pc \in {"validate", "update"}

CodeInv ==
    /\ \A p \in Requests : req[p].pc = "consume" => req[p].code \in Codes
    /\ \A p \in Requests :
           Holds(p) => /\ req[p].code \in Codes
                       /\ codes[req[p].code] = "consumed" /\ changed[req[p].code] = 0
    /\ \A p, q \in Requests :
           Holds(p) /\ Holds(q) /\ req[p].code = req[q].code => p = q
    /\ \A c \in Codes : changed[c] <= 1 /\ (changed[c] # 0 => codes[c] = "consumed")

\* The entries and the pending resets carry distinct readings of the clock.
TimeInv ==
    /\ IsFiniteSet(rows)
    /\ \A r \in rows : r.at < clock
    /\ \A r, s \in rows : r.at = s.at => r = s
    /\ \A p \in Requests :
           req[p].pc = "reset" => /\ req[p].at < clock
                                  /\ \A r \in rows : r.at # req[p].at
    /\ \A p, q \in Requests :
           req[p].pc = "reset" /\ req[q].pc = "reset" /\ req[p].at = req[q].at => p = q

NewestOf(R, n) == {r \in R : Cardinality({s \in R : s.at > r.at}) < n}

\* The last N of the first n passwords of seq are among the entries R, each
\* with fewer newer entries than passwords that followed it.
Covered(R, seq, n) ==
    \A i \in 1..n :
        n - i < PasswordHistoryN =>
            \E r \in R : r.pw = seq[i] /\ Cardinality({s \in R : s.at > r.at}) <= n - i

\* new neither equals nor resembles one of the last N passwords.
Novel(new) ==
    \A i \in 1..Len(sets) :
        Len(sets) - i < PasswordHistoryN => sets[i] # new /\ <<new, sets[i]>> \notin Close

SerialInv ==
    /\ serial => \A p, q \in Requests : req[p].pc # "idle" /\ req[q].pc # "idle" => p = q
    /\ serial => \A p \in Requests :
           req[p].pc = "reset" => \A r \in rows : r.at < req[p].at
    /\ serial /\ faults = 0 =>
           /\ NoReuse
           /\ \A p \in Requests : req[p].pc = "update" => Novel(req[p].new)
           /\ \A p \in Requests :
                  req[p].pc = "insert" => /\ Len(sets) > 0
                                          /\ sets[Len(sets)] = req[p].new
                                          /\ Covered(rows, sets, Len(sets) - 1)
           /\ (\A p \in Requests : req[p].pc # "insert") => Covered(rows, sets, Len(sets))

\* A nonempty set of numbers has a least one.
LEMMA Least ==
    ASSUME NEW T \in SUBSET Nat, T # {}
    PROVE  \E x \in T : \A y \in T : x <= y
<1>1. PICK R : R = OpToRel(<, Nat)
  BY Zenon
<1>2. IsWellFoundedOn(R, Nat)
  BY <1>1, NatLessThanWellFounded, Zenon
<1>3. PICK x \in T : \A y \in T : <<y, x>> \notin R
  BY Zenon, <1>2, WFMin
<1>4. \A y \in Nat : y < x => <<y, x>> \in R
  BY <1>1 DEF OpToRel
<1>5. ASSUME NEW y \in T PROVE x <= y
  <2>1. x \in Nat /\ y \in Nat /\ ~(y < x)
    BY Zenon, <1>3, <1>4
  <2> QED BY <2>1
<1> QED BY <1>5

\* A request that goes on keeps its password, code and time, and no other
\* request moves.
LEMMA Moved ==
    ASSUME TypeOK, NEW p \in Requests, NEW pc \in PC, Goto(p, pc)
    PROVE  /\ req' \in [Requests -> Request]
           /\ req'[p].pc = pc /\ req'[p].new = req[p].new
           /\ req'[p].code = req[p].code /\ req'[p].at = req[p].at
           /\ \A q \in Requests : q # p => req'[q] = req[q]
  BY Zenon DEF TypeOK, Goto, Request, PC

\* An idle request is a request.
LEMMA IdleIsRequest == Idle \in Request /\ Idle.pc = "idle"
  BY PasswordsAssumption, PasswordBoundsAssumption DEF Idle, Request

\* A request that ends is idle, and no other request moves.
LEMMA Ended ==
    ASSUME TypeOK, NEW p \in Requests, Done(p)
    PROVE  /\ req' \in [Requests -> Request]
           /\ req'[p].pc = "idle"
           /\ \A q \in Requests : q # p => req'[q] = req[q]
  BY IdleIsRequest DEF TypeOK, Done

\* What a completed reset does to the history.
LEMMA ResetEffect ==
    ASSUME NEW p \in Requests, CompletePasswordReset(p)
    PROVE  LET added == rows \cup {[pw |-> req[p].new, at |-> req[p].at]}
           IN \/ /\ Acceptable(req[p].new, Newest(PasswordHistoryN))
                 /\ password' = req[p].new /\ sets' = Append(sets, req[p].new)
                 /\ rows' = NewestOf(added, PasswordHistoryN)
              \/ password' = password /\ sets' = sets /\ rows' = rows
  BY DEF CompletePasswordReset, NewestOf

\* The variables have their types at first.
LEMMA InitTypeOK == Init => TypeOK
<1> SUFFICES ASSUME Init PROVE TypeOK
  OBVIOUS
<1>1. req \in [Requests -> Request]
  BY IdleIsRequest DEF Init
<1>2. <<Registered>> \in Seq(Passwords)
  BY PasswordsAssumption
<1> QED BY <1>1, <1>2, PasswordsAssumption, PasswordBoundsAssumption DEF Init, TypeOK

\* Every statement keeps the types.
LEMMA NextTypeOK == TypeOK /\ [Next]_vars => TypeOK'
<1> SUFFICES ASSUME TypeOK, [Next]_vars PROVE TypeOK'
  OBVIOUS
<1>1. CASE StartPasswordChange2FA
  BY <1>1 DEF StartPasswordChange2FA, TypeOK
<1>2. ASSUME NEW p \in Requests, NEW new \in Passwords, ChangePassword(p, new) PROVE TypeOK'
  <2>1. req' \in [Requests -> Request]
    BY ZenonT(40), <1>2 DEF ChangePassword, TypeOK, Request
  <2>2. serial' \in BOOLEAN
    BY <1>2 DEF ChangePassword
  <2> QED BY <1>2, <2>1, <2>2 DEF ChangePassword, TypeOK
<1>3. ASSUME NEW p \in Requests, NEW new \in Passwords, ResetPassword(p, new) PROVE TypeOK'
  <2>1. req' \in [Requests -> Request]
    <3>1. req' = [req EXCEPT ![p] = [@ EXCEPT !.pc = "reset", !.new = new, !.at = clock]]
      BY Zenon, <1>3 DEF ResetPassword, TypeOK, Request
    <3>2. [req[p] EXCEPT !.pc = "reset", !.new = new, !.at = clock] \in Request
      BY Zenon DEF TypeOK, Request
    <3> QED BY <3>1, <3>2 DEF TypeOK
  <2>2. serial' \in BOOLEAN /\ clock' \in Nat
    BY <1>3 DEF ResetPassword, TypeOK
  <2> QED BY <1>3, <2>1, <2>2 DEF ResetPassword, TypeOK
<1>4. ASSUME NEW p \in Requests, ReadCode(p) PROVE TypeOK'
  <2>1. CASE Done(p)
    BY <1>4, <2>1, Ended DEF ReadCode, TypeOK
  <2>2. CASE ~Done(p)
    <3>1. PICK c \in Codes : req' = [req EXCEPT ![p].pc = "consume", ![p].code = c]
      BY <1>4, <2>2 DEF ReadCode
    <3>2. c \in 0..MaxCodes
      BY DEF Codes
    <3>3. req' \in [Requests -> Request]
      BY ZenonT(40), <3>1, <3>2 DEF TypeOK, Request
    <3> QED BY <1>4, <3>3 DEF ReadCode, TypeOK
  <2> QED BY <2>1, <2>2
<1>5. ASSUME NEW p \in Requests, ConsumeOTP(p) PROVE TypeOK'
  <2>1. req' \in [Requests -> Request]
    BY <1>5, Ended, Moved DEF ConsumeOTP, PC
  <2>2. codes' \in [Codes -> {"none", "open", "consumed"}]
    BY <1>5 DEF ConsumeOTP, TypeOK
  <2> QED BY <1>5, <2>1, <2>2 DEF ConsumeOTP, TypeOK
<1>6. ASSUME NEW p \in Requests, Validate(p) PROVE TypeOK'
  <2>1. req' \in [Requests -> Request]
    BY <1>6, Ended, Moved DEF Validate, PC
  <2> QED BY <1>6, <2>1 DEF Validate, TypeOK
<1>7. ASSUME NEW p \in Requests, UpdatePassword(p) PROVE TypeOK'
  <2>1. req' \in [Requests -> Request]
    BY <1>7, Moved DEF UpdatePassword, PC
  <2>2. req[p].new \in Passwords
    BY DEF TypeOK, Request
  <2>3. sets' \in Seq(Passwords)
    BY <1>7, <2>2 DEF UpdatePassword, TypeOK
  <2>4. changed' \in [Codes -> Nat]
    <3>1. CASE req[p].code \in Codes
      BY <1>7, <3>1 DEF UpdatePassword, TypeOK
    <3>2. CASE req[p].code \notin Codes
      BY Zenon, <1>7, <3>2 DEF UpdatePassword, TypeOK
    <3> QED BY <3>1, <3>2
  <2> QED BY <1>7, <2>1, <2>2, <2>3, <2>4 DEF UpdatePassword, TypeOK
<1>8. ASSUME NEW p \in Requests, InsertPasswordHistory(p) PROVE TypeOK'
  <2>1. req' \in [Requests -> Request]
    BY <1>8, Moved DEF InsertPasswordHistory, PC
  <2>2. [pw |-> req[p].new, at |-> clock] \in [pw : Passwords, at : Nat] /\ clock + 1 \in Nat
    BY DEF TypeOK, Request
  <2> QED BY <1>8, <2>1, <2>2 DEF InsertPasswordHistory, TypeOK
<1>9. ASSUME NEW p \in Requests, TrimPasswordHistory(p) PROVE TypeOK'
  <2>1. req' \in [Requests -> Request]
    BY <1>9, Ended DEF TrimPasswordHistory
  <2> QED BY <1>9, <2>1 DEF TrimPasswordHistory, TypeOK, Newest
<1>10. ASSUME NEW p \in Requests, CompletePasswordReset(p) PROVE TypeOK'
  <2>1. req' \in [Requests -> Request]
    BY <1>10, Ended DEF CompletePasswordReset
  <2>2. [pw |-> req[p].new, at |-> req[p].at] \in [pw : Passwords, at : Nat] /\ req[p].new \in Passwords
    BY DEF TypeOK, Request
  <2>3. \A r \in rows' : r \in [pw : Passwords, at : Nat]
    <3>1. rows' \subseteq rows \cup {[pw |-> req[p].new, at |-> req[p].at]}
      BY Zenon, <1>10, ResetEffect DEF NewestOf
    <3> QED BY <2>2, <3>1 DEF TypeOK
  <2>4. sets' \in Seq(Passwords) /\ password' \in Passwords
    <3>1. \/ password' = req[p].new /\ sets' = Append(sets, req[p].new)
          \/ password' = password /\ sets' = sets
      BY Zenon, <1>10, ResetEffect
    <3>2. Append(sets, req[p].new) \in Seq(Passwords)
      BY <2>2 DEF TypeOK
    <3> QED BY Zenon, <2>2, <3>1, <3>2 DEF TypeOK
  <2> QED BY <1>10, <2>1, <2>3, <2>4 DEF CompletePasswordReset, TypeOK
<1>11. ASSUME NEW p \in Requests, Abort(p) PROVE TypeOK'
  <2>1. req' \in [Requests -> Request]
    BY <1>11, Ended DEF Abort
  <2>2. faults' \in 0..MaxFaults
    BY <1>11, PasswordBoundsAssumption DEF Abort, TypeOK
  <2> QED BY <1>11, <2>1, <2>2 DEF Abort, TypeOK
<1>12. CASE UNCHANGED vars
  BY <1>12 DEF vars, TypeOK
<1> QED BY <1>1, <1>2, <1>3, <1>4, <1>5, <1>6, <1>7, <1>8, <1>9, <1>10, <1>11, <1>12 DEF Next

-----------------------------------------------------------------------------
(* A code authorises one change                                            *)

\* No code is consumed at first.
LEMMA InitCodeInv == Init => CodeInv
  BY DEF Init, CodeInv, Idle, Holds

\* Every statement keeps what a request may assume of its code.
LEMMA NextCodeInv == TypeOK /\ CodeInv /\ [Next]_vars => CodeInv'
<1> SUFFICES ASSUME TypeOK, CodeInv, [Next]_vars PROVE CodeInv'
  OBVIOUS
<1> USE DEF Holds
<1>a. ASSUME NEW p \in Requests, Done(p), UNCHANGED <<codes, changed>> PROVE CodeInv'
  BY <1>a, Ended DEF CodeInv
<1>1. CASE StartPasswordChange2FA
  <2>1. \A c \in Codes : codes[c] = "consumed" => codes'[c] = "consumed"
    BY <1>1 DEF StartPasswordChange2FA, TypeOK
  <2> QED BY <1>1, <2>1 DEF StartPasswordChange2FA, CodeInv
<1>2. ASSUME NEW p \in Requests, NEW new \in Passwords,
             ChangePassword(p, new) \/ ResetPassword(p, new)
      PROVE  CodeInv'
  <2>1. /\ req'[p].pc \in {"otp", "reset"} /\ codes' = codes /\ changed' = changed
        /\ \A q \in Requests : q # p => req'[q] = req[q]
    BY <1>2 DEF ChangePassword, ResetPassword, TypeOK, Request
  <2> QED BY <2>1 DEF CodeInv
<1>3. ASSUME NEW p \in Requests, ReadCode(p), ~Done(p) PROVE CodeInv'
  <2>1. PICK c \in Codes : req' = [req EXCEPT ![p].pc = "consume", ![p].code = c]
    BY <1>3 DEF ReadCode
  <2>2. /\ req'[p].pc = "consume" /\ req'[p].code = c
        /\ \A q \in Requests : q # p => req'[q] = req[q]
    BY <2>1 DEF TypeOK, Request
  <2> QED BY <1>3, <2>2 DEF ReadCode, CodeInv
<1>4. ASSUME NEW p \in Requests, ConsumeOTP(p), ~Done(p) PROVE CodeInv'
  <2>1. /\ req[p].pc = "consume" /\ codes[req[p].code] = "open" /\ changed' = changed
        /\ codes' = [codes EXCEPT ![req[p].code] = "consumed"] /\ Goto(p, "validate")
    BY <1>4 DEF ConsumeOTP, Consumable
  <2>2. /\ req'[p].pc = "validate" /\ req'[p].code = req[p].code
        /\ \A q \in Requests : q # p => req'[q] = req[q]
    BY <2>1, Moved DEF PC
  <2>3. req[p].code \in Codes /\ changed[req[p].code] = 0
    BY <2>1 DEF CodeInv, TypeOK
  <2>4. \A c \in Codes : codes'[c] = IF c = req[p].code THEN "consumed" ELSE codes[c]
    BY <2>1 DEF TypeOK
  <2> QED BY <2>1, <2>2, <2>3, <2>4 DEF CodeInv
<1>5. ASSUME NEW p \in Requests, Validate(p), ~Done(p) PROVE CodeInv'
  <2>1. req[p].pc = "validate" /\ Goto(p, "update") /\ codes' = codes /\ changed' = changed
    BY <1>5 DEF Validate
  <2>2. /\ req'[p].pc = "update" /\ req'[p].code = req[p].code
        /\ \A q \in Requests : q # p => req'[q] = req[q]
    BY <2>1, Moved DEF PC
  <2> QED BY <2>1, <2>2 DEF CodeInv
<1>6. ASSUME NEW p \in Requests, UpdatePassword(p) PROVE CodeInv'
  <2>1. /\ req'[p].pc = "insert" /\ req'[p].code = req[p].code
        /\ \A q \in Requests : q # p => req'[q] = req[q]
    BY <1>6, Moved DEF UpdatePassword, PC
  <2>2. /\ req[p].pc = "update" /\ codes' = codes
        /\ changed' = [changed EXCEPT ![req[p].code] = @ + 1]
    BY <1>6 DEF UpdatePassword
  <2>3. req[p].code \in Codes /\ codes[req[p].code] = "consumed" /\ changed[req[p].code] = 0
    BY <2>2 DEF CodeInv
  <2>4. \A c \in Codes : changed'[c] = IF c = req[p].code THEN 1 ELSE changed[c]
    BY <2>2, <2>3 DEF TypeOK
  <2> QED BY <2>1, <2>2, <2>3, <2>4 DEF CodeInv
<1>7. ASSUME NEW p \in Requests, InsertPasswordHistory(p) PROVE CodeInv'
  <2>1. /\ req'[p].pc = "trim" /\ codes' = codes /\ changed' = changed
        /\ \A q \in Requests : q # p => req'[q] = req[q]
    BY <1>7, Moved DEF InsertPasswordHistory, PC
  <2> QED BY <2>1 DEF CodeInv
<1>8. CASE UNCHANGED vars
  BY <1>8 DEF vars, CodeInv
<1>9. ASSUME NEW p \in Requests, ReadCode(p) \/ ConsumeOTP(p) \/ Validate(p), Done(p)
      PROVE  CodeInv'
  <2>1. changed' = changed /\ (codes' = codes \/ req'[p].pc = "validate")
    <3>1. ConsumeOTP(p) => codes' = codes \/ Goto(p, "validate")
      BY DEF ConsumeOTP
    <3> QED BY <1>9, <3>1, Moved DEF ReadCode, ConsumeOTP, Validate, PC
  <2>2. codes' = codes
    BY <1>9, <2>1, Ended
  <2> QED BY <1>9, <1>a, <2>1, <2>2
<1>10. ASSUME NEW p \in Requests,
              TrimPasswordHistory(p) \/ CompletePasswordReset(p) \/ Abort(p)
       PROVE  CodeInv'
  BY <1>10, <1>a DEF TrimPasswordHistory, CompletePasswordReset, Abort
<1> QED BY <1>1, <1>2, <1>3, <1>4, <1>5, <1>6, <1>7, <1>8, <1>9, <1>10 DEF Next

\* A code authorises at most one password change, whatever requests race to
\* use it between the SELECT and the UPDATE of email_otp_challenges.
THEOREM ChangesPerCode == Spec => []OneChangePerCode
<1>1. CodeInv => OneChangePerCode
  BY DEF CodeInv, OneChangePerCode
<1> QED BY <1>1, InitTypeOK, NextTypeOK, InitCodeInv, NextCodeInv, PTL DEF Spec

-----------------------------------------------------------------------------
(* The history is bounded                                                  *)

\* The rows a check or a trim reads are the newest of the table.
LEMMA NewestIsNewestOf == \A n : Newest(n) = NewestOf(rows, n)
  BY DEF Newest, NewestOf

\* Of entries with distinct times, at most n have fewer than n newer ones.
LEMMA FewNewest ==
    ASSUME NEW R, IsFiniteSet(R), NEW n \in Nat,
           \A r \in R : r.at \in Nat,
           \A r, s \in R : r.at = s.at => r = s
    PROVE  IsFiniteSet(NewestOf(R, n)) /\ Cardinality(NewestOf(R, n)) <= n
<1> DEFINE K == NewestOf(R, n)
<1>1. K \subseteq R
  BY DEF NewestOf
<1>2. IsFiniteSet(K)
  BY <1>1, FS_Subset
<1>3. CASE K = {}
  BY <1>2, <1>3, FS_EmptySet
<1>4. CASE K # {}
  <2> DEFINE T == {r.at : r \in K}
  <2>1. T \in SUBSET Nat /\ T # {}
    BY <1>1, <1>4
  <2>2. PICK t \in T : \A u \in T : t <= u
    <3> HIDE DEF T
    <3> QED BY <2>1, Least
  <2>3. PICK x \in K : x.at = t
    BY <2>2
  <2> DEFINE Later == {s \in R : s.at > x.at}
  <2>4. K \ {x} \subseteq Later
    <3> SUFFICES ASSUME NEW y \in K, y # x PROVE y \in Later
      OBVIOUS
    <3>1. y.at \in T
      OBVIOUS
    <3>2. t <= y.at /\ y.at # x.at /\ y.at \in Nat /\ t \in Nat
      BY <3>1, <2>1, <2>2, <2>3, <1>1
    <3> QED BY <3>2, <2>3, <1>1
  <2>5. IsFiniteSet(Later)
    BY FS_Subset
  <2>6. Cardinality(K \ {x}) <= Cardinality(Later)
    BY <2>4, <2>5, FS_Subset
  <2>7. Cardinality(K \ {x}) = Cardinality(K) - 1
    BY Zenon, <1>2, <2>3, FS_RemoveElement
  <2>8. Cardinality(Later) < n
    BY Zenon, <2>3 DEF NewestOf
  <2>9. Cardinality(K) \in Nat /\ Cardinality(Later) \in Nat
    BY <1>2, <2>5, FS_CardinalityType
  <2> HIDE DEF K, Later
  <2>10. Cardinality(K) <= n
    BY <2>6, <2>7, <2>8, <2>9
  <2> QED BY <1>2, <2>10 DEF K
<1> QED BY <1>3, <1>4

\* No row is dated after the clock at first.
LEMMA InitTimeInv == Init => TimeInv
<1> SUFFICES ASSUME Init PROVE TimeInv
  OBVIOUS
<1>1. IsFiniteSet(rows)
  BY Zenon, FS_Singleton DEF Init
<1> QED BY <1>1 DEF Init, TimeInv, Idle

\* A step that reads no clock, writes no entry and starts no reset.
LEMMA TimeKept ==
    ASSUME TypeOK, TimeInv, IsFiniteSet(rows'), rows' \subseteq rows, clock' = clock,
           \A q \in Requests : req'[q].pc = "reset" =>
               req[q].pc = "reset" /\ req'[q].at = req[q].at
    PROVE  TimeInv'
  BY DEF TimeInv

\* Every statement keeps the dates of rows and requests distinct and past.
LEMMA NextTimeInv == TypeOK /\ TimeInv /\ [Next]_vars => TimeInv'
<1> SUFFICES ASSUME TypeOK, TimeInv, [Next]_vars PROVE TimeInv'
  OBVIOUS
<1>a. IsFiniteSet(rows)
  BY DEF TimeInv
<1>b. ASSUME NEW p \in Requests, Done(p), rows' \subseteq rows, clock' = clock PROVE TimeInv'
  <2>1. IsFiniteSet(rows')
    BY <1>a, <1>b, FS_Subset
  <2>2. \A q \in Requests : req'[q].pc = "reset" =>
            req[q].pc = "reset" /\ req'[q].at = req[q].at
    BY <1>b, Ended
  <2> QED BY <1>b, <2>1, <2>2, TimeKept
<1>1. CASE StartPasswordChange2FA \/ UNCHANGED vars
  <2>1. rows' = rows /\ clock' = clock /\ req' = req
    BY <1>1 DEF StartPasswordChange2FA, vars
  <2> QED BY <2>1, <1>a, TimeKept
<1>2. ASSUME NEW p \in Requests, NEW new \in Passwords, ChangePassword(p, new) PROVE TimeInv'
  <2>1. /\ req'[p].pc = "otp" /\ rows' = rows /\ clock' = clock
        /\ \A q \in Requests : q # p => req'[q] = req[q]
    BY <1>2 DEF ChangePassword, TypeOK, Request
  <2> QED BY <2>1, <1>a, TimeKept
<1>3. ASSUME NEW p \in Requests, NEW new \in Passwords, ResetPassword(p, new) PROVE TimeInv'
  <2>1. /\ req'[p].pc = "reset" /\ req'[p].at = clock
        /\ \A q \in Requests : q # p => req'[q] = req[q]
    BY <1>3 DEF ResetPassword, TypeOK, Request
  <2>2. rows' = rows /\ clock' = clock + 1
    BY <1>3 DEF ResetPassword
  <2>3. /\ clock \in Nat /\ \A q \in Requests : req[q].at \in Nat
        /\ \A r \in rows : r.at \in Nat
    BY DEF TypeOK, Request
  <2> QED BY <2>1, <2>2, <2>3 DEF TimeInv
<1>4. ASSUME NEW p \in Requests,
             ReadCode(p) \/ ConsumeOTP(p) \/ Validate(p) \/ UpdatePassword(p)
      PROVE  TimeInv'
  <2>1. rows' = rows /\ clock' = clock
    BY <1>4 DEF ReadCode, ConsumeOTP, Validate, UpdatePassword
  <2>2. CASE Done(p)
    BY <1>b, <2>1, <2>2
  <2>3. CASE ~Done(p)
    <3>1. /\ req'[p].pc \in {"consume", "validate", "update", "insert"}
          /\ \A q \in Requests : q # p => req'[q] = req[q]
      <4>1. CASE ReadCode(p)
        BY ZenonT(40), <4>1, <2>3 DEF ReadCode, TypeOK, Request
      <4>2. CASE ~ReadCode(p)
        BY <4>2, <1>4, <2>3, Moved DEF ConsumeOTP, Validate, UpdatePassword, PC
      <4> QED BY <4>1, <4>2
    <3> QED BY <2>1, <3>1, <1>a, TimeKept
  <2> QED BY <2>2, <2>3
<1>5. ASSUME NEW p \in Requests, InsertPasswordHistory(p) PROVE TimeInv'
  <2> DEFINE e == [pw |-> req[p].new, at |-> clock]
  <2>1. rows' = rows \cup {e} /\ clock' = clock + 1 /\ e.at = clock
    BY <1>5 DEF InsertPasswordHistory
  <2>2. /\ req'[p].pc = "trim"
        /\ \A q \in Requests : q # p => req'[q] = req[q]
    BY <1>5, Moved DEF InsertPasswordHistory, PC
  <2>3. IsFiniteSet(rows')
    BY Zenon, <2>1, <1>a, FS_AddElement
  <2>4. /\ clock \in Nat /\ \A q \in Requests : req[q].at \in Nat
        /\ \A r \in rows : r.at \in Nat
    BY DEF TypeOK, Request
  <2> HIDE DEF e
  <2> QED BY <2>1, <2>2, <2>3, <2>4 DEF TimeInv
<1>6. ASSUME NEW p \in Requests, TrimPasswordHistory(p) PROVE TimeInv'
  BY <1>6, <1>b DEF TrimPasswordHistory, Newest
<1>7. ASSUME NEW p \in Requests, Abort(p) PROVE TimeInv'
  BY <1>7, <1>b DEF Abort
<1>8. ASSUME NEW p \in Requests, CompletePasswordReset(p) PROVE TimeInv'
  <2> DEFINE e == [pw |-> req[p].new, at |-> req[p].at]
  <2>1. rows' \subseteq rows \cup {e} /\ e.at = req[p].at
    BY Zenon, <1>8, ResetEffect DEF NewestOf
  <2>2. Done(p) /\ clock' = clock /\ req[p].pc = "reset"
    BY <1>8 DEF CompletePasswordReset
  <2>3. IsFiniteSet(rows')
    <3>1. IsFiniteSet(rows \cup {e})
      BY <1>a, FS_AddElement
    <3> QED BY <2>1, <3>1, FS_Subset
  <2>4. req'[p].pc = "idle" /\ \A q \in Requests : q # p => req'[q] = req[q]
    BY <2>2, Ended
  <2> HIDE DEF e
  <2> QED BY <2>1, <2>2, <2>3, <2>4 DEF TimeInv
<1> QED BY <1>1, <1>2, <1>3, <1>4, <1>5, <1>6, <1>7, <1>8 DEF Next

\* Finitely many changes are before their trim.
LEMMA TrimmingFinite == IsFiniteSet(Trimming) /\ Cardinality(Trimming) \in Nat
<1>1. Trimming \subseteq Requests
  BY DEF Trimming
<1> QED BY <1>1, InFlightAssumption, FS_Subset, FS_CardinalityType

\* The same after a step.
LEMMA NextTrimmingFinite == IsFiniteSet(Trimming') /\ Cardinality(Trimming') \in Nat
<1>1. Trimming' \subseteq Requests
  BY DEF Trimming
<1> QED BY <1>1, InFlightAssumption, FS_Subset, FS_CardinalityType

\* Every statement keeps HistoryBounded: an insert adds a row and a trim to
\* come, a trim takes the surplus away.
LEMMA NextBounded ==
    TypeOK /\ TimeInv /\ HistoryBounded /\ [Next]_vars => HistoryBounded'
<1> SUFFICES ASSUME TypeOK, TimeInv, HistoryBounded, [Next]_vars PROVE HistoryBounded'
  OBVIOUS
<1> DEFINE T == Cardinality(Trimming)
           C == Cardinality(rows)
           N == PasswordHistoryN
<1>a. IsFiniteSet(rows) /\ C \in Nat /\ T \in Nat /\ T' \in Nat /\ N \in Nat /\ faults \in Nat
      /\ faults' \in Nat
  <2>1. TypeOK'
    BY NextTypeOK
  <2> QED BY <2>1, TrimmingFinite, NextTrimmingFinite, FS_CardinalityType, HistoryAssumption,
             PasswordBoundsAssumption DEF TimeInv, TypeOK
<1>b. C <= N + T + faults
  BY DEF HistoryBounded, Trimming
<1>c. SUFFICES C' <= N + T' + faults'
  BY DEF HistoryBounded, Trimming
<1>d. ASSUME NEW R, R = rows' /\ Cardinality(R) <= N PROVE C' <= N + T' + faults'
  <2>1. C' <= N /\ IsFiniteSet(rows')
    <3>1. IsFiniteSet(rows')
      BY NextTimeInv DEF TimeInv
    <3> QED BY <1>d, <3>1
  <2>2. C' \in Nat
    BY <2>1, FS_CardinalityType
  <2>3. \A c, n, t, f \in Nat : c <= n => c <= n + t + f
    OBVIOUS
  <2> HIDE DEF C, T, N
  <2> QED BY <2>1, <2>2, <2>3, <1>a, Zenon
<1>e. ASSUME rows' = rows, faults' = faults,
             \A q \in Requests : req'[q].pc = "trim" <=> req[q].pc = "trim"
      PROVE  C' <= N + T' + faults'
  <2>1. T' = T
    BY <1>e DEF Trimming
  <2> QED BY <1>b, <1>e, <2>1
<1>1. CASE StartPasswordChange2FA \/ UNCHANGED vars
  <2>1. rows' = rows /\ faults' = faults /\ req' = req
    BY <1>1 DEF StartPasswordChange2FA, vars
  <2> QED BY <2>1, <1>e
<1>2. ASSUME NEW p \in Requests, NEW new \in Passwords,
             ChangePassword(p, new) \/ ResetPassword(p, new)
      PROVE  C' <= N + T' + faults'
  <2>1. /\ req'[p].pc \in {"otp", "reset"} /\ req[p].pc = "idle"
        /\ \A q \in Requests : q # p => req'[q] = req[q]
    BY <1>2 DEF ChangePassword, ResetPassword, TypeOK, Request
  <2>2. rows' = rows /\ faults' = faults
    BY <1>2 DEF ChangePassword, ResetPassword
  <2> QED BY <2>1, <2>2, <1>e
<1>3. ASSUME NEW p \in Requests,
             ReadCode(p) \/ ConsumeOTP(p) \/ Validate(p) \/ UpdatePassword(p)
      PROVE  C' <= N + T' + faults'
  <2>1. rows' = rows /\ faults' = faults /\ req[p].pc \in {"otp", "consume", "validate", "update"}
    BY <1>3 DEF ReadCode, ConsumeOTP, Validate, UpdatePassword
  <2>2. /\ req'[p].pc # "trim"
        /\ \A q \in Requests : q # p => req'[q] = req[q]
    <3>1. CASE Done(p)
      BY <3>1, Ended
    <3>2. CASE ReadCode(p) /\ ~Done(p)
      BY ZenonT(40), <3>2 DEF ReadCode, TypeOK, Request
    <3>3. CASE ~ReadCode(p) /\ ~Done(p)
      BY <3>3, <1>3, Moved DEF ConsumeOTP, Validate, UpdatePassword, PC
    <3> QED BY <3>1, <3>2, <3>3
  <2> QED BY <2>1, <2>2, <1>e
<1>4. ASSUME NEW p \in Requests, InsertPasswordHistory(p) PROVE C' <= N + T' + faults'
  <2>1. /\ req'[p].pc = "trim" /\ req[p].pc = "insert" /\ faults' = faults
        /\ \A q \in Requests : q # p => req'[q] = req[q]
    BY <1>4, Moved DEF InsertPasswordHistory, PC
  <2>2. Trimming' = Trimming \cup {p} /\ p \notin Trimming
    BY <2>1 DEF Trimming
  <2>3. T' = T + 1
    BY <2>2, TrimmingFinite, FS_AddElement
  <2>4. C' <= C + 1 /\ C' \in Nat
    <3>1. PICK e : rows' = rows \cup {e}
      BY Zenon, <1>4 DEF InsertPasswordHistory
    <3>2. IsFiniteSet(rows') /\ (C' = C \/ C' = C + 1)
      BY <3>1, <1>a, FS_AddElement
    <3> HIDE DEF C
    <3> QED BY <3>2, <1>a
  <2> HIDE DEF C, T, N
  <2> QED BY <1>a, <1>b, <2>1, <2>3, <2>4
<1>f. \A r \in rows : r.at \in Nat
  BY DEF TypeOK
<1>5. ASSUME NEW p \in Requests, TrimPasswordHistory(p) PROVE C' <= N + T' + faults'
  <2>1. rows' = NewestOf(rows, N)
    BY <1>5, NewestIsNewestOf DEF TrimPasswordHistory
  <2>2. Cardinality(NewestOf(rows, N)) <= N
    BY <1>a, <1>f, FewNewest DEF TimeInv
  <2> QED BY <2>1, <2>2, <1>d
<1>6. ASSUME NEW p \in Requests, CompletePasswordReset(p) PROVE C' <= N + T' + faults'
  <2> DEFINE e == [pw |-> req[p].new, at |-> req[p].at]
             A == rows \cup {e}
  <2>1. req[p].pc = "reset" /\ faults' = faults /\ Done(p)
    BY <1>6 DEF CompletePasswordReset
  <2>2. CASE rows' = rows
    BY <2>1, <2>2, <1>e, Ended
  <2>3. CASE rows' = NewestOf(A, N)
    <3>1. IsFiniteSet(A) /\ e.at = req[p].at /\ req[p].at \in Nat
      <4>1. \A x : IsFiniteSet(rows \cup {x})
        BY <1>a, FS_AddElement
      <4>2. req[p].at \in Nat
        BY DEF TypeOK, Request
      <4> QED BY Zenon, <4>1, <4>2
    <3>2. \A r \in A : r.at \in Nat
      BY <3>1, <1>f
    <3>3. \A r, s \in A : r.at = s.at => r = s
      <4> HIDE DEF e
      <4> QED BY <2>1, <3>1 DEF TimeInv
    <3>4. Cardinality(NewestOf(A, N)) <= N
      <4> HIDE DEF A
      <4> QED BY <3>1, <3>2, <3>3, <1>a, FewNewest
    <3> QED BY <2>3, <3>4, <1>d
  <2> QED BY ZenonT(40), <1>6, <2>2, <2>3, ResetEffect
<1>7. ASSUME NEW p \in Requests, Abort(p) PROVE C' <= N + T' + faults'
  <2>1. /\ req'[p].pc = "idle" /\ \A q \in Requests : q # p => req'[q] = req[q]
        /\ faults' = faults + 1 /\ rows' = rows
    BY <1>7, Ended DEF Abort
  <2>2. Trimming' = Trimming \ {p}
    BY <2>1 DEF Trimming
  <2>3. T' >= T - 1
    <3>1. CASE p \in Trimming
      BY <3>1, <2>2, TrimmingFinite, FS_RemoveElement
    <3>2. CASE p \notin Trimming
      <4>1. Trimming' = Trimming
        BY <2>2, <3>2
      <4>2. T' = T
        BY <4>1
      <4> HIDE DEF T
      <4> QED BY <4>2, <1>a
    <3> QED BY <3>1, <3>2
  <2>4. C' = C
    BY <2>1
  <2>5. \A c, n, t, u, f \in Nat : c <= n + t + f /\ u >= t - 1 => c <= n + u + (f + 1)
    OBVIOUS
  <2> HIDE DEF C, T, N
  <2> QED BY <1>a, <1>b, <2>1, <2>3, <2>4, <2>5
<1> QED BY <1>1, <1>2, <1>3, <1>4, <1>5, <1>6, <1>7 DEF Next

\* The history is short enough at first.
LEMMA InitBounded == Init => HistoryBounded
<1> SUFFICES ASSUME Init PROVE HistoryBounded
  OBVIOUS
<1>1. Cardinality(rows) = 1
  BY Zenon, FS_Singleton DEF Init
<1>2. Cardinality(Trimming) \in Nat
  BY TrimmingFinite
<1> QED BY <1>1, <1>2, HistoryAssumption DEF Init, HistoryBounded, Trimming

\* TrimPasswordHistory keeps password_history at N entries, those of the
\* changes that have not trimmed yet or failed before it on top.
THEOREM HistoryStaysBounded == Spec => []HistoryBounded
  BY InitTypeOK, NextTypeOK, InitTimeInv, NextTimeInv, InitBounded, NextBounded, PTL DEF Spec

-----------------------------------------------------------------------------
(* Passwords that follow each other are not reused                         *)

\* One more element makes a finite set larger by at most one.
LEMMA AddedToFinite ==
    ASSUME NEW L, IsFiniteSet(L), NEW x
    PROVE  /\ IsFiniteSet(L \cup {x})
           /\ Cardinality(L) \in Nat /\ Cardinality(L \cup {x}) \in Nat
           /\ Cardinality(L \cup {x}) <= Cardinality(L) + 1
<1>1. Cardinality(L) \in Nat
  BY FS_CardinalityType
<1>2. CASE x \in L
  <2>1. L \cup {x} = L
    BY <1>2
  <2> QED BY <1>1, <2>1
<1>3. CASE x \notin L
  BY <1>1, <1>3, FS_AddElement
<1> QED BY <1>2, <1>3

\* An entry newer than all others covers one more password.
LEMMA InsertCovers ==
    ASSUME NEW R, IsFiniteSet(R), NEW e, NEW seq, NEW n \in Nat \ {0},
           e.at \in Nat, e.pw = seq[n],
           \A r \in R : r.at \in Nat /\ r.at < e.at,
           Covered(R, seq, n - 1)
    PROVE  Covered(R \cup {e}, seq, n)
<1> DEFINE A == R \cup {e}
           Later(X, r) == {s \in X : s.at > r.at}
<1> SUFFICES ASSUME NEW i \in 1..n, n - i < PasswordHistoryN
             PROVE  \E r \in A : r.pw = seq[i] /\ Cardinality(Later(A, r)) <= n - i
  BY DEF Covered
<1>1. CASE i = n
  <2>1. Later(A, e) = {}
    OBVIOUS
  <2>2. Cardinality(Later(A, e)) = 0
    BY <2>1, FS_EmptySet
  <2>3. Cardinality(Later(A, e)) <= n - i
    BY <1>1, <2>2
  <2> QED BY Zenon, <1>1, <2>3
<1>2. CASE i # n
  <2>1. i \in 1..(n - 1) /\ (n - 1) - i < PasswordHistoryN
    BY <1>2, HistoryAssumption
  <2>2. PICK r \in R : r.pw = seq[i] /\ Cardinality(Later(R, r)) <= (n - 1) - i
    BY <2>1 DEF Covered
  <2>3. Later(A, r) \subseteq Later(R, r) \cup {e}
    OBVIOUS
  <2>4. IsFiniteSet(Later(R, r))
    BY FS_Subset
  <2> HIDE DEF Later
  <2>5. /\ IsFiniteSet(Later(R, r) \cup {e})
        /\ Cardinality(Later(R, r) \cup {e}) <= Cardinality(Later(R, r)) + 1
        /\ Cardinality(Later(R, r)) \in Nat /\ Cardinality(Later(R, r) \cup {e}) \in Nat
    BY Zenon, <2>4, AddedToFinite
  <2>6. /\ Cardinality(Later(A, r)) <= Cardinality(Later(R, r) \cup {e})
        /\ Cardinality(Later(A, r)) \in Nat
    BY Zenon, <2>3, <2>5, FS_Subset, FS_CardinalityType
  <2>7. Cardinality(Later(A, r)) <= n - i
    BY <2>2, <2>5, <2>6
  <2> QED BY <2>2, <2>7
<1> QED BY <1>1, <1>2

\* Trimming removes no entry that covers one of the last N passwords.
LEMMA TrimCovers ==
    ASSUME NEW R, IsFiniteSet(R), NEW seq, NEW n \in Nat, Covered(R, seq, n)
    PROVE  Covered(NewestOf(R, PasswordHistoryN), seq, n)
<1> DEFINE K == NewestOf(R, PasswordHistoryN)
           Later(X, r) == {s \in X : s.at > r.at}
<1> SUFFICES ASSUME NEW i \in 1..n, n - i < PasswordHistoryN
             PROVE  \E r \in K : r.pw = seq[i] /\ Cardinality(Later(K, r)) <= n - i
  BY DEF Covered
<1>1. PICK r \in R : r.pw = seq[i] /\ Cardinality(Later(R, r)) <= n - i
  BY DEF Covered
<1>2. IsFiniteSet(Later(R, r)) /\ Later(K, r) \subseteq Later(R, r)
  BY FS_Subset DEF NewestOf
<1>3. /\ Cardinality(Later(K, r)) <= Cardinality(Later(R, r))
      /\ Cardinality(Later(K, r)) \in Nat /\ Cardinality(Later(R, r)) \in Nat
  BY <1>2, FS_Subset, FS_CardinalityType
<1>4. Cardinality(Later(R, r)) < PasswordHistoryN /\ Cardinality(Later(K, r)) <= n - i
  <2> HIDE DEF Later, K
  <2> QED BY <1>1, <1>3, HistoryAssumption
<1>5. r \in K
  BY <1>4 DEF NewestOf
<1> QED BY Zenon, <1>1, <1>4, <1>5

\* What validatePasswordHistory accepts is new to a covered account.
LEMMA CoveredNovel ==
    ASSUME TypeOK, IsFiniteSet(rows), Covered(rows, sets, Len(sets)),
           NEW new, Acceptable(new, Newest(PasswordHistoryN))
    PROVE  Novel(new)
<1> DEFINE Later(r) == {s \in rows : s.at > r.at}
<1> SUFFICES ASSUME NEW i \in 1..Len(sets), Len(sets) - i < PasswordHistoryN
             PROVE  sets[i] # new /\ <<new, sets[i]>> \notin Close
  BY DEF Novel
<1>1. PICK r \in rows : r.pw = sets[i] /\ Cardinality(Later(r)) <= Len(sets) - i
  BY Zenon DEF Covered
<1>2. IsFiniteSet(Later(r))
  BY FS_Subset
<1>3. Cardinality(Later(r)) < PasswordHistoryN
  <2>1. Cardinality(Later(r)) \in Nat /\ Len(sets) \in Nat
    BY <1>2, FS_CardinalityType DEF TypeOK
  <2> HIDE DEF Later
  <2> QED BY <1>1, <2>1, HistoryAssumption
<1>4. r \in Newest(PasswordHistoryN)
  BY <1>3 DEF Newest
<1> QED BY <1>1, <1>4 DEF Acceptable

\* Setting a password that is not among the last ones is no reuse.
LEMMA AppendNoReuse ==
    ASSUME TypeOK, NoReuse, NEW new \in Passwords, Novel(new), sets' = Append(sets, new)
    PROVE  NoReuse'
<1> SUFFICES ASSUME NEW j \in 1..Len(sets'), NEW i \in 1..(j - 1), j - i <= PasswordHistoryN
             PROVE  sets'[i] # sets'[j] /\ <<sets'[j], sets'[i]>> \notin Close
  BY DEF NoReuse
<1>1. /\ Len(sets) \in Nat /\ Len(sets') = Len(sets) + 1 /\ sets'[Len(sets) + 1] = new
      /\ \A k \in 1..Len(sets) : sets'[k] = sets[k]
  BY DEF TypeOK
<1>2. CASE j <= Len(sets)
  <2>1. j \in 1..Len(sets) /\ i \in 1..Len(sets)
    BY <1>1, <1>2
  <2> QED BY <1>1, <2>1 DEF NoReuse
<1>3. CASE j = Len(sets) + 1
  <2>1. i \in 1..Len(sets) /\ Len(sets) - i < PasswordHistoryN
    BY <1>1, <1>3, HistoryAssumption
  <2> QED BY <1>1, <1>3, <2>1 DEF Novel
<1>4. j <= Len(sets) \/ j = Len(sets) + 1
  BY <1>1
<1> QED BY ZenonT(40), <1>2, <1>3, <1>4

\* One more password leaves the earlier ones covered.
LEMMA CoveredAppend ==
    ASSUME TypeOK, NEW R, Covered(R, sets, Len(sets)), NEW new \in Passwords
    PROVE  Covered(R, Append(sets, new), Len(sets))
<1>1. \A k \in 1..Len(sets) : Append(sets, new)[k] = sets[k]
  BY DEF TypeOK
<1> QED BY Zenon, <1>1 DEF Covered

\* The rows cover the recent passwords at first.
LEMMA InitSerialInv == Init => SerialInv
<1> SUFFICES ASSUME Init PROVE SerialInv
  OBVIOUS
<1>1. \A p \in Requests : req[p].pc = "idle"
  BY DEF Init, Idle
<1>2. sets = <<Registered>> /\ Len(sets) = 1 /\ sets[1] = Registered
  BY DEF Init
<1>3. NoReuse
  BY <1>2 DEF NoReuse
<1> DEFINE r == [pw |-> Registered, at |-> 0]
<1>4. {s \in rows : s.at > r.at} = {}
  BY DEF Init
<1>5. Cardinality({s \in rows : s.at > r.at}) = 0
  BY <1>4, FS_EmptySet
<1>6. r \in rows /\ r.pw = Registered
  BY DEF Init
<1>7. Covered(rows, sets, Len(sets))
  <2> HIDE DEF r
  <2> QED BY <1>2, <1>5, <1>6 DEF Covered
<1> QED BY <1>1, <1>3, <1>7 DEF SerialInv

\* The invariant after a step of the only request in flight.
LEMMA SerialStep ==
    ASSUME NEW p \in Requests,
           \A q \in Requests : q # p => req'[q].pc = "idle",
           req'[p].pc = "reset" => \A r \in rows' : r.at < req'[p].at,
           serial' /\ faults' = 0 =>
              /\ NoReuse'
              /\ req'[p].pc = "update" => Novel(req[p].new)'
              /\ req'[p].pc = "insert" => /\ Len(sets') > 0
                                          /\ sets'[Len(sets')] = req'[p].new
                                          /\ Covered(rows', sets', Len(sets') - 1)
              /\ req'[p].pc # "insert" => Covered(rows', sets', Len(sets'))
    PROVE  SerialInv'
<1>1. \A q, u \in Requests : req'[q].pc # "idle" /\ req'[u].pc # "idle" => q = u
  OBVIOUS
<1>2. \A q \in Requests : req'[q].pc = "reset" => \A r \in rows' : r.at < req'[q].at
  OBVIOUS
<1>3. ASSUME serial', faults' = 0
      PROVE  /\ NoReuse'
             /\ \A q \in Requests : req'[q].pc = "update" => Novel(req[q].new)'
             /\ \A q \in Requests :
                  req'[q].pc = "insert" => /\ Len(sets') > 0
                                           /\ sets'[Len(sets')] = req'[q].new
                                           /\ Covered(rows', sets', Len(sets') - 1)
             /\ (\A q \in Requests : req'[q].pc # "insert") => Covered(rows', sets', Len(sets'))
  BY <1>3
<1> QED BY Zenon, <1>1, <1>2, <1>3 DEF SerialInv, Covered

\* Every statement keeps the recent passwords of a serial history covered.
LEMMA NextSerialInv == TypeOK /\ TimeInv /\ SerialInv /\ [Next]_vars => SerialInv'
<1> SUFFICES ASSUME TypeOK, TimeInv, SerialInv, [Next]_vars PROVE SerialInv'
  BY SMTT(40)
<1> DEFINE L == Len(sets)
<1>a. CASE ~serial'
  BY <1>a DEF SerialInv
<1>b. L \in Nat /\ faults \in Nat /\ IsFiniteSet(rows) /\ \A r \in rows : r.at \in Nat
  BY PasswordBoundsAssumption DEF TypeOK, TimeInv
\* The request that steps is the only one.
<1>c. ASSUME NEW p \in Requests, req[p].pc # "idle", serial
      PROVE  /\ \A q \in Requests : q # p => req[q].pc = "idle"
             /\ (faults = 0 /\ req[p].pc # "insert") => NoReuse /\ Covered(rows, sets, L)
             /\ faults = 0 => NoReuse
  <2>1. \A q \in Requests : q # p => req[q].pc = "idle"
    BY <1>c DEF SerialInv
  <2>2. req[p].pc # "insert" => \A q \in Requests : req[q].pc # "insert"
    BY <2>1
  <2>3. serial /\ faults = 0 =>
          NoReuse /\ ((\A q \in Requests : req[q].pc # "insert") => Covered(rows, sets, L))
    BY DEF SerialInv
  <2> QED BY <1>c, <2>1, <2>2, <2>3
<1>1. CASE StartPasswordChange2FA \/ UNCHANGED vars
  <2>1. UNCHANGED <<rows, req, sets, serial, faults>>
    BY <1>1 DEF StartPasswordChange2FA, vars
  <2> QED BY ZenonT(40), <2>1 DEF SerialInv, NoReuse, Novel, Covered
<1>2. ASSUME NEW p \in Requests, NEW new \in Passwords,
             ChangePassword(p, new) \/ ResetPassword(p, new), serial'
      PROVE  SerialInv'
  <2>1. /\ serial /\ Alone /\ UNCHANGED <<rows, sets, faults>>
    BY Zenon, <1>2 DEF ChangePassword, ResetPassword
  <2>2. /\ req'[p].pc \in {"otp", "reset"} /\ (req'[p].pc = "reset" => req'[p].at = clock)
        /\ \A q \in Requests : q # p => req'[q] = req[q]
    <3>1. CASE ChangePassword(p, new)
      BY <3>1 DEF ChangePassword, TypeOK, Request
    <3>2. CASE ResetPassword(p, new)
      BY <3>2 DEF ResetPassword, TypeOK, Request
    <3> QED BY <1>2, <3>1, <3>2
  <2>3. \A q \in Requests : req[q].pc = "idle"
    BY <2>1 DEF Alone
  <2>4. faults = 0 => NoReuse /\ Covered(rows, sets, L)
    <3>1. \A q \in Requests : req[q].pc # "insert"
      BY <2>3
    <3>2. serial /\ faults = 0 =>
            NoReuse /\ ((\A q \in Requests : req[q].pc # "insert") => Covered(rows, sets, L))
      BY DEF SerialInv
    <3> QED BY <2>1, <3>1, <3>2
  <2>5. NoReuse => NoReuse'
    BY <2>1 DEF NoReuse
  <2>6. \A r \in rows' : r.at < clock
    BY Zenon, <2>1 DEF TimeInv
  <2> QED BY <2>1, <2>2, <2>3, <2>4, <2>5, <2>6, SerialStep
<1>3. ASSUME NEW p \in Requests, ReadCode(p) \/ ConsumeOTP(p) \/ Validate(p), serial'
      PROVE  SerialInv'
  <2>1. /\ req[p].pc \in {"otp", "consume", "validate"}
        /\ UNCHANGED <<rows, sets, serial, faults>>
    BY ZenonT(40), <1>3 DEF ReadCode, ConsumeOTP, Validate
  <2>2. /\ \A q \in Requests : q # p => req[q].pc = "idle"
        /\ faults = 0 => NoReuse /\ Covered(rows, sets, L)
    BY Zenon, <1>3, <1>c, <2>1
  <2>3. \/ req'[p].pc \in {"idle", "consume", "validate"}
        \/ /\ req'[p].pc = "update" /\ req'[p].new = req[p].new
           /\ Acceptable(req[p].new, Newest(PasswordHistoryN))
    <3>1. CASE Done(p)
      BY <3>1, Ended
    <3>2. CASE ReadCode(p) /\ ~Done(p)
      BY SMTT(40), <3>2 DEF ReadCode, TypeOK, Request
    <3>3. CASE ConsumeOTP(p) /\ ~Done(p)
      BY Zenon, <3>3, Moved DEF ConsumeOTP, PC
    <3>4. CASE Validate(p) /\ ~Done(p)
      BY Zenon, <3>4, Moved DEF Validate, PC
    <3> QED BY Zenon, <1>3, <3>1, <3>2, <3>3, <3>4
  <2>4. \A q \in Requests : q # p => req'[q] = req[q]
    <3>1. CASE Done(p)
      BY <3>1, Ended
    <3>2. CASE ReadCode(p) /\ ~Done(p)
      BY Zenon, <3>2 DEF ReadCode, TypeOK, Request
    <3>3. CASE (ConsumeOTP(p) \/ Validate(p)) /\ ~Done(p)
      BY Zenon, <3>3, Moved DEF ConsumeOTP, Validate, PC
    <3> QED BY <1>3, <3>1, <3>2, <3>3
  <2>5. NoReuse => NoReuse'
    BY Zenon, <2>1 DEF NoReuse
  <2>6. faults = 0 /\ req'[p].pc = "update" => Novel(req[p].new)'
    <3> SUFFICES ASSUME faults = 0, req'[p].pc = "update" PROVE Novel(req[p].new)'
      OBVIOUS
    <3>1. Novel(req[p].new) /\ req'[p].new = req[p].new
      BY Zenon, <1>b, <2>2, <2>3, CoveredNovel
    <3> QED BY <2>1, <3>1 DEF Novel
  <2> QED BY <2>1, <2>2, <2>3, <2>4, <2>5, <2>6, SerialStep
<1>4. ASSUME NEW p \in Requests, UpdatePassword(p), serial' PROVE SerialInv'
  <2>1. /\ req[p].pc = "update" /\ sets' = Append(sets, req[p].new)
        /\ UNCHANGED <<rows, serial, faults>>
    BY ZenonT(40), <1>4 DEF UpdatePassword
  <2>2. /\ req'[p].pc = "insert" /\ req'[p].new = req[p].new
        /\ \A q \in Requests : q # p => req'[q] = req[q]
    BY <1>4, Moved DEF UpdatePassword, PC
  <2>3. /\ \A q \in Requests : q # p => req[q].pc = "idle"
        /\ faults = 0 => NoReuse /\ Covered(rows, sets, L)
    BY <1>4, <1>c, <2>1
  <2>4. req[p].new \in Passwords
    BY DEF TypeOK, Request
  <2>5. faults = 0 => Novel(req[p].new)
    BY <1>4, <2>1 DEF SerialInv
  <2>6. faults = 0 => NoReuse'
    BY Zenon, <2>1, <2>3, <2>4, <2>5, AppendNoReuse
  <2>7. faults = 0 => Covered(rows', sets', L)
    BY <2>1, <2>3, <2>4, CoveredAppend
  <2>8. Len(sets') = L + 1 /\ sets'[L + 1] = req[p].new
    BY <2>1, <2>4 DEF TypeOK
  <2>9. Len(sets') > 0 /\ Len(sets') - 1 = L /\ sets'[Len(sets')] = req'[p].new
    <3> HIDE DEF L
    <3> QED BY <1>b, <2>2, <2>8
  <2> QED BY <2>1, <2>2, <2>3, <2>6, <2>7, <2>9, SerialStep
<1>5. ASSUME NEW p \in Requests, InsertPasswordHistory(p), serial' PROVE SerialInv'
  <2> DEFINE e == [pw |-> req[p].new, at |-> clock]
  <2>1. /\ req[p].pc = "insert" /\ UNCHANGED <<sets, serial, faults>>
        /\ rows' = rows \cup {e} /\ e.at = clock /\ e.pw = req[p].new
    BY ZenonT(40), <1>5 DEF InsertPasswordHistory
  <2>2. /\ req'[p].pc = "trim" /\ \A q \in Requests : q # p => req'[q] = req[q]
    BY Zenon, <1>5, Moved DEF InsertPasswordHistory, PC
  <2>3. /\ \A q \in Requests : q # p => req[q].pc = "idle"
        /\ faults = 0 => NoReuse
    BY Zenon, <1>5, <1>c, <2>1
  <2>4. faults = 0 => L > 0 /\ sets[L] = req[p].new /\ Covered(rows, sets, L - 1)
    BY <1>5, <2>1 DEF SerialInv
  <2>5. clock \in Nat /\ \A r \in rows : r.at < clock
    BY DEF TypeOK, TimeInv
  <2> HIDE DEF e, L
  <2>6. faults = 0 => Covered(rows', sets, L)
    BY <1>b, <2>1, <2>4, <2>5, InsertCovers
  <2>7. NoReuse => NoReuse'
    BY Zenon, <2>1 DEF NoReuse
  <2> QED BY Zenon, <2>1, <2>2, <2>3, <2>6, <2>7, SerialStep DEF L
<1>6. ASSUME NEW p \in Requests, TrimPasswordHistory(p), serial' PROVE SerialInv'
  <2>1. /\ req[p].pc = "trim" /\ UNCHANGED <<sets, serial, faults>> /\ Done(p)
        /\ rows' = NewestOf(rows, PasswordHistoryN)
    BY Zenon, <1>6, NewestIsNewestOf DEF TrimPasswordHistory
  <2>2. req'[p].pc = "idle" /\ \A q \in Requests : q # p => req'[q] = req[q]
    BY Zenon, <2>1, Ended
  <2>3. /\ \A q \in Requests : q # p => req[q].pc = "idle"
        /\ faults = 0 => NoReuse /\ Covered(rows, sets, L)
    BY Zenon, <1>6, <1>c, <2>1
  <2>4. faults = 0 => Covered(rows', sets, L)
    BY Zenon, <1>b, <2>1, <2>3, TrimCovers
  <2>5. NoReuse => NoReuse'
    BY <2>1 DEF NoReuse
  <2> QED BY <2>1, <2>2, <2>3, <2>4, <2>5, SerialStep
<1>7. ASSUME NEW p \in Requests, CompletePasswordReset(p), serial' PROVE SerialInv'
  <2> DEFINE e == [pw |-> req[p].new, at |-> req[p].at]
             seq == Append(sets, req[p].new)
  <2>1. req[p].pc = "reset" /\ UNCHANGED <<serial, faults>> /\ Done(p)
    BY ZenonT(40), <1>7 DEF CompletePasswordReset
  <2>2. req'[p].pc = "idle" /\ \A q \in Requests : q # p => req'[q] = req[q]
    BY Zenon, <2>1, Ended
  <2>3. /\ \A q \in Requests : q # p => req[q].pc = "idle"
        /\ faults = 0 => NoReuse /\ Covered(rows, sets, L)
    BY Zenon, <1>7, <1>c, <2>1
  <2>4. CASE sets' = sets /\ rows' = rows
    <3>1. NoReuse => NoReuse'
      BY <2>4 DEF NoReuse
    <3> QED BY Zenon, <2>1, <2>2, <2>3, <2>4, <3>1, SerialStep
  <2>5. CASE /\ Acceptable(req[p].new, Newest(PasswordHistoryN)) /\ sets' = seq
             /\ rows' = NewestOf(rows \cup {e}, PasswordHistoryN)
    <3>1. req[p].new \in Passwords /\ e.at = req[p].at /\ e.pw = req[p].new /\ e.at \in Nat
      BY Zenon DEF TypeOK, Request
    <3>2. faults = 0 => NoReuse'
      BY Zenon, <1>b, <2>3, <2>5, <3>1, CoveredNovel, AppendNoReuse
    <3>3. Len(seq) = L + 1 /\ seq[L + 1] = req[p].new
      BY <3>1 DEF TypeOK
    <3>4. faults = 0 => Covered(rows, seq, L)
      BY Zenon, <2>3, <3>1, CoveredAppend
    <3>5. \A r \in rows : r.at < e.at
      BY <1>7, <2>1, <3>1 DEF SerialInv
    <3> HIDE DEF e, seq, L
    <3>6. L + 1 \in Nat \ {0} /\ (L + 1) - 1 = L
      BY <1>b
    <3>7. faults = 0 => Covered(rows \cup {e}, seq, L + 1)
      BY <1>b, <3>1, <3>3, <3>4, <3>5, <3>6, InsertCovers
    <3>8. IsFiniteSet(rows \cup {e})
      BY Zenon, <1>b, AddedToFinite
    <3>9. faults = 0 => Covered(rows', sets', Len(sets'))
      BY Zenon, <2>5, <3>3, <3>6, <3>7, <3>8, TrimCovers
    <3> QED BY Zenon, <2>1, <2>2, <2>3, <3>2, <3>9, SerialStep
  <2> QED BY Zenon, <1>7, <2>4, <2>5, ResetEffect
<1>8. ASSUME NEW p \in Requests, Abort(p), serial' PROVE SerialInv'
  <2>1. req[p].pc # "idle" /\ serial /\ faults' = faults + 1 /\ Done(p)
    BY <1>8 DEF Abort
  <2>2. req'[p].pc = "idle" /\ \A q \in Requests : q # p => req'[q] = req[q]
    BY <2>1, Ended
  <2>3. faults' # 0
    BY <1>b, <2>1
  <2>4. \A q \in Requests : q # p => req[q].pc = "idle"
    BY <1>c, <2>1
  <2> QED BY Zenon, <2>2, <2>3, <2>4, SerialStep
<1> QED BY <1>a, <1>1, <1>2, <1>3, <1>4, <1>5, <1>6, <1>7, <1>8 DEF Next

\* The statements of ChangePassword and the transaction of
\* ResetPasswordWithOTP reject a password that equals or resembles one of the
\* last N, as long as the requests follow each other and complete.
THEOREM SerialChangesNotReused == Spec => []SerialNoReuse
<1>1. SerialInv => SerialNoReuse
  BY DEF SerialInv, SerialNoReuse
<1> QED BY <1>1, InitTypeOK, NextTypeOK, InitTimeInv, NextTimeInv, InitSerialInv, NextSerialInv,
           PTL DEF Spec

=============================================================================
