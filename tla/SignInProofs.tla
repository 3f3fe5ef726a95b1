---------------------------- MODULE SignInProofs ----------------------------
(***************************************************************************)
(* The safety properties of SignIn hold for any number of requests,        *)
(* challenges and failing statements.                                      *)
(***************************************************************************)
EXTENDS SignIn, FiniteSetTheorems, TLAPS

PC == {"idle", "insert", "count", "lock", "create", "burn", "consume", "issue"}

\* The attempts that are not recorded yet.
Inserting == {p \in Requests : req[p].pc = "insert"}

\* The attempts that may still lead to a lock.
Counted ==
    {p \in Requests : \/ req[p].pc \in {"insert", "count"}
                      \/ req[p].pc = "lock" /\ req[p].n >= LoginFailMax}

\* The failures in the window and the attempts under way account for the
\* guesses, and while the account is open the attempts that exceed the limit
\* are all under way.
GuessInv ==
    /\ guesses <= failures + Cardinality(Inserting) + faults
    /\ ~locked => guesses <= (LoginFailMax - 1) + Cardinality(Counted) + faults
    /\ GuessesBounded

\* LoginVerifyOTP acts on a challenge that it has found.
Found ==
    \A p \in Requests : req[p].pc \in {"burn", "consume", "issue"} => req[p].ch \in Challenges

ChallengeInv ==
    /\ \A p \in Requests :
           req[p].pc = "issue" => state[req[p].ch] = "consumed" /\ issued[req[p].ch] = 0
    /\ \A p, q \in Requests :
           req[p].pc = "issue" /\ req[q].pc = "issue" /\ req[p].ch = req[q].ch => p = q
    /\ \A c \in Challenges : issued[c] <= 1 /\ (issued[c] # 0 => state[c] = "consumed")

\* The requests that are about to burn challenge c.
Burning(c) == {p \in Requests : req[p].pc = "burn" /\ req[p].ch = c}

\* Until a challenge is consumed, the wrong codes tried against it are the ones
\* whose request is about to burn it and those whose request has failed.
CodeInv ==
    /\ \A c \in Challenges :
           state[c] # "consumed" => wrong[c] <= Cardinality(Burning(c)) + faults
    /\ CodesBounded

-----------------------------------------------------------------------------

\* A request that goes on keeps its count and challenge, and no other request
\* moves.
LEMMA Moved ==
    ASSUME TypeOK, NEW p \in Requests, NEW pc \in PC, Goto(p, pc)
    PROVE  /\ req' \in [Requests -> Request]
           /\ req'[p].pc = pc /\ req'[p].n = req[p].n /\ req'[p].ch = req[p].ch
           /\ \A q \in Requests : q # p => req'[q] = req[q]
  BY DEF TypeOK, Goto, Request, PC

\* An idle request is a request.
LEMMA IdleIsRequest == Idle \in Request /\ Idle.pc = "idle"
  BY SignInBoundsAssumption DEF Idle, Request

\* A request that ends is idle, and no other request moves.
LEMMA Ended ==
    ASSUME TypeOK, NEW p \in Requests, Done(p)
    PROVE  /\ req' \in [Requests -> Request]
           /\ req'[p].pc = "idle"
           /\ \A q \in Requests : q # p => req'[q] = req[q]
  BY IdleIsRequest DEF TypeOK, Done

\* A statement that fails is counted.
LEMMA FaultCounts ==
    ASSUME TypeOK, Fault
    PROVE  faults' \in 0..MaxFaults /\ faults' = faults + 1 /\ faults' # 0
  BY SignInBoundsAssumption DEF TypeOK, Fault

\* The count of failed logins is the window's, or the statement failed.
LEMMA CountStep ==
    ASSUME TypeOK, NEW p \in Requests, CountFailedLogins(p)
    PROVE  /\ req' \in [Requests -> Request]
           /\ req[p].pc = "count" /\ req'[p].pc = "lock"
           /\ \/ req'[p].n = failures /\ faults' = faults
              \/ Fault
           /\ \A q \in Requests : q # p => req'[q] = req[q]
<1>1. failures \in Nat
  BY DEF TypeOK
<1>2. CASE req' = [req EXCEPT ![p].pc = "lock", ![p].n = failures] /\ UNCHANGED faults
  BY ZenonT(40), <1>1, <1>2 DEF CountFailedLogins, TypeOK, Request
<1>3. CASE req' = [req EXCEPT ![p].pc = "lock", ![p].n = 0] /\ Fault
  BY ZenonT(40), <1>3 DEF CountFailedLogins, TypeOK, Request
<1> QED BY <1>2, <1>3 DEF CountFailedLogins

\* A request that finds its challenge goes on to consume or to burn it.
LEMMA FindStep ==
    ASSUME TypeOK, NEW p \in Requests, NEW c \in Challenges, NEW pc \in PC,
           FindChallenge(p, c, pc)
    PROVE  /\ req' \in [Requests -> Request]
           /\ req[p].pc = "idle" /\ req'[p].pc = pc /\ req'[p].ch = c
           /\ \A q \in Requests : q # p => req'[q] = req[q]
<1>1. c \in 0..MaxChallenges
  BY SignInBoundsAssumption DEF Challenges
<1>2. req' = [req EXCEPT ![p].pc = pc, ![p].ch = c] /\ req[p].pc = "idle"
  BY Zenon DEF FindChallenge
<1> QED BY ZenonT(40), <1>1, <1>2 DEF TypeOK, Request, PC

\* The code is compared with the one that was mailed.
LEMMA ReadStep ==
    ASSUME TypeOK, NEW p \in Requests, NEW c \in Challenges, RightCode(p, c) \/ WrongCode(p, c)
    PROVE  /\ req' \in [Requests -> Request]
           /\ req[p].pc = "idle" /\ req'[p].pc \in {"consume", "burn"} /\ req'[p].ch = c
           /\ \A q \in Requests : q # p => req'[q] = req[q]
<1>1. CASE RightCode(p, c)
  <2>1. "consume" \in PC /\ FindChallenge(p, c, "consume")
    BY Zenon, <1>1 DEF RightCode, PC
  <2> QED BY Zenon, <2>1, FindStep
<1>2. CASE WrongCode(p, c)
  <2>1. "burn" \in PC /\ FindChallenge(p, c, "burn")
    BY Zenon, <1>2 DEF WrongCode, PC
  <2> QED BY Zenon, <2>1, FindStep
<1> QED BY <1>1, <1>2

\* The variables have their types at first.
LEMMA InitTypeOK == Init => TypeOK
<1> SUFFICES ASSUME Init PROVE TypeOK
  OBVIOUS
<1>1. req \in [Requests -> Request]
  BY IdleIsRequest DEF Init
<1>2. locked \in BOOLEAN /\ alerted \in BOOLEAN
  BY Zenon DEF Init
<1>3. total \in 0..MaxGuesses /\ faults \in 0..MaxFaults
  BY SignInBoundsAssumption DEF Init
<1> QED BY <1>1, <1>2, <1>3 DEF Init, TypeOK

\* Every statement keeps the types.
LEMMA NextTypeOK == TypeOK /\ Found /\ [Next]_vars => TypeOK'
<1> SUFFICES ASSUME TypeOK, Found, [Next]_vars PROVE TypeOK'
  OBVIOUS
<1>1. ASSUME NEW p \in Requests, WrongPassword(p) PROVE TypeOK'
  <2>1. req' \in [Requests -> Request]
    BY <1>1, Moved DEF WrongPassword, PC
  <2>2. total' \in 0..MaxGuesses /\ guesses' \in Nat
    BY <1>1, SignInBoundsAssumption DEF WrongPassword, TypeOK
  <2> QED BY <1>1, <2>1, <2>2 DEF WrongPassword, TypeOK
<1>2. ASSUME NEW p \in Requests, InsertFailedLogin(p) PROVE TypeOK'
  <2>1. req' \in [Requests -> Request]
    BY <1>2, Moved DEF InsertFailedLogin, PC
  <2>2. failures' \in Nat /\ faults' \in 0..MaxFaults
    BY <1>2, FaultCounts DEF InsertFailedLogin, TypeOK
  <2> QED BY <1>2, <2>1, <2>2 DEF InsertFailedLogin, TypeOK
<1>3. ASSUME NEW p \in Requests, CountFailedLogins(p) PROVE TypeOK'
  <2>1. req' \in [Requests -> Request] /\ faults' \in 0..MaxFaults
    BY <1>3, CountStep, FaultCounts DEF TypeOK
  <2> QED BY <1>3, <2>1 DEF CountFailedLogins, TypeOK
<1>4. ASSUME NEW p \in Requests, SetLockedUntil(p) PROVE TypeOK'
  <2>1. req' \in [Requests -> Request]
    BY <1>4, Ended DEF SetLockedUntil
  <2>2. faults' \in 0..MaxFaults
    BY <1>4, FaultCounts DEF SetLockedUntil, TypeOK
  <2>3. alerted' \in BOOLEAN
    BY <1>4, Zenon DEF SetLockedUntil
  <2>4. locked' \in BOOLEAN
    <3>1. locked' = (locked \/ MustLock(req[p].n)) \/ locked' = locked
      BY <1>4, Zenon DEF SetLockedUntil
    <3> QED BY <3>1, Zenon DEF TypeOK
  <2> QED BY <1>4, <2>1, <2>2, <2>3, <2>4 DEF SetLockedUntil, TypeOK
<1>5. ASSUME NEW p \in Requests, RightPassword(p) PROVE TypeOK'
  <2>1. req' \in [Requests -> Request]
    BY <1>5, Moved DEF RightPassword, PC
  <2> QED BY <1>5, <2>1 DEF RightPassword, TypeOK
<1>6. ASSUME NEW p \in Requests, CreateChallenge(p) PROVE TypeOK'
  <2>1. req' \in [Requests -> Request]
    BY <1>6, Ended DEF CreateChallenge
  <2>2. state' \in [Challenges -> {"none", "open", "consumed"}]
    BY <1>6 DEF CreateChallenge, TypeOK
  <2> QED BY <1>6, <2>1, <2>2 DEF CreateChallenge, TypeOK
<1>7. ASSUME NEW p \in Requests, NEW c \in Challenges, RightCode(p, c) \/ WrongCode(p, c)
      PROVE  TypeOK'
  <2>1. req' \in [Requests -> Request]
    BY <1>7, ReadStep
  <2>2. wrong' \in [Challenges -> Nat]
    BY <1>7 DEF RightCode, WrongCode, TypeOK
  <2> QED BY <1>7, <2>1, <2>2 DEF RightCode, WrongCode, TypeOK
<1>8. CASE \E c \in Challenges : Expire(c)
  BY <1>8 DEF Expire, TypeOK
<1>9. CASE Unlock \/ Age
  <2>1. failures' \in Nat /\ guesses' \in Nat
    BY <1>9 DEF Unlock, Age, TypeOK
  <2>2. locked' \in BOOLEAN
    BY <1>9, Zenon DEF Unlock, Age, TypeOK
  <2> QED BY <1>9, <2>1, <2>2 DEF Unlock, Age, TypeOK
<1>10. CASE UNCHANGED vars
  BY <1>10 DEF vars, TypeOK
<1>11. ASSUME NEW p \in Requests, Burn(p) \/ ConsumeOTP(p) \/ Issue(p) \/ Abort(p)
       PROVE  TypeOK'
  <2>1. req' \in [Requests -> Request]
    BY <1>11, Ended, Moved DEF Burn, ConsumeOTP, Issue, Abort, PC
  <2>2. faults' \in 0..MaxFaults
    BY <1>11, FaultCounts DEF Burn, ConsumeOTP, Issue, Abort, TypeOK
  <2>3. state' \in [Challenges -> {"none", "open", "consumed"}]
    BY <1>11 DEF Burn, ConsumeOTP, Issue, Abort, TypeOK
  <2>4. issued' \in [Challenges -> Nat]
    <3>1. CASE req[p].ch \in Challenges
      BY <1>11, <3>1 DEF Burn, ConsumeOTP, Issue, Abort, TypeOK
    <3>2. CASE req[p].ch \notin Challenges
      BY <1>11, <3>2 DEF Burn, ConsumeOTP, Issue, Abort, TypeOK
    <3> QED BY <3>1, <3>2
  <2>5. UNCHANGED <<failures, locked, expired, wrong, guesses, total, alerted>>
    BY <1>11 DEF Burn, ConsumeOTP, Issue, Abort
  <2> QED BY <2>1, <2>2, <2>3, <2>4, <2>5 DEF TypeOK
<1> QED BY <1>1, <1>2, <1>3, <1>4, <1>5, <1>6, <1>7, <1>8, <1>9, <1>10, <1>11 DEF Next

\* How a step moves the request that takes it.
LEMMA StepOf ==
    ASSUME TypeOK, NEW p \in Requests,
           \/ WrongPassword(p) \/ InsertFailedLogin(p) \/ CountFailedLogins(p)
           \/ SetLockedUntil(p) \/ RightPassword(p) \/ CreateChallenge(p)
           \/ \E c \in Challenges : RightCode(p, c) \/ WrongCode(p, c)
           \/ Burn(p) \/ ConsumeOTP(p) \/ Issue(p) \/ Abort(p)
    PROVE  \A q \in Requests : q # p => req'[q] = req[q]
<1>1. CASE \/ WrongPassword(p) \/ InsertFailedLogin(p) \/ RightPassword(p)
  BY <1>1, Moved DEF WrongPassword, InsertFailedLogin, RightPassword, PC
<1>2. CASE CountFailedLogins(p)
  BY ZenonT(40), <1>2, CountStep
<1>3. CASE SetLockedUntil(p) \/ CreateChallenge(p) \/ Burn(p) \/ Issue(p) \/ Abort(p)
  BY <1>3, Ended DEF SetLockedUntil, CreateChallenge, Burn, Issue, Abort
<1>4. CASE ConsumeOTP(p)
  BY <1>4, Moved, Ended DEF ConsumeOTP, PC
<1>5. CASE \E c \in Challenges : RightCode(p, c) \/ WrongCode(p, c)
  BY <1>5, ReadStep
<1> QED BY <1>1, <1>2, <1>3, <1>4, <1>5

\* Every statement keeps the challenge a request goes on with.
LEMMA NextFound == TypeOK /\ Found /\ [Next]_vars => Found'
<1> SUFFICES ASSUME TypeOK, Found, [Next]_vars PROVE Found'
  OBVIOUS
<1>1. ASSUME NEW p \in Requests,
             \/ WrongPassword(p) \/ InsertFailedLogin(p) \/ CountFailedLogins(p)
             \/ SetLockedUntil(p) \/ RightPassword(p) \/ CreateChallenge(p)
             \/ \E c \in Challenges : RightCode(p, c) \/ WrongCode(p, c)
             \/ Burn(p) \/ ConsumeOTP(p) \/ Issue(p) \/ Abort(p)
      PROVE  Found'
  <2>1. \A q \in Requests : q # p => req'[q] = req[q]
    BY <1>1, StepOf
  <2>2. req'[p].pc \in {"burn", "consume", "issue"} => req'[p].ch \in Challenges
    <3>1. CASE \/ WrongPassword(p) \/ InsertFailedLogin(p) \/ RightPassword(p)
      BY <3>1, Moved DEF WrongPassword, InsertFailedLogin, RightPassword, PC
    <3>2. CASE CountFailedLogins(p)
      BY <3>2, CountStep
    <3>3. CASE SetLockedUntil(p) \/ CreateChallenge(p) \/ Burn(p) \/ Issue(p) \/ Abort(p)
      BY <3>3, Ended DEF SetLockedUntil, CreateChallenge, Burn, Issue, Abort
    <3>4. CASE ConsumeOTP(p)
      BY <3>4, Moved, Ended DEF ConsumeOTP, PC, Found
    <3>5. CASE \E c \in Challenges : RightCode(p, c) \/ WrongCode(p, c)
      BY <3>5, ReadStep
    <3> QED BY <1>1, <3>1, <3>2, <3>3, <3>4, <3>5
  <2> QED BY <2>1, <2>2 DEF Found
<1>2. CASE (\E c \in Challenges : Expire(c)) \/ Unlock \/ Age \/ UNCHANGED vars
  <2>1. req' = req
    BY <1>2 DEF Expire, Unlock, Age, vars
  <2> QED BY <2>1 DEF Found
<1> QED BY <1>1, <1>2 DEF Next

\* No request has a challenge at first.
LEMMA InitFound == Init => Found
  BY DEF Init, Found, Idle

-----------------------------------------------------------------------------
(* Challenges                                                              *)

\* No challenge is used at first.
LEMMA InitChallengeInv == Init => ChallengeInv
  BY DEF Init, ChallengeInv, Idle

\* A step that issues nothing and reopens nothing.
LEMMA ChallengesKept ==
    ASSUME TypeOK, Found, ChallengeInv, UNCHANGED issued,
           \A c \in Challenges : state[c] = "consumed" => state'[c] = "consumed",
           \A q \in Requests : req'[q].pc = "issue" => req'[q] = req[q]
    PROVE  ChallengeInv'
<1>1. \A q \in Requests : req'[q].pc = "issue" => state'[req'[q].ch] = "consumed"
  BY DEF ChallengeInv, Found
<1> QED BY <1>1 DEF ChallengeInv, TypeOK

\* Every statement keeps what a request may assume of its challenge.
LEMMA NextChallengeInv ==
    TypeOK /\ Found /\ ChallengeInv /\ [Next]_vars => ChallengeInv'
<1> SUFFICES ASSUME TypeOK, Found, ChallengeInv, [Next]_vars PROVE ChallengeInv'
  OBVIOUS
<1>1. CASE (\E c \in Challenges : Expire(c)) \/ Unlock \/ Age \/ UNCHANGED vars
  <2>1. UNCHANGED <<req, state, issued>>
    BY <1>1 DEF Expire, Unlock, Age, vars
  <2> QED BY <2>1, ChallengesKept
<1>2. ASSUME NEW p \in Requests,
             WrongPassword(p) \/ InsertFailedLogin(p) \/ CountFailedLogins(p) \/ RightPassword(p)
      PROVE  ChallengeInv'
  <2>1. req'[p].pc # "issue" /\ \A q \in Requests : q # p => req'[q] = req[q]
    BY <1>2, Moved, CountStep DEF WrongPassword, InsertFailedLogin, RightPassword, PC
  <2>2. UNCHANGED <<state, issued>>
    BY <1>2 DEF WrongPassword, InsertFailedLogin, CountFailedLogins, RightPassword
  <2> QED BY <2>1, <2>2, ChallengesKept
<1>3. ASSUME NEW p \in Requests, NEW c \in Challenges, RightCode(p, c) \/ WrongCode(p, c)
      PROVE  ChallengeInv'
  <2>1. req'[p].pc # "issue" /\ \A q \in Requests : q # p => req'[q] = req[q]
    BY <1>3, ReadStep
  <2>2. UNCHANGED <<state, issued>>
    BY <1>3 DEF RightCode, WrongCode
  <2> QED BY <2>1, <2>2, ChallengesKept
<1>4. ASSUME NEW p \in Requests,
             SetLockedUntil(p) \/ CreateChallenge(p) \/ Burn(p) \/ Abort(p)
      PROVE  ChallengeInv'
  <2>1. req'[p].pc # "issue" /\ \A q \in Requests : q # p => req'[q] = req[q]
    BY <1>4, Ended DEF SetLockedUntil, CreateChallenge, Burn, Abort
  <2>2. UNCHANGED issued
    BY <1>4 DEF SetLockedUntil, CreateChallenge, Burn, Abort
  <2>3. \A c \in Challenges : state[c] = "consumed" => state'[c] = "consumed"
    BY <1>4 DEF SetLockedUntil, CreateChallenge, Burn, Abort, TypeOK
  <2> QED BY <2>1, <2>2, <2>3, ChallengesKept
<1>6. ASSUME NEW p \in Requests, ConsumeOTP(p) PROVE ChallengeInv'
  <2> DEFINE c == req[p].ch
  <2>1. UNCHANGED issued /\ c \in Challenges
    BY <1>6 DEF ConsumeOTP, Found
  <2>2. CASE Done(p) /\ state' = state
    BY <2>1, <2>2, Ended, ChallengesKept
  <2>3. CASE /\ state[c] = "open" /\ state' = [state EXCEPT ![c] = "consumed"]
             /\ Goto(p, "issue")
    <3>1. /\ req'[p].pc = "issue" /\ req'[p].ch = c
          /\ \A q \in Requests : q # p => req'[q] = req[q]
      BY <2>3, Moved DEF PC
    <3>2. \A d \in Challenges : state'[d] = IF d = c THEN "consumed" ELSE state[d]
      BY <2>3 DEF TypeOK
    <3>3. issued[c] = 0
      BY <2>1, <2>3 DEF ChallengeInv, TypeOK
    <3>4. \A q \in Requests : req[q].pc = "issue" => req[q].ch \in Challenges /\ req[q].ch # c
      BY <2>3 DEF Found, ChallengeInv
    <3> QED BY <2>1, <2>3, <3>1, <3>2, <3>3, <3>4 DEF ChallengeInv
  <2> QED BY <1>6, <2>2, <2>3 DEF ConsumeOTP, Consumable
<1>7. ASSUME NEW p \in Requests, Issue(p) PROVE ChallengeInv'
  <2> DEFINE c == req[p].ch
  <2>1. /\ req'[p].pc = "idle" /\ \A q \in Requests : q # p => req'[q] = req[q]
    BY <1>7, Ended DEF Issue
  <2>2. UNCHANGED state /\ req[p].pc = "issue"
    BY <1>7 DEF Issue
  <2>3. CASE issued' = issued
    BY <2>1, <2>2, <2>3, ChallengesKept
  <2>4. CASE issued' = [issued EXCEPT ![c] = @ + 1]
    <3>1. c \in Challenges /\ issued[c] = 0 /\ state[c] = "consumed"
      BY <2>2 DEF Found, ChallengeInv
    <3>2. \A d \in Challenges : issued'[d] = IF d = c THEN 1 ELSE issued[d]
      BY <2>4, <3>1 DEF TypeOK
    <3>3. \A q \in Requests :
              q # p /\ req[q].pc = "issue" => req[q].ch \in Challenges /\ req[q].ch # c
      BY <2>2 DEF Found, ChallengeInv
    <3> QED BY <2>1, <2>2, <3>1, <3>2, <3>3 DEF ChallengeInv
  <2> QED BY <1>7, <2>3, <2>4 DEF Issue
<1> QED BY <1>1, <1>2, <1>3, <1>4, <1>6, <1>7 DEF Next

\* A login challenge completes at most one sign-in.
THEOREM ChallengesSingleUse == Spec => []SingleUse
<1>1. ChallengeInv => SingleUse
  BY DEF ChallengeInv, SingleUse
<1> QED BY <1>1, InitTypeOK, NextTypeOK, InitFound, NextFound, InitChallengeInv, NextChallengeInv,
           PTL DEF Spec

-----------------------------------------------------------------------------

\* Sizes of sets of requests that differ by one request.
LEMMA Sizes ==
    ASSUME NEW X \in SUBSET Requests, NEW Y \in SUBSET Requests, NEW p
    PROVE  /\ Cardinality(X) \in Nat /\ Cardinality(Y) \in Nat
           /\ X \subseteq Y => Cardinality(X) <= Cardinality(Y)
           /\ X \ {p} \subseteq Y => Cardinality(X) <= Cardinality(Y) + 1
           /\ p \notin X /\ X \cup {p} \subseteq Y => Cardinality(X) + 1 <= Cardinality(Y)
<1>1. IsFiniteSet(X) /\ IsFiniteSet(Y)
  BY RequestsAssumption, FS_Subset
<1>2. Cardinality(X) \in Nat /\ Cardinality(Y) \in Nat
  BY <1>1, FS_CardinalityType
<1>3. X \subseteq Y => Cardinality(X) <= Cardinality(Y)
  BY <1>1, FS_Subset
<1>4. ASSUME X \ {p} \subseteq Y PROVE Cardinality(X) <= Cardinality(Y) + 1
  <2>1. Cardinality(X \ {p}) <= Cardinality(Y) /\ Cardinality(X \ {p}) \in Nat
    BY <1>1, <1>4, FS_Subset, FS_CardinalityType
  <2>2. CASE p \in X
    <3>1. Cardinality(X \ {p}) = Cardinality(X) - 1
      BY <1>1, <2>2, FS_RemoveElement
    <3> QED BY <1>2, <2>1, <3>1
  <2>3. CASE p \notin X
    <3>1. X \ {p} = X
      BY <2>3
    <3> QED BY <1>2, <2>1, <3>1
  <2> QED BY <2>2, <2>3
<1>5. ASSUME p \notin X, X \cup {p} \subseteq Y PROVE Cardinality(X) + 1 <= Cardinality(Y)
  <2>1. Cardinality(X \cup {p}) = Cardinality(X) + 1
    BY ZenonT(40), <1>1, <1>5, FS_AddElement
  <2>2. Cardinality(X \cup {p}) <= Cardinality(Y)
    BY <1>1, <1>5, FS_Subset
  <2> QED BY <2>1, <2>2
<1> QED BY <1>2, <1>3, <1>4, <1>5

-----------------------------------------------------------------------------
(* Codes                                                                   *)

\* The numbers that the bounds compare.
LEMMA CodeNumbers ==
    ASSUME TypeOK, NEW c \in Challenges
    PROVE  wrong[c] \in Nat /\ faults \in Nat /\ Cardinality(Burning(c)) \in Nat
           /\ Cardinality(Burning(c)) <= Cardinality(Requests)
<1>1. Burning(c) \in SUBSET Requests /\ Requests \in SUBSET Requests
  BY DEF Burning
<1>2. /\ Cardinality(Burning(c)) \in Nat
      /\ Cardinality(Burning(c)) <= Cardinality(Requests)
  BY Zenon, <1>1, Sizes
<1>3. wrong[c] \in Nat /\ faults \in Nat
  BY SignInBoundsAssumption DEF TypeOK
<1> QED BY <1>2, <1>3

\* No code has been tried at first.
LEMMA InitCodeInv == Init => CodeInv
<1> SUFFICES ASSUME Init PROVE CodeInv
  OBVIOUS
<1>1. TypeOK
  BY InitTypeOK
<1>2. \A c \in Challenges : /\ Cardinality(Burning(c)) \in Nat
                            /\ Cardinality(Burning(c)) <= Cardinality(Requests)
  BY Zenon, <1>1, CodeNumbers
<1>3. Cardinality(Requests) \in Nat
  BY RequestsAssumption, FS_CardinalityType
<1> QED BY <1>2, <1>3 DEF Init, CodeInv, CodesBounded

\* A step that tries no code keeps the bounds when no request stops burning c,
\* or one does because a statement has failed, or c is consumed.
LEMMA CodesKept ==
    ASSUME TypeOK, TypeOK', CodeInv, wrong' = wrong, NEW p,
           \A c \in Challenges :
               /\ state[c] = "consumed" => state'[c] = "consumed"
               /\ \/ Burning(c) \subseteq Burning(c)' /\ faults' = faults
                  \/ Burning(c) \ {p} \subseteq Burning(c)' /\ faults' = faults + 1
                  \/ state'[c] = "consumed" /\ faults' = faults
    PROVE  CodeInv'
<1> SUFFICES ASSUME NEW c \in Challenges
             PROVE  /\ (state[c] # "consumed")' => wrong'[c] <= Cardinality(Burning(c)') + faults'
                    /\ wrong'[c] <= Cardinality(Requests) + faults'
  BY DEF CodeInv, CodesBounded
<1>1. /\ wrong[c] \in Nat /\ faults \in Nat /\ faults' \in Nat
      /\ Cardinality(Burning(c)) \in Nat /\ Cardinality(Burning(c)') \in Nat
  <2>1. Burning(c)' \in SUBSET Requests
    BY DEF Burning
  <2>2. Cardinality(Burning(c)') \in Nat
    BY Zenon, <2>1, Sizes
  <2>3. faults' \in Nat
    BY SignInBoundsAssumption DEF TypeOK
  <2> QED BY <2>2, <2>3, CodeNumbers
<1>2. /\ wrong[c] <= Cardinality(Requests) + faults /\ Cardinality(Requests) \in Nat
      /\ state[c] # "consumed" => wrong[c] <= Cardinality(Burning(c)) + faults
  BY RequestsAssumption, FS_CardinalityType DEF CodeInv, CodesBounded
<1>3. CASE Burning(c) \subseteq Burning(c)' /\ faults' = faults
  <2>1. Cardinality(Burning(c)) <= Cardinality(Burning(c)')
    <3>1. Burning(c) \in SUBSET Requests /\ Burning(c)' \in SUBSET Requests
      BY DEF Burning
    <3> QED BY Zenon, <1>3, <3>1, Sizes
  <2> QED BY <1>1, <1>2, <1>3, <2>1
<1>4. CASE Burning(c) \ {p} \subseteq Burning(c)' /\ faults' = faults + 1
  <2>1. Cardinality(Burning(c)) <= Cardinality(Burning(c)') + 1
    <3>1. Burning(c) \in SUBSET Requests /\ Burning(c)' \in SUBSET Requests
      BY DEF Burning
    <3> QED BY Zenon, <1>4, <3>1, Sizes
  <2> QED BY <1>1, <1>2, <1>4, <2>1
<1>5. CASE state'[c] = "consumed" /\ faults' = faults
  BY <1>1, <1>2, <1>5
<1> QED BY <1>3, <1>4, <1>5

\* Every statement keeps the bounds.
LEMMA NextCodeInv == TypeOK /\ Found /\ CodeInv /\ [Next]_vars => CodeInv'
<1> SUFFICES ASSUME TypeOK, Found, CodeInv, [Next]_vars PROVE CodeInv'
  OBVIOUS
<1>a. TypeOK'
  BY NextTypeOK
<1>1. CASE (\E c \in Challenges : Expire(c)) \/ Unlock \/ Age \/ UNCHANGED vars
  <2>1. UNCHANGED <<req, state, wrong, faults>>
    BY <1>1 DEF Expire, Unlock, Age, vars
  <2>2. \A c \in Challenges : Burning(c) \subseteq Burning(c)'
    BY <2>1 DEF Burning
  <2> QED BY Zenon, <1>a, <2>1, <2>2, CodesKept
<1>2. ASSUME NEW p \in Requests, NEW c \in Challenges, WrongCode(p, c) PROVE CodeInv'
  <2>1. /\ state' = state /\ faults' = faults /\ state[c] = "open"
        /\ wrong' = [wrong EXCEPT ![c] = @ + 1]
    BY <1>2 DEF WrongCode, FindChallenge
  <2>2. /\ req[p].pc = "idle" /\ req'[p].pc = "burn" /\ req'[p].ch = c
        /\ \A q \in Requests : q # p => req'[q] = req[q]
    <3>1. "burn" \in PC /\ FindChallenge(p, c, "burn")
      BY Zenon, <1>2 DEF WrongCode, PC
    <3> QED BY Zenon, <3>1, FindStep
  <2>3. ASSUME NEW d \in Challenges
        PROVE  /\ state'[d] # "consumed" => wrong'[d] <= Cardinality(Burning(d)') + faults'
               /\ wrong'[d] <= Cardinality(Requests) + faults'
    <3>1. /\ Burning(d) \in SUBSET Requests /\ Burning(d)' \in SUBSET Requests
          /\ Requests \in SUBSET Requests
      BY DEF Burning
    <3>2. /\ wrong[d] \in Nat /\ faults \in Nat /\ Cardinality(Burning(d)) \in Nat
          /\ Cardinality(Burning(d)') \in Nat /\ Cardinality(Requests) \in Nat
          /\ Cardinality(Burning(d)') <= Cardinality(Requests)
      BY Zenon, <3>1, CodeNumbers, Sizes
    <3>3. CASE d = c
      <4>1. p \notin Burning(c) /\ Burning(c) \cup {p} \subseteq Burning(c)'
        BY <2>2 DEF Burning
      <4>2. Cardinality(Burning(c)) + 1 <= Cardinality(Burning(c)')
        BY Zenon, <3>1, <3>3, <4>1, Sizes
      <4>3. wrong'[c] = wrong[c] + 1
        BY <2>1 DEF TypeOK
      <4>4. wrong[c] <= Cardinality(Burning(c)) + faults
        BY <2>1 DEF CodeInv
      <4> QED BY <2>1, <3>2, <3>3, <4>2, <4>3, <4>4
    <3>4. CASE d # c
      <4>1. Burning(d) \subseteq Burning(d)'
        BY <2>2 DEF Burning
      <4>2. Cardinality(Burning(d)) <= Cardinality(Burning(d)')
        BY Zenon, <3>1, <4>1, Sizes
      <4>3. wrong'[d] = wrong[d]
        BY <2>1, <3>4 DEF TypeOK
      <4>4. /\ wrong[d] <= Cardinality(Requests) + faults
            /\ state[d] # "consumed" => wrong[d] <= Cardinality(Burning(d)) + faults
        BY DEF CodeInv, CodesBounded
      <4> QED BY <2>1, <3>2, <4>2, <4>3, <4>4
    <3> QED BY <3>3, <3>4
  <2> QED BY <2>3 DEF CodeInv, CodesBounded
<1>3. ASSUME NEW p \in Requests, Burn(p) PROVE CodeInv'
  <2>1. /\ req[p].pc = "burn" /\ req[p].ch \in Challenges /\ wrong' = wrong
        /\ \/ state' = [state EXCEPT ![req[p].ch] = "consumed"] /\ faults' = faults
           \/ Fault /\ state' = state
    BY <1>3 DEF Burn, Found
  <2>2. \A q \in Requests : q # p => req'[q] = req[q]
    BY <1>3, Ended DEF Burn
  <2>3. \A c \in Challenges : /\ Burning(c) \ {p} \subseteq Burning(c)'
                              /\ c # req[p].ch => Burning(c) \subseteq Burning(c)'
    BY <2>1, <2>2 DEF Burning
  <2>4. CASE Fault /\ state' = state
    <3>1. faults' = faults + 1
      BY <2>4, FaultCounts
    <3> QED BY Zenon, <1>a, <2>1, <2>3, <2>4, <3>1, CodesKept
  <2>5. CASE state' = [state EXCEPT ![req[p].ch] = "consumed"] /\ faults' = faults
    <3>1. \A c \in Challenges : /\ state[c] = "consumed" => state'[c] = "consumed"
                                /\ c = req[p].ch => state'[c] = "consumed"
      BY <2>5 DEF TypeOK
    <3> QED BY Zenon, <1>a, <2>1, <2>3, <2>5, <3>1, CodesKept
  <2> QED BY <2>1, <2>4, <2>5
<1>4. ASSUME NEW p \in Requests, Abort(p) PROVE CodeInv'
  <2>1. \A q \in Requests : q # p => req'[q] = req[q]
    BY <1>4, StepOf
  <2>2. \A c \in Challenges : Burning(c) \ {p} \subseteq Burning(c)'
    BY <2>1 DEF Burning
  <2>3. faults' = faults + 1 /\ UNCHANGED <<state, wrong>>
    BY <1>4, FaultCounts DEF Abort
  <2> QED BY Zenon, <1>a, <2>2, <2>3, CodesKept
<1>5. ASSUME NEW p \in Requests,
             \/ WrongPassword(p) \/ InsertFailedLogin(p) \/ CountFailedLogins(p)
             \/ SetLockedUntil(p) \/ RightPassword(p) \/ CreateChallenge(p)
             \/ \E c \in Challenges : RightCode(p, c)
             \/ ConsumeOTP(p) \/ Issue(p)
      PROVE  CodeInv'
  <2>1. \A q \in Requests : q # p => req'[q] = req[q]
    BY Zenon, <1>5, StepOf
  <2>2. req[p].pc # "burn" /\ wrong' = wrong /\ (faults' = faults \/ Fault)
    BY <1>5 DEF WrongPassword, InsertFailedLogin, CountFailedLogins, SetLockedUntil,
                RightPassword, CreateChallenge, RightCode, FindChallenge, ConsumeOTP, Issue
  <2>3. \A c \in Challenges : state[c] = "consumed" => state'[c] = "consumed"
    BY <1>5 DEF WrongPassword, InsertFailedLogin, CountFailedLogins, SetLockedUntil,
                RightPassword, CreateChallenge, RightCode, ConsumeOTP, Issue, TypeOK
  <2>4. \A c \in Challenges : /\ Burning(c) \subseteq Burning(c)'
                              /\ Burning(c) \ {p} \subseteq Burning(c)'
    BY <2>1, <2>2 DEF Burning
  <2>5. faults' = faults \/ faults' = faults + 1
    BY <2>2, FaultCounts
  <2> QED BY Zenon, <1>a, <2>2, <2>3, <2>4, <2>5, CodesKept
<1> QED BY Zenon, <1>1, <1>2, <1>3, <1>4, <1>5 DEF Next

\* The wrong codes that can be tried against one challenge are bounded by the
\* requests in flight and the statements that fail.
THEOREM ChallengesBoundCodes == Spec => []CodesBounded
<1>1. CodeInv => CodesBounded
  BY DEF CodeInv
<1> QED BY <1>1, InitTypeOK, NextTypeOK, InitFound, NextFound, InitCodeInv, NextCodeInv,
           PTL DEF Spec

-----------------------------------------------------------------------------
(* Guesses                                                                 *)

\* No guess has been made at first.
LEMMA InitGuessInv == Init => GuessInv
<1> SUFFICES ASSUME Init PROVE GuessInv
  OBVIOUS
<1>1. Inserting \in SUBSET Requests /\ Counted \in SUBSET Requests
  BY DEF Inserting, Counted
<1>2. /\ Cardinality(Inserting) \in Nat /\ Cardinality(Counted) \in Nat
      /\ Cardinality(Requests) \in Nat
  BY <1>1, Sizes
<1> QED BY <1>2, FailMaxAssumption DEF Init, GuessInv, GuessesBounded

\* What a step must do with the attempts under way: a guess is added with the
\* attempt that makes it; an attempt leaves them with a failed statement, or
\* when the failures it has counted do not call for a lock; and locked_until
\* is reset with the count of guesses.
LEMMA GuessStep ==
    ASSUME TypeOK, TypeOK', GuessInv,
           guesses' <= failures' + Cardinality(Inserting') + faults',
           ~locked' => guesses' <= (LoginFailMax - 1) + Cardinality(Counted') + faults',
           locked' => guesses' <= guesses /\ faults' >= faults
    PROVE  GuessInv'
<1>1. Counted' \in SUBSET Requests /\ Requests \in SUBSET Requests
  BY DEF Counted
<1>2. /\ Cardinality(Counted') <= Cardinality(Requests)
      /\ Cardinality(Requests) \in Nat /\ Cardinality(Counted') \in Nat
  BY <1>1, Sizes
<1>3. faults \in Nat /\ faults' \in Nat /\ guesses \in Nat /\ guesses' \in Nat
      /\ LoginFailMax \in Nat
  BY SignInBoundsAssumption, FailMaxAssumption DEF TypeOK
<1>4. guesses' <= (LoginFailMax - 1) + Cardinality(Requests) + faults'
  <2>1. CASE locked'
    BY <1>2, <1>3, <2>1 DEF GuessInv, GuessesBounded
  <2>2. CASE ~locked'
    BY <1>2, <1>3, <2>2
  <2> QED BY <2>1, <2>2
<1> QED BY <1>4 DEF GuessInv, GuessesBounded

\* Every statement keeps the guesses accounted for.
LEMMA NextGuessInv == TypeOK /\ Found /\ GuessInv /\ [Next]_vars => GuessInv'
<1> SUFFICES ASSUME TypeOK, Found, GuessInv, [Next]_vars PROVE GuessInv'
  OBVIOUS
<1> DEFINE i == Cardinality(Inserting)
           c == Cardinality(Counted)
           j == Cardinality(Inserting')
           d == Cardinality(Counted')
           F == LoginFailMax
<1>a. TypeOK'
  BY NextTypeOK
<1>b. /\ failures \in Nat /\ failures' \in Nat /\ faults \in Nat /\ faults' \in Nat
      /\ guesses \in Nat /\ guesses' \in Nat /\ F \in Nat
  BY <1>a, SignInBoundsAssumption, FailMaxAssumption DEF TypeOK
<1>c. /\ Inserting \in SUBSET Requests /\ Inserting' \in SUBSET Requests
      /\ Counted \in SUBSET Requests /\ Counted' \in SUBSET Requests
  BY DEF Inserting, Counted
<1>d. i \in Nat /\ j \in Nat /\ c \in Nat /\ d \in Nat
  BY <1>c, Sizes
<1>e. guesses <= failures + i + faults /\ (~locked => guesses <= (F - 1) + c + faults)
  BY DEF GuessInv
<1>f. SUFFICES /\ guesses' <= failures' + j + faults'
               /\ ~locked' => guesses' <= (F - 1) + d + faults'
               /\ locked' => guesses' <= guesses /\ faults' >= faults
  BY <1>a, GuessStep
<1> DEFINE Goal == /\ guesses' <= failures' + j + faults'
                   /\ ~locked' => guesses' <= (F - 1) + d + faults'
                   /\ locked' => guesses' <= guesses /\ faults' >= faults
<1> HIDE DEF i, c, j, d, F
<1>g. ASSUME UNCHANGED <<failures, locked, guesses, faults>>,
             Inserting \subseteq Inserting', Counted \subseteq Counted'
      PROVE  Goal
  <2>1. i <= j /\ c <= d
    BY <1>c, <1>g, Sizes DEF i, j, c, d
  <2> QED BY <1>b, <1>d, <1>e, <1>g, <2>1
<1>h. ASSUME NEW p, UNCHANGED <<failures, locked, guesses>>, faults' = faults + 1,
             Inserting \ {p} \subseteq Inserting', Counted \ {p} \subseteq Counted'
      PROVE  Goal
  <2>1. i <= j + 1 /\ c <= d + 1
    BY <1>c, <1>h, Sizes DEF i, j, c, d
  <2> QED BY <1>b, <1>d, <1>e, <1>h, <2>1
<1>1. ASSUME NEW p \in Requests, WrongPassword(p) PROVE Goal
  <2>1. /\ req[p].pc = "idle" /\ ~locked /\ guesses' = guesses + 1
        /\ UNCHANGED <<failures, locked, faults>>
    BY <1>1 DEF WrongPassword
  <2>2. req'[p].pc = "insert" /\ \A q \in Requests : q # p => req'[q] = req[q]
    BY <1>1, Moved DEF WrongPassword, PC
  <2>3. /\ p \notin Inserting /\ Inserting \cup {p} \subseteq Inserting'
        /\ p \notin Counted /\ Counted \cup {p} \subseteq Counted'
    BY <2>1, <2>2 DEF Inserting, Counted
  <2>4. i + 1 <= j /\ c + 1 <= d
    BY <1>c, <2>3, Sizes DEF i, j, c, d
  <2> QED BY <1>b, <1>d, <1>e, <2>1, <2>4
<1>2. ASSUME NEW p \in Requests, InsertFailedLogin(p) PROVE Goal
  <2>1. /\ req[p].pc = "insert" /\ UNCHANGED <<locked, guesses>>
        /\ \/ failures' = failures + 1 /\ faults' = faults
           \/ Fault /\ failures' = failures
    BY <1>2 DEF InsertFailedLogin
  <2>2. req'[p].pc = "count" /\ \A q \in Requests : q # p => req'[q] = req[q]
    BY <1>2, Moved DEF InsertFailedLogin, PC
  <2>3. Inserting \ {p} \subseteq Inserting' /\ Counted \subseteq Counted'
    BY <2>1, <2>2 DEF Inserting, Counted
  <2>4. i <= j + 1 /\ c <= d
    BY <1>c, <2>3, Sizes DEF i, j, c, d
  <2>5. CASE Fault /\ failures' = failures
    <3>1. faults' = faults + 1
      BY <2>5, FaultCounts
    <3> QED BY <1>h, <2>1, <2>3, <2>5, <3>1
  <2>6. CASE failures' = failures + 1 /\ faults' = faults
    BY <1>b, <1>d, <1>e, <2>1, <2>4, <2>6
  <2> QED BY <2>1, <2>5, <2>6
<1>3. ASSUME NEW p \in Requests, CountFailedLogins(p) PROVE Goal
  <2>1. UNCHANGED <<failures, locked, guesses>>
    BY <1>3 DEF CountFailedLogins
  <2>2. /\ req[p].pc = "count" /\ req'[p].pc = "lock"
        /\ \/ req'[p].n = failures /\ faults' = faults
           \/ Fault
        /\ \A q \in Requests : q # p => req'[q] = req[q]
    BY <1>3, CountStep
  <2>3. Inserting \subseteq Inserting' /\ Inserting' \subseteq Inserting
    BY <2>2 DEF Inserting
  <2>4. CASE Fault
    <3>1. Counted \ {p} \subseteq Counted' /\ faults' = faults + 1
      BY <2>2, <2>4, FaultCounts DEF Counted
    <3> QED BY <1>h, <2>1, <2>3, <3>1
  <2>5. CASE req'[p].n = failures /\ faults' = faults /\ failures >= F
    <3>1. Counted \subseteq Counted'
      BY <2>2, <2>5 DEF Counted, F
    <3> QED BY <1>g, <2>1, <2>3, <2>5, <3>1
  \* The attempt is not among those that exceed the limit.
  <2>6. CASE req'[p].n = failures /\ faults' = faults /\ ~(failures >= F)
    <3>1. Inserting \subseteq Counted'
      BY <2>2 DEF Inserting, Counted
    <3>2. i <= d /\ i <= j
      BY <1>c, <2>3, <3>1, Sizes DEF i, j, d
    <3>3. failures <= F - 1
      BY <1>b, <2>6
    <3> QED BY <1>b, <1>d, <1>e, <2>1, <2>6, <3>2, <3>3
  <2> QED BY <2>2, <2>4, <2>5, <2>6
<1>4. ASSUME NEW p \in Requests, SetLockedUntil(p) PROVE Goal
  <2>1. req[p].pc = "lock" /\ UNCHANGED <<failures, guesses>>
    BY <1>4 DEF SetLockedUntil
  <2>2. req'[p].pc = "idle" /\ \A q \in Requests : q # p => req'[q] = req[q]
    BY <1>4, Ended DEF SetLockedUntil
  <2>3. Inserting \subseteq Inserting' /\ Counted \ {p} \subseteq Counted'
    BY <2>1, <2>2 DEF Inserting, Counted
  <2>4. CASE Fault /\ locked' = locked
    <3>1. faults' = faults + 1
      BY <2>4, FaultCounts
    <3> QED BY <1>h, <2>1, <2>3, <2>4, <3>1
  <2>5. CASE locked' /\ faults' = faults
    <3>1. i <= j
      BY <1>c, <2>3, Sizes DEF i, j
    <3> QED BY <1>b, <1>d, <1>e, <2>1, <2>5, <3>1
  <2>6. CASE ~locked' /\ locked' = (locked \/ MustLock(req[p].n)) /\ faults' = faults
    <3>1. ~locked /\ ~(req[p].n >= LoginFailMax)
      BY Zenon, <2>6 DEF MustLock
    <3>2. p \notin Counted
      BY <2>1, <3>1 DEF Counted
    <3>3. Counted \subseteq Counted'
      BY <2>3, <3>2
    <3>4. i <= j /\ c <= d
      BY <1>c, <2>3, <3>3, Sizes DEF i, j, c, d
    <3> QED BY <1>b, <1>d, <1>e, <2>1, <2>6, <3>1, <3>4
  <2> QED BY <1>4, <2>4, <2>5, <2>6 DEF SetLockedUntil
<1>5. ASSUME NEW p \in Requests,
             \/ RightPassword(p) \/ CreateChallenge(p)
             \/ \E e \in Challenges : RightCode(p, e) \/ WrongCode(p, e)
             \/ Burn(p) \/ ConsumeOTP(p) \/ Issue(p)
      PROVE  Goal
  <2>1. \A q \in Requests : q # p => req'[q] = req[q]
    BY <1>5, StepOf
  <2>2. req[p].pc \notin {"insert", "count", "lock"}
    BY Zenon, <1>5 DEF RightPassword, CreateChallenge, RightCode, WrongCode, FindChallenge,
                           Burn, ConsumeOTP, Issue
  <2>3. Inserting \subseteq Inserting' /\ Counted \subseteq Counted'
    BY <2>1, <2>2 DEF Inserting, Counted
  <2>4. UNCHANGED <<failures, locked, guesses>> /\ (faults' = faults \/ Fault)
    BY Zenon, <1>5 DEF RightPassword, CreateChallenge, RightCode, WrongCode, FindChallenge,
                           Burn, ConsumeOTP, Issue
  <2>5. CASE Fault
    <3>1. faults' = faults + 1
      BY <2>5, FaultCounts
    <3> QED BY <1>h, <2>3, <2>4, <3>1
  <2>6. CASE faults' = faults
    BY <1>g, <2>3, <2>4, <2>6
  <2> QED BY <2>4, <2>5, <2>6
<1>6. ASSUME NEW p \in Requests, Abort(p) PROVE Goal
  <2>1. \A q \in Requests : q # p => req'[q] = req[q]
    BY <1>6, StepOf
  <2>2. Inserting \ {p} \subseteq Inserting' /\ Counted \ {p} \subseteq Counted'
    BY <2>1 DEF Inserting, Counted
  <2>3. faults' = faults + 1 /\ UNCHANGED <<failures, locked, guesses>>
    BY <1>6, FaultCounts DEF Abort
  <2> QED BY Zenon, <1>h, <2>2, <2>3
<1>7. CASE (\E e \in Challenges : Expire(e)) \/ UNCHANGED vars
  <2>1. UNCHANGED <<failures, locked, guesses, faults, req>>
    BY <1>7 DEF Expire, vars
  <2>2. Inserting' = Inserting /\ Counted' = Counted
    BY <2>1 DEF Inserting, Counted
  <2> QED BY <1>g, <2>1, <2>2
<1>8. CASE Unlock
  BY <1>8, <1>b, <1>d, FailMaxAssumption DEF Unlock, F
<1>9. CASE Age
  <2>1. UNCHANGED <<locked, faults, req>> /\ failures' = failures - 1 /\ failures > 0
    BY <1>9 DEF Age
  <2>2. guesses' = IF guesses = 0 THEN 0 ELSE guesses - 1
    BY <1>9 DEF Age
  <2>3. Inserting' = Inserting /\ Counted' = Counted
    BY <2>1 DEF Inserting, Counted
  <2>4. i = j /\ c = d
    BY <2>3 DEF i, j, c, d
  <2> QED BY <1>b, <1>d, <1>e, <2>1, <2>2, <2>4
<1> QED BY <1>1, <1>2, <1>3, <1>4, <1>5, <1>6, <1>7, <1>8, <1>9 DEF Next

\* The lock-out bounds the wrong passwords that are evaluated in a window.
THEOREM LockoutBoundsGuesses == Spec => []GuessesBounded
<1>1. GuessInv => GuessesBounded
  BY DEF GuessInv
<1> QED BY <1>1, InitTypeOK, NextTypeOK, InitFound, NextFound, InitGuessInv, NextGuessInv,
           PTL DEF Spec

=============================================================================
