--------------------------- MODULE SessionsProofs ---------------------------
(* Theorems about Sessions, for every value of its constants. *)
EXTENDS Sessions, FiniteSetTheorems, TLAPS

\* What the statements write is a row.
LEMMA RowUpdates ==
    ASSUME NEW row \in Row, NEW r \in Request
    PROVE  /\ NoRow \in Row
           /\ Upserted(row, r) \in Row
           /\ Rotated(row, r) \in Row
           /\ BanRow(row) \in Row
           /\ [row EXCEPT !.revoked = TRUE] \in Row
           /\ [row EXCEPT !.expired = TRUE] \in Row
  <1> USE BoundsAssumption DEF Row, Version
  <1>1. NoRow \in Row
    BY DEF NoRow
  <1>2. Upserted(row, r) \in Row
    BY DEF Upserted, Request
  <1>3. Rotated(row, r) \in Row
    BY Zenon DEF Rotated, Request
  <1>4. BanRow(row) \in Row
    BY Zenon DEF BanRow
  <1>5. [row EXCEPT !.revoked = TRUE] \in Row
    BY Zenon
  <1>6. [row EXCEPT !.expired = TRUE] \in Row
    BY Zenon
  <1> QED
    BY <1>1, <1>2, <1>3, <1>4, <1>5, <1>6

\* What a handler starts with is a request.
LEMMA OpenedType ==
    ASSUME NEW pc \in PC, NEW u \in Users \cup {None}, NEW d \in Devices \cup {None},
           NEW v \in Version, NEW t \in 0..MaxTokens, NEW n \in 0..MaxTokens,
           NEW s \in 0..MaxTokens
    PROVE  Opened(pc, u, d, v, t, n, s) \in Request
  BY DEF Opened, Request

\* The order of the numbers of sessions.
LEMMA Order ==
    /\ \A a, b, c \in Nat : a <= b /\ b <= c => a <= c
    /\ \A a, b \in Nat : a <= b => a < b + 1
    /\ \A a, b \in Nat : a < b => a - 1 < b - 1
    /\ \A a, b \in Nat : a < b => a - 1 < b
  OBVIOUS

\* An idle request is a request.
LEMMA IdleRequestType == IdleRequest \in Request
  BY OpenedType, BoundsAssumption DEF IdleRequest, PC, Version

\* ProjectedSessions is a number of sessions.
LEMMA ProjectedType ==
    ASSUME NEW r \in Request PROVE ProjectedSessions(r) \in Nat
  <1> DEFINE S == {d \in r.unexpired : ~rows[r.user][d].revoked}
  <1>1. S \subseteq Devices
    BY DEF Request
  <1>2. Cardinality(S) \in Nat
    BY <1>1, DevicesAssumption, FS_Subset, FS_CardinalityType
  <1> QED
    BY <1>2 DEF ProjectedSessions

\* A database without sessions satisfies IInv.
LEMMA InitIInv == Init => IInv
  <1> SUFFICES ASSUME Init PROVE IInv
    OBVIOUS
  <1> USE DEF Init
  <1>1. NoRow \in Row /\ ~Live(NoRow)
    BY BoundsAssumption DEF NoRow, Row, Version, Live
  <1>2. TypeOK
    BY <1>1, IdleRequestType, BoundsAssumption DEF TypeOK, Version
  <1>3. RequestsConsistent
    BY DEF RequestsConsistent, RequestOK, IdleRequest, Opened
  <1>4. LiveSessionsAreCurrent
    BY <1>1 DEF LiveSessionsAreCurrent
  <1> QED
    BY <1>2, <1>3, <1>4 DEF IInv

\* An idle request assumes nothing.
LEMMA IdleRequestOK == TypeOK => RequestOK(IdleRequest)
  BY DEF TypeOK, RequestOK, IdleRequest, Opened

\* A step that changes only one request's local variables keeps the
\* invariant when the new values are consistent.
LEMMA LocalStep ==
    ASSUME IInv, UNCHANGED store,
           NEW p \in Requests, NEW r \in Request, RequestOK(r), Become(p, r)
    PROVE  IInv'
  <1> USE DEF store, Become
  <1>1. TypeOK'
    BY DEF IInv, TypeOK
  <1>2. RequestOK(r)'
    BY DEF RequestOK, StillCurrent
  <1>3. \A q \in Requests : q # p => req'[q] = req[q]
    BY DEF IInv, TypeOK
  <1>4. req'[p] = r
    BY DEF IInv, TypeOK
  <1>5. \A q \in Requests : RequestOK(req[q])'
    BY <1>2, <1>3, <1>4 DEF IInv, RequestsConsistent, RequestOK, StillCurrent
  <1>6. LiveSessionsAreCurrent'
    BY DEF IInv, LiveSessionsAreCurrent
  <1> QED
    BY <1>1, <1>5, <1>6 DEF IInv, RequestsConsistent

\* A request that ends keeps IInv.
LEMMA FinishStep ==
    ASSUME IInv, UNCHANGED store, NEW p \in Requests, Finish(p)
    PROVE  IInv'
  BY LocalStep, IdleRequestType, IdleRequestOK DEF Finish, IInv

\* A login that takes the user's lock keeps IInv.
LEMMA IssueLockStep ==
    ASSUME IInv, NEW p \in Requests, IssueLock(p) PROVE IInv'
  <1> DEFINE r == req[p]
             n == [r EXCEPT !.pc = "count",
                      !.unexpired = {d \in Devices : ~rows[r.user][d].expired},
                      !.exists = Live(rows[r.user][r.dev])]
  <1>1. r \in Request /\ RequestOK(r) /\ r.pc = "lock"
    BY DEF IInv, TypeOK, RequestsConsistent, IssueLock
  <1>2. CASE ~StillCurrent(r)
    BY ZenonT(40), <1>2, FinishStep DEF IssueLock
  <1>3. CASE StillCurrent(r)
    <2>1. rows[r.user][r.dev] \in Row
      BY ZenonT(40), <1>1 DEF IInv, TypeOK, RequestOK
    <2>2. Live(rows[r.user][r.dev]) \in BOOLEAN
      BY SMTT(40), <2>1 DEF Live, Row
    <2>3. n \in Request
      BY Zenon, <1>1, <2>2 DEF Request, PC
    <2>4. RequestOK(n)
      BY <1>1, <1>3 DEF RequestOK, StillCurrent, Request
    <2>5. Become(p, n) /\ UNCHANGED store
      BY <1>3 DEF IssueLock
    <2> QED
      BY <2>3, <2>4, <2>5, LocalStep
  <1> QED
    BY <1>2, <1>3

\* A login that counts the sessions keeps IInv.
LEMMA IssueCountStep ==
    ASSUME IInv, NEW p \in Requests, IssueCount(p) PROVE IInv'
  <1> DEFINE r == req[p]
             n == [r EXCEPT !.pc = "evict", !.projected = ProjectedSessions(r)]
  <1>1. r \in Request /\ RequestOK(r) /\ r.pc = "count"
    BY DEF IInv, TypeOK, RequestsConsistent, IssueCount
  <1>2. n \in Request
    BY Zenon, <1>1, ProjectedType DEF Request, PC
  <1>3. RequestOK(n)
    BY <1>1 DEF RequestOK, StillCurrent, Request
  <1>4. Become(p, n) /\ UNCHANGED store
    BY DEF IssueCount
  <1> QED
    BY <1>2, <1>3, <1>4, LocalStep

\* A login that evicts a session keeps IInv.
LEMMA IssueEvictStep ==
    ASSUME IInv, NEW p \in Requests, IssueEvict(p) PROVE IInv'
  <1> DEFINE r == req[p]
  <1>1. r \in Request /\ RequestOK(r) /\ r.pc = "evict" /\ r.projected > MaxSessions
    BY DEF IInv, TypeOK, RequestsConsistent, IssueEvict
  <1>2. CASE Evictable(p) = {}
    BY <1>2, FinishStep DEF IssueEvict
  <1>3. CASE Evictable(p) # {}
    <2>1. PICK d \in Oldest(r.user, Evictable(p)) :
                  Become(p, [r EXCEPT !.projected = @ - 1, !.evicted = @ \cup {d}])
      BY Zenon, <1>3 DEF IssueEvict, DeleteOldest
    <2> DEFINE n == [r EXCEPT !.projected = @ - 1, !.evicted = @ \cup {d}]
    <2>2. d \in Devices
      BY <1>1, <2>1 DEF Evictable, Oldest, Request
    <2>a. r.projected - 1 \in Nat
      BY <1>1, MaxSessionsAssumption DEF Request
    <2>b. r.evicted \cup {d} \in SUBSET Devices
      BY <1>1, <2>2 DEF Request
    <2>3. n \in Request
      BY Zenon, <1>1, <2>a, <2>b DEF Request
    <2>4. RequestOK(n)
      BY <1>1 DEF RequestOK, StillCurrent, Request
    <2>5. Become(p, n) /\ UNCHANGED store
      BY <2>1 DEF IssueEvict
    <2> QED
      BY <2>3, <2>4, <2>5, LocalStep
  <1> QED
    BY <1>2, <1>3

\* A request stays consistent while accounts do not change and tokens are
\* only added.
LEMMA RequestOKStable ==
    ASSUME NEW r \in Request, RequestOK(r),
           nextToken \in Nat, nextToken' \in Nat, nextToken <= nextToken',
           issued \subseteq issued', delivered \subseteq delivered',
           UNCHANGED <<banned, tokenVersion>>
    PROVE  RequestOK(r)'
  <1>1. r.new \in Nat
    BY BoundsAssumption DEF Request
  <1> QED
    BY <1>1 DEF RequestOK, StillCurrent

\* A step that gives one request consistent new values, adds tokens and
\* changes no account keeps every request consistent.
LEMMA OneRequestStep ==
    ASSUME TypeOK, RequestsConsistent, nextToken' \in Nat, nextToken <= nextToken',
           issued \subseteq issued', delivered \subseteq delivered',
           UNCHANGED <<banned, tokenVersion>>,
           NEW p \in Requests, NEW r, RequestOK(r)', Become(p, r)
    PROVE  RequestsConsistent'
  <1> SUFFICES ASSUME NEW q \in Requests PROVE RequestOK(req[q])'
    BY DEF RequestsConsistent
  <1>1. CASE q = p
    BY <1>1 DEF Become, TypeOK
  <1>2. CASE q # p
    <2>1. req'[q] = req[q] /\ req[q] \in Request /\ RequestOK(req[q])
      BY <1>2 DEF Become, TypeOK, RequestsConsistent
    <2>2. nextToken \in Nat
      BY DEF TypeOK
    <2> QED
      BY <2>1, <2>2, RequestOKStable
  <1> QED
    BY <1>1, <1>2

\* The start of a login keeps IInv.
LEMMA IssueStartStep ==
    ASSUME IInv, NEW p \in Requests, NEW u \in Humans, NEW d \in Devices,
           IssueStart(p, u, d)
    PROVE  IInv'
  <1>0. PICK n : n = Opened("lock", u, d, tokenVersion[u], 0, nextToken, 0)
    OBVIOUS
  <1>1. /\ u \in Users /\ nextToken \in 1..MaxTokens
        /\ nextToken' \in Nat /\ nextToken' = nextToken + 1
        /\ tokenVersion[u] \in Version
    BY BoundsAssumption DEF IInv, TypeOK, Users, IssueStart
  <1>2. n \in Request
    BY <1>0, <1>1, OpenedType, BoundsAssumption DEF PC
  <1>3. Become(p, n) /\ UNCHANGED <<banned, tokenVersion, rows, issued, exchanged, delivered, access>>
    BY <1>0 DEF IssueStart
  <1>4. TypeOK'
    BY <1>1, <1>2, <1>3, BoundsAssumption DEF IInv, TypeOK, Become
  <1>5. RequestOK(n)'
    BY <1>0, <1>1, <1>3 DEF RequestOK, Opened
  <1>6. RequestsConsistent'
    BY <1>1, <1>3, <1>5, OneRequestStep DEF IInv
  <1>7. LiveSessionsAreCurrent'
    BY <1>3 DEF IInv, LiveSessionsAreCurrent
  <1> QED
    BY <1>4, <1>6, <1>7 DEF IInv

\* A refresh that finds its session keeps IInv.
LEMMA RefreshFindStep ==
    ASSUME IInv, NEW p \in Requests, NEW t \in delivered, RefreshFind(p, t)
    PROVE  IInv'
  <1>0. PICK u \in Humans, d \in Devices :
            Become(p, Opened("user", u, None, 0, t, nextToken, rows[u][d].id))
    BY DEF RefreshFind
  <1>a. PICK n : n = Opened("user", u, None, 0, t, nextToken, rows[u][d].id)
    OBVIOUS
  <1>1. /\ u \in Users /\ nextToken \in 1..MaxTokens
        /\ nextToken' \in Nat /\ nextToken' = nextToken + 1
        /\ t \in 0..MaxTokens /\ rows[u][d].id \in 0..MaxTokens
    BY BoundsAssumption DEF IInv, TypeOK, Users, RefreshFind, Row
  <1>b. /\ "user" \in PC /\ 0 \in Version /\ nextToken \in 0..MaxTokens
        /\ u \in Users \cup {None} /\ None \in Devices \cup {None}
    BY <1>1, BoundsAssumption DEF PC, Version
  <1>2. n \in Request
    BY Zenon, <1>a, <1>b, <1>1, OpenedType
  <1>3. Become(p, n) /\ UNCHANGED <<banned, tokenVersion, rows, issued, exchanged, delivered, access>>
    BY <1>0, <1>a DEF RefreshFind
  <1>4. TypeOK'
    BY <1>1, <1>2, <1>3, BoundsAssumption DEF IInv, TypeOK, Become
  <1>5. RequestOK(n)'
    BY <1>a, <1>1, <1>3 DEF RequestOK, Opened
  <1>6. RequestsConsistent'
    BY <1>1, <1>3, <1>5, OneRequestStep DEF IInv
  <1>7. LiveSessionsAreCurrent'
    BY <1>3 DEF IInv, LiveSessionsAreCurrent
  <1> QED
    BY Zenon, <1>4, <1>6, <1>7 DEF IInv

\* A logout or a revocation that finds its session keeps IInv.
LEMMA RevokeFindStep ==
    ASSUME IInv, NEW p \in Requests, NEW u \in Humans, NEW d \in Devices,
           Become(p, Opened("revoke", u, None, 0, 0, 0, rows[u][d].id)),
           UNCHANGED store
    PROVE  IInv'
  <1>0. PICK n : n = Opened("revoke", u, None, 0, 0, 0, rows[u][d].id)
    OBVIOUS
  <1>1. /\ "revoke" \in PC /\ 0 \in Version /\ 0 \in 0..MaxTokens
        /\ u \in Users \cup {None} /\ None \in Devices \cup {None}
        /\ rows[u][d].id \in 0..MaxTokens
    BY BoundsAssumption DEF IInv, TypeOK, Users, Row, PC, Version
  <1>2. n \in Request
    BY Zenon, <1>0, <1>1, OpenedType
  <1>3. RequestOK(n)
    BY <1>0, <1>1 DEF IInv, TypeOK, RequestOK, Opened
  <1> QED
    BY <1>0, <1>2, <1>3, LocalStep

\* The start of a service's token request keeps IInv.
LEMMA ServiceTokenStartStep ==
    ASSUME IInv, NEW p \in Requests, NEW u \in Services, ServiceTokenStart(p, u)
    PROVE  IInv'
  <1>0. PICK n : n = Opened("sign", u, None, tokenVersion[u], 0, 0, 0)
    OBVIOUS
  <1>1. /\ "sign" \in PC /\ tokenVersion[u] \in Version /\ 0 \in 0..MaxTokens
        /\ u \in Users /\ None \in Devices \cup {None}
    BY BoundsAssumption DEF IInv, TypeOK, Users, PC
  <1>2. n \in Request
    BY Zenon, <1>0, <1>1, OpenedType
  <1>3. RequestOK(n)
    BY <1>0, <1>1 DEF IInv, TypeOK, RequestOK, Opened
  <1> QED
    BY <1>0, <1>2, <1>3, LocalStep DEF ServiceTokenStart

\* A refresh that reads its user keeps IInv.
LEMMA RefreshUserStep ==
    ASSUME IInv, NEW p \in Requests, RefreshUser(p) PROVE IInv'
  <1> DEFINE r == req[p]
             n == [r EXCEPT !.pc = "rotate", !.ver = tokenVersion[r.user]]
  <1>1. r \in Request /\ RequestOK(r) /\ r.pc = "user"
    BY DEF IInv, TypeOK, RequestsConsistent, RefreshUser
  <1>2. CASE banned[r.user]
    BY <1>2, FinishStep DEF RefreshUser
  <1>3. CASE ~banned[r.user]
    <2>1. tokenVersion[r.user] \in Version
      BY <1>1 DEF IInv, TypeOK, RequestOK, Users
    <2>2. n \in Request
      BY Zenon, <1>1, <2>1 DEF Request, PC
    <2>3. RequestOK(n)
      BY <1>1 DEF RequestOK, Request
    <2>4. Become(p, n) /\ UNCHANGED store
      BY <1>3 DEF RefreshUser
    <2> QED
      BY ZenonT(40), <2>2, <2>3, <2>4, LocalStep
  <1> QED
    BY <1>2, <1>3

\* A token that was drawn is below the next one.
LEMMA TokenAdded ==
    ASSUME NEW k \in Nat, NEW S \in SUBSET (1..(k - 1)),
           NEW x \in Nat, x # 0, x < k
    PROVE  S \cup {x} \subseteq 1..(k - 1)
  <1>1. x \in 1..(k - 1)
    OBVIOUS
  <1> QED
    BY <1>1

\* A request that is about to answer keeps its user, version and token.
LEMMA AnsweringFields ==
    ASSUME NEW r \in Request, r.user \in Users
    PROVE  /\ Answering(r) \in Request /\ Answering(r).pc = "sign"
           /\ Answering(r).user = r.user /\ Answering(r).ver = r.ver
           /\ Answering(r).new = r.new
  <1>1. /\ "sign" \in PC /\ r.user \in Users \cup {None} /\ None \in Devices \cup {None}
        /\ r.ver \in Version /\ 0 \in 0..MaxTokens /\ r.new \in 0..MaxTokens
    BY BoundsAssumption DEF Request, PC
  <1>2. Answering(r) \in Request
    BY Zenon, <1>1, OpenedType DEF Answering
  <1> QED
    BY <1>2 DEF Answering, Opened

\* The login commits: its row is current because no ban could pass the lock.
LEMMA IssueInsertStep ==
    ASSUME IInv, NEW p \in Requests, IssueInsert(p) PROVE IInv'
  <1>0. PICK r : r = req[p]
    BY Zenon
  <1>1. r \in Request /\ RequestOK(r) /\ r.pc = "evict"
    BY <1>0 DEF IInv, TypeOK, RequestsConsistent, IssueInsert
  <1>2. PICK n : n = Answering(r)
    BY ZenonT(40)
  <1>3. /\ Become(p, n) /\ issued' = issued \cup {r.new}
        /\ UNCHANGED <<banned, tokenVersion, nextToken, exchanged, delivered, access>>
        /\ rows' = [rows EXCEPT ![r.user] =
                [d \in Devices |->
                    IF d = r.dev THEN Upserted(rows[r.user][d], r)
                    ELSE IF d \in r.evicted THEN NoRow ELSE rows[r.user][d]]]
    BY <1>0, <1>2 DEF IssueInsert
  <1>4. /\ r.user \in Humans /\ r.dev \in Devices /\ r.new \in Nat /\ r.new # 0
        /\ r.new < nextToken /\ StillCurrent(r) /\ nextToken \in Nat
    BY <1>1, BoundsAssumption DEF RequestOK, Request, IInv, TypeOK
  <1>5. n \in Request /\ n.pc = "sign" /\ n.user = r.user /\ n.new = r.new
    BY ZenonT(40), <1>1, <1>2, <1>4, AnsweringFields DEF Users
  <1>6. rows' \in [Humans -> [Devices -> Row]]
    <2>1. \A d \in Devices : rows[r.user][d] \in Row
      BY <1>4 DEF IInv, TypeOK
    <2>2. \A d \in Devices : Upserted(rows[r.user][d], r) \in Row /\ NoRow \in Row
      BY Zenon, <1>1, <2>1, RowUpdates
    <2> QED
      BY <1>3, <1>4, <2>1, <2>2 DEF IInv, TypeOK
  <1>7. TypeOK'
    <2>1. issued' \subseteq 1..(nextToken' - 1)
      BY Zenon, <1>3, <1>4, TokenAdded DEF IInv, TypeOK
    <2>2. req' \in [Requests -> Request]
      BY <1>3, <1>5 DEF IInv, TypeOK, Become
    <2> QED
      BY ZenonT(40), <1>3, <1>6, <2>1, <2>2 DEF IInv, TypeOK
  <1>8. RequestOK(n)'
    BY Zenon, <1>3, <1>4, <1>5 DEF RequestOK, Users
  <1>9. RequestsConsistent'
    BY <1>3, <1>4, <1>8, OneRequestStep DEF IInv
  <1>10. LiveSessionsAreCurrent'
    <2> SUFFICES ASSUME NEW u \in Humans, NEW d \in Devices, Live(rows'[u][d])
                 PROVE  ~banned[u] /\ rows'[u][d].ver = tokenVersion[u]
      BY <1>3 DEF LiveSessionsAreCurrent, Live
    <2>1. CASE u = r.user /\ d = r.dev
      <3>1. rows'[u][d] = Upserted(rows[u][d], r)
        BY Zenon, <1>3, <1>4, <2>1 DEF IInv, TypeOK
      <3> QED
        BY <1>4, <2>1, <3>1 DEF Upserted, StillCurrent
    <2>2. CASE ~(u = r.user /\ d = r.dev)
      <3>1. rows'[u][d] = rows[u][d] \/ rows'[u][d] = NoRow
        BY <1>3, <1>4, <2>2 DEF IInv, TypeOK
      <3>2. ~Live(NoRow)
        BY DEF NoRow, Live
      <3>3. rows'[u][d] = rows[u][d]
        BY <3>1, <3>2
      <3> QED
        BY ZenonT(40), <3>3 DEF IInv, LiveSessionsAreCurrent
    <2> QED
      BY Zenon, <2>1, <2>2
  <1> QED
    BY <1>7, <1>9, <1>10 DEF IInv

\* A rotation writes only the row it found live, under the same lock.
LEMMA RotateStep ==
    ASSUME IInv, NEW p \in Requests, Rotate(p) PROVE IInv'
  <1>0. PICK r : r = req[p]
    OBVIOUS
  <1>1. r \in Request /\ RequestOK(r) /\ r.pc = "rotate"
    BY <1>0 DEF IInv, TypeOK, RequestsConsistent, Rotate
  <1>2. PICK n : n = Answering(r)
    OBVIOUS
  <1>3. CASE ~StillCurrent(r) \/ RotateHit(r) = {}
    BY ZenonT(40), <1>0, <1>3, FinishStep DEF Rotate, store
  <1>4. CASE StillCurrent(r) /\ RotateHit(r) # {}
    <2>1. /\ Become(p, n) /\ issued' = issued \cup {r.new}
          /\ exchanged' = exchanged \cup {r.tok}
          /\ UNCHANGED <<banned, tokenVersion, nextToken, delivered, access>>
          /\ rows' = [rows EXCEPT ![r.user] =
                 [d \in Devices |->
                     IF d \in RotateHit(r) THEN Rotated(rows[r.user][d], r)
                     ELSE rows[r.user][d]]]
      BY ZenonT(40), <1>0, <1>2, <1>4 DEF Rotate
    <2>2. /\ r.user \in Humans /\ r.new \in Nat /\ r.new # 0 /\ r.tok \in delivered
          /\ r.new < nextToken /\ nextToken \in Nat
      BY <1>1, BoundsAssumption DEF RequestOK, Request, IInv, TypeOK
    <2>3. n \in Request /\ n.pc = "sign" /\ n.user = r.user /\ n.new = r.new
      BY <1>1, <1>2, <2>2, AnsweringFields DEF Users
    <2>4. TypeOK'
      <3>1. issued' \subseteq 1..(nextToken' - 1)
        BY Zenon, <2>1, <2>2, TokenAdded DEF IInv, TypeOK
      <3>2. req' \in [Requests -> Request]
        BY <2>1, <2>3 DEF IInv, TypeOK, Become
      <3>3. \A d \in Devices : rows[r.user][d] \in Row /\ Rotated(rows[r.user][d], r) \in Row
        BY ZenonT(40), <1>1, <2>2, RowUpdates DEF IInv, TypeOK
      <3>4. rows' \in [Humans -> [Devices -> Row]]
        BY ZenonT(40), <2>1, <2>2, <3>3 DEF IInv, TypeOK
      <3> QED
        BY Zenon, <2>1, <2>2, <3>1, <3>2, <3>4 DEF IInv, TypeOK
    <2>5. RequestOK(n)'
      BY <2>1, <2>2, <2>3 DEF RequestOK, Users
    <2>6. RequestsConsistent'
      BY <2>1, <2>2, <2>5, OneRequestStep DEF IInv
    <2>7. LiveSessionsAreCurrent'
      <3> SUFFICES ASSUME NEW u \in Humans, NEW d \in Devices, Live(rows'[u][d])
                   PROVE  ~banned[u] /\ rows'[u][d].ver = tokenVersion[u]
        BY <2>1 DEF LiveSessionsAreCurrent, Live
      <3>1. CASE u = r.user /\ d \in RotateHit(r)
        <4>1. rows'[u][d] = Rotated(rows[u][d], r)
          BY <2>1, <2>2, <3>1 DEF IInv, TypeOK
        <4>2. rows[u][d] \in Row
          BY Zenon DEF IInv, TypeOK
        <4> QED
          BY Zenon, <1>4, <3>1, <4>1, <4>2 DEF Rotated, StillCurrent, Row
      <3>2. CASE ~(u = r.user /\ d \in RotateHit(r))
        <4>1. rows'[u][d] = rows[u][d]
          BY ZenonT(40), <2>1, <2>2, <3>2 DEF IInv, TypeOK
        <4> QED
          BY <4>1 DEF IInv, LiveSessionsAreCurrent
      <3> QED
        BY ZenonT(40), <3>1, <3>2
    <2> QED
      BY <2>4, <2>6, <2>7 DEF IInv
  <1> QED
    BY <1>3, <1>4

\* A step that changes rows of sessions only by revoking or expiring them.
LEMMA WeakerRows ==
    ASSUME IInv, rows' \in [Humans -> [Devices -> Row]],
           \A u \in Humans, d \in Devices :
               Live(rows'[u][d]) => rows'[u][d] = rows[u][d],
           UNCHANGED <<banned, tokenVersion>>
    PROVE  LiveSessionsAreCurrent'
  <1> SUFFICES ASSUME NEW u \in Humans, NEW d \in Devices, Live(rows'[u][d])
               PROVE  ~banned[u] /\ rows'[u][d].ver = tokenVersion[u]
    BY Zenon DEF LiveSessionsAreCurrent, Live
  <1> QED
    BY DEF IInv, LiveSessionsAreCurrent

\* A revocation keeps IInv.
LEMMA RevokeStep ==
    ASSUME IInv, NEW p \in Requests, Revoke(p) PROVE IInv'
  <1>0. PICK r : r = req[p]
    OBVIOUS
  <1>1. r \in Request /\ RequestOK(r) /\ r.pc = "revoke" /\ r.user \in Humans
    BY ZenonT(40), <1>0 DEF IInv, TypeOK, RequestsConsistent, Revoke, RequestOK
  <1>2. /\ rows' = [rows EXCEPT ![r.user] =
                [d \in Devices |->
                    IF rows[r.user][d].id = r.sid
                    THEN [rows[r.user][d] EXCEPT !.revoked = TRUE]
                    ELSE rows[r.user][d]]]
        /\ Become(p, IdleRequest)
        /\ UNCHANGED <<banned, tokenVersion, nextToken, issued, exchanged, delivered, access>>
    BY <1>0 DEF Revoke, Finish
  <1>3. \A u \in Humans, d \in Devices :
            /\ rows[u][d] \in Row
            /\ [rows[u][d] EXCEPT !.revoked = TRUE] \in Row
    BY ZenonT(40), <1>1, RowUpdates DEF IInv, TypeOK
  <1>4. rows' \in [Humans -> [Devices -> Row]]
    BY <1>1, <1>2, <1>3 DEF IInv, TypeOK
  <1>5. TypeOK'
    BY ZenonT(40), <1>2, <1>4, IdleRequestType DEF IInv, TypeOK, Become
  <1>6. RequestOK(IdleRequest)'
    BY <1>5 DEF TypeOK, RequestOK, IdleRequest, Opened
  <1>7. RequestsConsistent'
    BY <1>2, <1>5, <1>6, OneRequestStep DEF IInv, TypeOK
  <1>8. ASSUME NEW u \in Humans, NEW d \in Devices, Live(rows'[u][d])
        PROVE  rows'[u][d] = rows[u][d]
    <2>1. \/ rows'[u][d] = rows[u][d]
          \/ rows'[u][d] = [rows[u][d] EXCEPT !.revoked = TRUE]
      BY ZenonT(40), <1>1, <1>2 DEF IInv, TypeOK
    <2> QED
      BY <1>3, <1>8, <2>1 DEF Live, Row
  <1>9. LiveSessionsAreCurrent'
    BY Zenon, <1>2, <1>4, <1>8, WeakerRows
  <1> QED
    BY <1>5, <1>7, <1>9 DEF IInv

\* Signing and delivering the answer keep IInv.
LEMMA SignStep ==
    ASSUME IInv, NEW p \in Requests, Sign(p) PROVE IInv'
  <1>0. PICK r : r = req[p]
    OBVIOUS
  <1>1. /\ r \in Request /\ r.user \in Users /\ r.ver \in Version
        /\ r.new \in issued \cup {0}
    BY ZenonT(40), <1>0 DEF IInv, TypeOK, RequestsConsistent, RequestOK, Sign, Request
  <1>2. /\ access' = access \cup {[user |-> r.user, ver |-> r.ver]}
        /\ delivered' = delivered \cup ({r.new} \ {0})
        /\ Become(p, IdleRequest)
        /\ UNCHANGED <<banned, tokenVersion, rows, nextToken, issued, exchanged>>
    BY <1>0 DEF Sign, Finish
  <1>3. TypeOK'
    <2>1. access' \subseteq Bearer
      BY <1>1, <1>2 DEF IInv, TypeOK, Bearer
    <2>2. delivered' \subseteq issued' /\ exchanged' \subseteq delivered'
      BY Zenon, <1>1, <1>2 DEF IInv, TypeOK
    <2>3. req' \in [Requests -> Request]
      BY Zenon, <1>2, IdleRequestType DEF IInv, TypeOK, Become
    <2> QED
      BY Zenon, <1>2, <2>1, <2>2, <2>3 DEF IInv, TypeOK
  <1>4. RequestOK(IdleRequest)'
    BY <1>3 DEF TypeOK, RequestOK, IdleRequest, Opened
  <1>5. RequestsConsistent'
    BY <1>2, <1>3, <1>4, OneRequestStep DEF IInv, TypeOK
  <1>6. LiveSessionsAreCurrent'
    BY <1>2 DEF IInv, LiveSessionsAreCurrent
  <1> QED
    BY <1>3, <1>5, <1>6 DEF IInv

\* Expiry keeps IInv.
LEMMA ExpireStep ==
    ASSUME IInv, NEW u \in Humans, NEW d \in Devices, Expire(u, d) PROVE IInv'
  <1>1. rows[u][d] \in Row /\ [rows[u][d] EXCEPT !.expired = TRUE] \in Row
    <2>1. rows[u][d] \in Row
      BY DEF IInv, TypeOK
    <2> QED
      BY Zenon, <2>1, BoundsAssumption DEF Row, Version
  <1>2. /\ rows' = [rows EXCEPT ![u][d].expired = TRUE]
        /\ UNCHANGED <<banned, tokenVersion, req, nextToken, issued, exchanged, delivered, access>>
    BY DEF Expire
  <1>3. rows' \in [Humans -> [Devices -> Row]]
    BY <1>1, <1>2 DEF IInv, TypeOK
  <1>4. TypeOK'
    BY ZenonT(40), <1>3 DEF IInv, TypeOK, Expire
  <1>5. RequestsConsistent'
    BY DEF IInv, RequestsConsistent, RequestOK, StillCurrent, Expire
  <1>6. ASSUME NEW v \in Humans, NEW e \in Devices, Live(rows'[v][e])
        PROVE  rows'[v][e] = rows[v][e]
    <2>1. \/ rows'[v][e] = rows[v][e]
          \/ rows'[v][e] = [rows[u][d] EXCEPT !.expired = TRUE]
      BY <1>2 DEF IInv, TypeOK
    <2> QED
      BY <1>1, <1>6, <2>1 DEF Live, Row
  <1>7. LiveSessionsAreCurrent'
    BY Zenon, <1>3, <1>6, WeakerRows DEF Expire
  <1> QED
    BY <1>4, <1>5, <1>7 DEF IInv

\* A ban waits for the user lock, so it invalidates no recheck, and leaves
\* no live session of the account.
LEMMA BanStep ==
    ASSUME IInv, NEW u \in Users, Ban(u) PROVE IInv'
  <1>1. \A h \in Humans, d \in Devices : rows[h][d] \in Row /\ BanRow(rows[h][d]) \in Row
    <2> TAKE h \in Humans, d \in Devices
    <2>1. rows[h][d] \in Row
      BY DEF IInv, TypeOK
    <2> QED
      BY Zenon, <2>1 DEF BanRow, Row
  <1>2. rows' \in [Humans -> [Devices -> Row]]
    BY <1>1 DEF IInv, TypeOK, Ban
  <1>3. tokenVersion' \in [Users -> Version] /\ banned' \in [Users -> BOOLEAN]
    BY BoundsAssumption DEF IInv, TypeOK, Ban, BanVersion, Version
  <1>4. TypeOK'
    BY <1>2, <1>3 DEF IInv, TypeOK, Ban
  <1>5. RequestsConsistent'
    <2> SUFFICES ASSUME NEW q \in Requests PROVE RequestOK(req[q])'
      BY DEF RequestsConsistent
    <2>1. RequestOK(req[q]) /\ req'[q] = req[q]
      BY Zenon DEF IInv, RequestsConsistent, Ban
    <2>2. CASE HoldsLock(q)
      <3>1. req[q].user # u /\ StillCurrent(req[q])
        BY Zenon, <2>1, <2>2 DEF Ban, LockFree, RequestOK, HoldsLock
      <3>2. StillCurrent(req[q])'
        <4>1. req[q].user \in Users
          BY Zenon, <2>1, <2>2 DEF RequestOK, HoldsLock, Users
        <4>2. banned'[req[q].user] = banned[req[q].user] /\ tokenVersion'[req[q].user] = tokenVersion[req[q].user]
          BY Zenon, <3>1, <4>1 DEF Ban, IInv, TypeOK
        <4> QED
          BY Zenon, <2>1, <3>1, <4>2 DEF StillCurrent
      <3> QED
        BY Zenon, <2>1, <3>2 DEF RequestOK, Ban
    <2>3. CASE ~HoldsLock(q)
      BY <2>1, <2>3 DEF RequestOK, Ban, HoldsLock
    <2> QED
      BY <2>2, <2>3
  <1>6. LiveSessionsAreCurrent'
    <2> SUFFICES ASSUME NEW h \in Humans, NEW d \in Devices, Live(rows'[h][d])
                 PROVE  ~banned'[h] /\ rows'[h][d].ver = tokenVersion'[h]
      BY DEF LiveSessionsAreCurrent, Live
    <2>1. CASE h = u
      <3>1. rows'[h][d] = BanRow(rows[h][d])
        BY Zenon, <2>1 DEF Ban
      <3> QED
        BY Zenon, <1>1, <3>1 DEF BanRow, Live, Row
    <2>2. CASE h # u
      <3>1. rows'[h][d] = rows[h][d]
        BY Zenon, <2>2 DEF Ban
      <3>2. banned'[h] = banned[h] /\ tokenVersion'[h] = tokenVersion[h]
        BY ZenonT(40), <2>2 DEF Ban, IInv, TypeOK, Users
      <3> QED
        BY Zenon, <3>1, <3>2 DEF IInv, LiveSessionsAreCurrent
    <2> QED
      BY <2>1, <2>2
  <1> QED
    BY <1>4, <1>5, <1>6 DEF IInv

\* The end of a ban keeps IInv.
LEMMA UnbanStep ==
    ASSUME IInv, NEW u \in Users, Unban(u) PROVE IInv'
  <1>1. TypeOK'
    BY DEF IInv, TypeOK, Unban
  <1>2. \A v \in Users : ~banned[v] => ~banned'[v]
    BY DEF IInv, TypeOK, Unban
  <1>3. \A h \in Humans : h \in Users
    BY Zenon DEF Users
  <1>4. RequestsConsistent'
    <2> SUFFICES ASSUME NEW q \in Requests PROVE RequestOK(req[q])'
      BY DEF RequestsConsistent
    <2>1. RequestOK(req[q]) /\ req'[q] = req[q]
      BY DEF IInv, RequestsConsistent, Unban
    <2> QED
      BY <1>2, <1>3, <2>1 DEF RequestOK, StillCurrent, Unban
  <1>5. LiveSessionsAreCurrent'
    BY <1>2, <1>3 DEF IInv, LiveSessionsAreCurrent, Unban
  <1> QED
    BY <1>1, <1>4, <1>5 DEF IInv

\* A step of something else keeps IInv.
LEMMA StutterStep == IInv /\ UNCHANGED vars => IInv'
  <1> SUFFICES ASSUME IInv, UNCHANGED vars PROVE IInv'
    OBVIOUS
  <1>1. TypeOK'
    BY Zenon DEF IInv, TypeOK, vars
  <1>2. RequestsConsistent'
    BY Zenon DEF IInv, RequestsConsistent, RequestOK, StillCurrent, vars
  <1>3. LiveSessionsAreCurrent'
    BY DEF IInv, LiveSessionsAreCurrent, vars
  <1> QED
    BY <1>1, <1>2, <1>3 DEF IInv

\* Every step keeps IInv.
LEMMA NextIInv == IInv /\ [Next]_vars => IInv'
  <1> SUFFICES ASSUME IInv, [Next]_vars PROVE IInv'
    OBVIOUS
  <1>1. ASSUME NEW p \in Requests, Step(p) PROVE IInv'
    BY Zenon, <1>1, IssueLockStep, IssueCountStep, IssueEvictStep, IssueInsertStep,
       RefreshUserStep, RotateStep, RevokeStep, SignStep DEF Step
  <1>2. ASSUME NEW p \in Requests, Start(p) PROVE IInv'
    <2>1. CASE \E u \in Humans, d \in Devices : IssueStart(p, u, d)
      BY <2>1, IssueStartStep
    <2>2. CASE \E t \in delivered : RefreshFind(p, t)
      BY Zenon, <2>2, RefreshFindStep
    <2>3. CASE \E t \in delivered : LogoutFind(p, t)
      BY Zenon, <2>3, RevokeFindStep DEF LogoutFind
    <2>4. CASE \E u \in Humans, d \in Devices : RevokeOwnFind(p, u, d)
      BY <2>4, RevokeFindStep DEF RevokeOwnFind
    <2>5. CASE \E u \in Services : ServiceTokenStart(p, u)
      BY <2>5, ServiceTokenStartStep
    <2> QED
      BY ZenonT(40), <1>2, <2>1, <2>2, <2>3, <2>4, <2>5 DEF Start
  <1>3. ASSUME NEW p \in Requests, Abort(p) PROVE IInv'
    BY <1>3, FinishStep DEF Abort
  <1>4. ASSUME NEW u \in Users, Ban(u) \/ Unban(u) PROVE IInv'
    BY <1>4, BanStep, UnbanStep
  <1>5. ASSUME NEW u \in Humans, NEW d \in Devices, Expire(u, d) PROVE IInv'
    BY <1>5, ExpireStep
  <1>6. CASE UNCHANGED vars
    BY <1>6, StutterStep
  <1> QED
    BY <1>1, <1>2, <1>3, <1>4, <1>5, <1>6 DEF Next

\* The columns and the local variables of requests keep their types.
THEOREM TypeCorrect == Spec => []TypeOK
  <1>1. Spec => []IInv
    BY InitIInv, NextIInv, PTL DEF Spec
  <1>2. IInv => TypeOK
    BY DEF IInv
  <1> QED
    BY <1>1, <1>2, PTL

\* No interleaving of logins, refreshes, revocations, bans and unbans leaves a
\* live refresh session on a banned account or of an earlier token version.
THEOREM SessionsCurrent == Spec => []LiveSessionsAreCurrent
  <1>1. Spec => []IInv
    BY InitIInv, NextIInv, PTL DEF Spec
  <1>2. IInv => LiveSessionsAreCurrent
    BY DEF IInv
  <1> QED
    BY <1>1, <1>2, PTL

\* A request holding the user lock, and every token it carries, stays as it
\* was checked until the request's next statement.
THEOREM RequestsStayConsistent == Spec => []RequestsConsistent
  <1>1. Spec => []IInv
    BY InitIInv, NextIInv, PTL DEF Spec
  <1>2. IInv => RequestsConsistent
    BY SMTT(40) DEF IInv
  <1> QED
    BY <1>1, <1>2, PTL

-----------------------------------------------------------------------------
(* Bearer tokens.                                                          *)

\* Versions only grow, and a ban outruns every version handed out before it.
LEMMA BehindStable ==
    ASSUME IInv, [Next]_vars, NEW u \in Users, NEW v \in Version, Behind(u, v)
    PROVE  Behind(u, v)'
  <1>1. CASE UNCHANGED <<banned, tokenVersion>>
    BY Zenon, <1>1 DEF Behind
  <1>2. ASSUME NEW w \in Users, Ban(w) PROVE Behind(u, v)'
    BY <1>2, BoundsAssumption DEF Ban, BanVersion, Behind, IInv, TypeOK, Version
  <1>3. ASSUME NEW w \in Users, Unban(w) PROVE Behind(u, v)'
    BY Zenon, <1>3 DEF Unban, Behind, IInv, TypeOK
  <1> QED
    BY ZenonT(40), <1>1, <1>2, <1>3 DEF Next, vars, Step, Start, IssueLock, IssueCount,
       IssueEvict, IssueInsert, RefreshUser, Rotate, Revoke, Sign, IssueStart,
       RefreshFind, LogoutFind, RevokeOwnFind, ServiceTokenStart, Abort, Expire, store

\* Token versions never go back.
LEMMA VersionsGrow ==
    ASSUME IInv, [Next]_vars, NEW u \in Users
    PROVE  tokenVersion'[u] \in Nat /\ tokenVersion[u] <= tokenVersion'[u]
  <1>0. tokenVersion[u] \in Nat
    BY BoundsAssumption DEF IInv, TypeOK, Version
  <1>1. CASE UNCHANGED tokenVersion
    BY <1>0, <1>1
  <1>2. ASSUME NEW w \in Users, Ban(w)
        PROVE  tokenVersion'[u] \in Nat /\ tokenVersion[u] <= tokenVersion'[u]
    BY <1>0, <1>2 DEF Ban, BanVersion, IInv, TypeOK
  <1> QED
    BY ZenonT(40), <1>1, <1>2 DEF Next, vars, Step, Start, IssueLock, IssueCount,
       IssueEvict, IssueInsert, RefreshUser, Rotate, Revoke, Sign, IssueStart,
       RefreshFind, LogoutFind, RevokeOwnFind, ServiceTokenStart, Abort, Expire,
       Unban, store

\* No access token exists at first.
LEMMA InitBearers == Init => BearersCovered
  BY DEF Init, BearersCovered, IdleRequest, Opened

\* A step of a request moves only that request.
LEMMA OthersStay ==
    ASSUME TypeOK, NEW p \in Requests, NEW q \in Requests, q # p,
           Step(q) \/ Start(q) \/ Abort(q)
    PROVE  req'[p] = req[p]
  <1>1. \E r : Become(q, r)
    BY ZenonT(40) DEF Step, Start, Abort, IssueLock, IssueCount, IssueEvict, DeleteOldest,
       IssueInsert, RefreshUser, Rotate, Revoke, Sign, IssueStart, RefreshFind,
       LogoutFind, RevokeOwnFind, ServiceTokenStart, Finish
  <1> QED
    BY SMTT(40), <1>1 DEF Become, TypeOK

Signing == {"lock", "count", "evict", "rotate", "sign"}

\* What a step leaves in the request it moves: the version it had, or the
\* current version of an account that is not banned.
LEMMA RequestVersions ==
    ASSUME IInv, NEW p \in Requests, Step(p) \/ Start(p) \/ Abort(p),
           req'[p].pc \in Signing
    PROVE  \/ /\ req[p].pc \in Signing
              /\ req'[p].user = req[p].user /\ req'[p].ver = req[p].ver
           \/ /\ req'[p].user \in Users /\ ~banned[req'[p].user]
              /\ req'[p].ver = tokenVersion[req'[p].user]
  <1> DEFINE Same == /\ req[p].pc \in Signing
                     /\ req'[p].user = req[p].user /\ req'[p].ver = req[p].ver
             Fresh == /\ req'[p].user \in Users /\ ~banned[req'[p].user]
                      /\ req'[p].ver = tokenVersion[req'[p].user]
  <1>0. req[p] \in Request /\ RequestOK(req[p])
    BY DEF IInv, TypeOK, RequestsConsistent
  <1>1. ASSUME NEW r, Become(p, r) PROVE req'[p] = r
    BY Zenon, <1>1 DEF Become, IInv, TypeOK
  <1>2. ~Finish(p)
    BY <1>1 DEF Finish, IdleRequest, Opened, Signing
  <1>3. CASE IssueLock(p)
    <2>1. Same
      BY ZenonT(40), <1>0, <1>1, <1>2, <1>3 DEF IssueLock, Request, Signing
    <2> QED
      BY <2>1
  <1>4. CASE IssueCount(p) \/ IssueEvict(p)
    <2>1. Same
      BY ZenonT(40), <1>0, <1>1, <1>2, <1>4
      DEF IssueCount, IssueEvict, DeleteOldest, Request, Signing
    <2> QED
      BY <2>1
  <1>5. CASE IssueInsert(p) \/ Rotate(p)
    <2>1. /\ req'[p] = Answering(req[p])
          /\ req[p].pc \in Signing /\ req[p].user \in Users
      BY ZenonT(40), <1>0, <1>1, <1>2, <1>5 DEF IssueInsert, Rotate, RequestOK, Signing, Users
    <2>2. Same
      BY <1>0, <2>1, AnsweringFields
    <2> QED
      BY <2>2
  <1>6. CASE RefreshUser(p)
    <2>1. /\ ~banned[req[p].user] /\ req[p].user \in Users
          /\ req'[p] = [req[p] EXCEPT !.pc = "rotate", !.ver = tokenVersion[req[p].user]]
      BY <1>0, <1>1, <1>2, <1>6 DEF RefreshUser, RequestOK, Users
    <2>2. req'[p].user = req[p].user /\ req'[p].ver = tokenVersion[req[p].user]
      BY Zenon, <1>0, <2>1 DEF Request
    <2> QED
      BY <2>1, <2>2
  <1>7. CASE Revoke(p) \/ Sign(p) \/ Abort(p)
    BY Zenon, <1>2, <1>7 DEF Revoke, Sign, Abort
  <1>8. CASE Start(p)
    <2>1. ASSUME NEW u \in Humans, NEW d \in Devices, IssueStart(p, u, d) PROVE Fresh
      <3>1. req'[p] = Opened("lock", u, d, tokenVersion[u], 0, nextToken, 0) /\ ~banned[u]
        BY Zenon, <1>1, <2>1 DEF IssueStart
      <3>2. req'[p].user = u /\ req'[p].ver = tokenVersion[u]
        BY <3>1 DEF Opened
      <3> QED
        BY Zenon, <3>1, <3>2 DEF Users
    <2>2. ASSUME NEW u \in Services, ServiceTokenStart(p, u) PROVE Fresh
      <3>1. req'[p] = Opened("sign", u, None, tokenVersion[u], 0, 0, 0) /\ ~banned[u]
        BY Zenon, <1>1, <2>2 DEF ServiceTokenStart
      <3>2. req'[p].user = u /\ req'[p].ver = tokenVersion[u]
        BY <3>1 DEF Opened
      <3> QED
        BY Zenon, <3>1, <3>2 DEF Users
    <2>3. ASSUME NEW u \in Humans, NEW d \in Devices, RevokeOwnFind(p, u, d) PROVE FALSE
      <3>1. PICK s : Become(p, Opened("revoke", u, None, 0, 0, 0, s))
        BY <2>3 DEF RevokeOwnFind
      <3>2. req'[p] = Opened("revoke", u, None, 0, 0, 0, s)
        BY Zenon, <1>1, <3>1
      <3>3. Opened("revoke", u, None, 0, 0, 0, s).pc = "revoke"
        BY Zenon DEF Opened
      <3>4. req'[p].pc = "revoke"
        BY Zenon, <3>2, <3>3
      <3> QED
        BY Zenon, <3>4 DEF Signing
    <2>4. ASSUME NEW t \in delivered, RefreshFind(p, t) PROVE FALSE
      <3>1. PICK u, s : Become(p, Opened("user", u, None, 0, t, nextToken, s))
        BY <2>4 DEF RefreshFind
      <3>2. req'[p] = Opened("user", u, None, 0, t, nextToken, s)
        BY Zenon, <1>1, <3>1
      <3>3. Opened("user", u, None, 0, t, nextToken, s).pc = "user"
        BY Zenon DEF Opened
      <3>4. req'[p].pc = "user"
        BY Zenon, <3>2, <3>3
      <3> QED
        BY Zenon, <3>4 DEF Signing
    <2>5. ASSUME NEW t \in delivered, LogoutFind(p, t) PROVE FALSE
      <3>1. PICK u, s : Become(p, Opened("revoke", u, None, 0, 0, 0, s))
        BY <2>5 DEF LogoutFind
      <3>2. req'[p] = Opened("revoke", u, None, 0, 0, 0, s)
        BY Zenon, <1>1, <3>1
      <3>3. Opened("revoke", u, None, 0, 0, 0, s).pc = "revoke"
        BY Zenon DEF Opened
      <3>4. req'[p].pc = "revoke"
        BY Zenon, <3>2, <3>3
      <3> QED
        BY Zenon, <3>4 DEF Signing
    <2> QED
      BY Zenon, <1>8, <2>1, <2>2, <2>3, <2>4, <2>5 DEF Start
  <1> QED
    BY ZenonT(40), <1>3, <1>4, <1>5, <1>6, <1>7, <1>8 DEF Step

\* Every step keeps the access tokens that are out covered.
LEMMA NextBearers == IInv /\ BearersCovered /\ [Next]_vars => BearersCovered'
  <1> SUFFICES ASSUME IInv, BearersCovered, [Next]_vars PROVE BearersCovered'
    OBVIOUS
  <1>0. \A p \in Requests : req[p].ver \in Version
    BY DEF IInv, TypeOK, Request
  <1>1. ASSUME NEW b \in access' PROVE Behind(b.user, b.ver)'
    <2>1. CASE b \in access
      <3>1. b.user \in Users /\ b.ver \in Version /\ Behind(b.user, b.ver)
        BY <2>1 DEF IInv, TypeOK, Bearer, BearersCovered
      <3> QED
        BY Zenon, <3>1, BehindStable
    <2>2. CASE b \notin access
      <3>1. PICK p \in Requests : Sign(p) /\ b = [user |-> req[p].user, ver |-> req[p].ver]
        BY ZenonT(40), <2>2 DEF Next, vars, Step, Start, IssueLock, IssueCount, IssueEvict,
           IssueInsert, RefreshUser, Rotate, Revoke, Sign, IssueStart, RefreshFind,
           LogoutFind, RevokeOwnFind, ServiceTokenStart, Abort, Expire, store, Ban, Unban
      <3>2. /\ b.user = req[p].user /\ b.ver = req[p].ver
            /\ req[p].user \in Users /\ Behind(req[p].user, req[p].ver)
        BY Zenon, <3>1 DEF Sign, BearersCovered, IInv, RequestsConsistent, RequestOK
      <3> QED
        BY Zenon, <1>0, <3>2, BehindStable
    <2> QED
      BY <2>1, <2>2
  <1>2. ASSUME NEW p \in Requests, req'[p].pc \in Signing
        PROVE  Behind(req[p].user, req[p].ver)'
    <2>1. \/ /\ req[p].pc \in Signing
             /\ req'[p].user = req[p].user /\ req'[p].ver = req[p].ver
          \/ /\ req'[p].user \in Users /\ ~banned[req'[p].user]
             /\ req'[p].ver = tokenVersion[req'[p].user]
      <3>1. CASE req'[p] = req[p]
        BY Zenon, <1>2, <3>1
      <3>2. CASE req'[p] # req[p]
        <4>1. Step(p) \/ Start(p) \/ Abort(p)
          BY Zenon, <3>2, OthersStay DEF IInv, Next, vars, Ban, Unban, Expire
        <4> QED
          BY <1>2, <4>1, RequestVersions
      <3> QED
        BY <3>1, <3>2
    <2>2. CASE /\ req[p].pc \in Signing
               /\ req'[p].user = req[p].user /\ req'[p].ver = req[p].ver
      <3>1. req[p].user \in Users /\ Behind(req[p].user, req[p].ver)
        BY Zenon, <2>2 DEF Signing, BearersCovered, IInv, RequestsConsistent, RequestOK, Users
      <3> QED
        BY Zenon, <1>0, <2>2, <3>1, BehindStable DEF Behind
    <2>3. CASE /\ req'[p].user \in Users /\ ~banned[req'[p].user]
               /\ req'[p].ver = tokenVersion[req'[p].user]
      <3>1. Behind(req'[p].user, req'[p].ver) /\ req'[p].ver \in Version
        <4>1. PICK u \in Users : u = req'[p].user
          BY <2>3
        <4>2. tokenVersion[u] \in Version /\ tokenVersion[u] \in Nat
          BY <4>1 DEF IInv, TypeOK, Version
        <4>3. req'[p].ver = tokenVersion[u] /\ ~banned[u]
          BY <2>3, <4>1
        <4>4. tokenVersion[u] <= tokenVersion[u]
          BY <4>2
        <4>5. Behind(u, tokenVersion[u])
          BY <4>3, <4>4, Zenon DEF Behind
        <4> QED
          BY Zenon, <4>1, <4>2, <4>3, <4>5
      <3> QED
        BY Zenon, <2>3, <3>1, BehindStable DEF Behind
    <2> QED
      BY Zenon, <2>1, <2>2, <2>3
  <1> QED
    BY <1>1, <1>2 DEF BearersCovered, Signing

\* A ban covers the bearer tokens that exist and those still being signed.
THEOREM BansCoverBearers == Spec => []BearersCovered
  <1>1. IInv /\ BearersCovered /\ [Next]_vars => (IInv /\ BearersCovered)'
    BY NextIInv, NextBearers
  <1> QED
    BY InitIInv, InitBearers, <1>1, PTL DEF Spec

\* tokenSubject never accepts a bearer token again that it refused before: an
\* unban restores the login, not the tokens.
THEOREM RefusedForEver == Spec => RefusedBearersStayRefused
  <1> DEFINE Kept == \A b \in access : ~Accepted(b) => ~Accepted(b)'
  <1>1. IInv /\ BearersCovered /\ [Next]_vars => [Kept]_vars
    <2> SUFFICES ASSUME IInv, BearersCovered, [Next]_vars,
                        NEW b \in access, ~Accepted(b)
                 PROVE  ~Accepted(b)'
      OBVIOUS
    <2>1. b.user \in Users /\ b.ver \in Version /\ Behind(b.user, b.ver)
      BY Zenon DEF IInv, TypeOK, Bearer, BearersCovered
    <2>2. /\ b.ver \in Nat /\ tokenVersion[b.user] \in Nat /\ tokenVersion'[b.user] \in Nat
          /\ tokenVersion[b.user] <= tokenVersion'[b.user]
      BY <2>1, VersionsGrow DEF IInv, TypeOK, Version
    <2>3. b.ver < tokenVersion[b.user]
      BY <2>1, <2>2 DEF Accepted, Behind
    <2>4. b.ver < tokenVersion'[b.user]
      BY <2>2, <2>3
    <2> QED
      BY <2>2, <2>4 DEF Accepted
  <1>2. IInv /\ BearersCovered /\ [Next]_vars => (IInv /\ BearersCovered)'
    BY NextIInv, NextBearers
  <1> QED
    BY InitIInv, InitBearers, <1>1, <1>2, PTL DEF Spec, RefusedBearersStayRefused

-----------------------------------------------------------------------------
(* The session limit, for every number of devices, requests and sessions.  *)

LInv == SessionLimit /\ LoginsKeepTheLimit

\* Sets of devices are finite.
LEMMA DeviceSets ==
    ASSUME NEW A \in SUBSET Devices, NEW B \in SUBSET A
    PROVE  /\ IsFiniteSet(A) /\ IsFiniteSet(B)
           /\ Cardinality(A) \in Nat /\ Cardinality(B) \in Nat
           /\ Cardinality(B) <= Cardinality(A)
  <1>1. IsFiniteSet(A)
    BY DevicesAssumption, FS_Subset
  <1>2. IsFiniteSet(B) /\ Cardinality(B) <= Cardinality(A)
    BY <1>1, FS_Subset
  <1> QED
    BY <1>1, <1>2, FS_CardinalityType

\* One more device makes a set larger by at most one.
LEMMA OneMore ==
    ASSUME NEW S, NEW x, IsFiniteSet(S), Cardinality(S) \in Nat
    PROVE  Cardinality(S \cup {x}) <= Cardinality(S) + 1
  <1>1. Cardinality(S \cup {x}) = IF x \in S THEN Cardinality(S) ELSE Cardinality(S) + 1
    BY FS_AddElement
  <1> QED
    BY <1>1

\* One device less makes a set smaller by one.
LEMMA OneLess ==
    ASSUME NEW S, NEW x \in S, IsFiniteSet(S)
    PROVE  Cardinality(S \ {x}) = Cardinality(S) - 1
  BY Zenon, FS_RemoveElement

\* Only sessions on devices are evicted.
LEMMA EvictableDevices ==
    ASSUME TypeOK, NEW p \in Requests PROVE Evictable(p) \subseteq Devices
  BY DEF TypeOK, Request, Evictable

\* Only sessions on devices are active.
LEMMA ActiveAreDevices ==
    ASSUME NEW u PROVE ActiveDevices(u) \subseteq Devices
  BY Zenon DEF ActiveDevices

\* There is no session at first.
LEMMA InitLimit == Init => LInv
  <1> SUFFICES ASSUME Init PROVE LInv
    OBVIOUS
  <1>1. \A u \in Humans : ActiveDevices(u) = {}
    BY DEF Init, ActiveDevices, Live, NoRow
  <1>2. SessionLimit
    BY <1>1, FS_EmptySet, MaxSessionsAssumption DEF SessionLimit
  <1>3. \A p \in Requests : ~HoldsLock(p)
    BY Zenon DEF Init, HoldsLock, IdleRequest, Opened
  <1> QED
    BY Zenon, <1>2, <1>3 DEF LInv, LoginsKeepTheLimit

\* A step that adds no session and leaves the logins past the lock alone.
LEMMA ShrinkingStep ==
    ASSUME LInv, TypeOK, TypeOK',
           \A u \in Humans : ActiveDevices(u)' \subseteq ActiveDevices(u),
           \A p \in Requests : HoldsLock(p)' =>
               /\ HoldsLock(p) /\ req'[p] = req[p]
               /\ Evictable(p)' \subseteq Evictable(p)
               /\ ActiveDevices(req[p].user)' \ ({req[p].dev} \cup req[p].evicted)
                      \subseteq Evictable(p)'
    PROVE  LInv'
  <1>1. SessionLimit'
    <2> SUFFICES ASSUME NEW u \in Humans
                 PROVE  Cardinality(ActiveDevices(u)') <= MaxSessions
      BY Zenon DEF SessionLimit
    <2>1. /\ Cardinality(ActiveDevices(u)') <= Cardinality(ActiveDevices(u))
          /\ Cardinality(ActiveDevices(u)') \in Nat /\ Cardinality(ActiveDevices(u)) \in Nat
      BY Zenon, DeviceSets, ActiveAreDevices
    <2>2. Cardinality(ActiveDevices(u)) <= MaxSessions
      BY Zenon DEF LInv, SessionLimit
    <2> QED
      BY Zenon, <2>1, <2>2, MaxSessionsAssumption, Order
  <1>2. ASSUME NEW p \in Requests, HoldsLock(p)'
        PROVE  /\ Cardinality(Evictable(p)') \in Nat /\ Cardinality(Evictable(p)) \in Nat
               /\ Cardinality(Evictable(p)') <= Cardinality(Evictable(p))
    BY Zenon, <1>2, DeviceSets, EvictableDevices
  <1>3. LoginsKeepTheLimit'
    <2>1. ASSUME NEW p \in Requests, NEW q \in Requests, HoldsLock(p)', HoldsLock(q)',
                 req'[p].user = req'[q].user
          PROVE  p = q
      BY Zenon, <2>1 DEF LInv, LoginsKeepTheLimit
    <2>2. ASSUME NEW p \in Requests, HoldsLock(p)'
          PROVE  /\ ActiveDevices(req[p].user)' \ ({req[p].dev} \cup req[p].evicted)
                        \subseteq Evictable(p)'
                 /\ req[p].pc = "count" /\ req[p].exists
                        => Cardinality(Evictable(p)') < MaxSessions
                 /\ req[p].pc = "evict" => \/ Cardinality(Evictable(p)') < req[p].projected
                                           \/ Cardinality(Evictable(p)') < MaxSessions
      <3>1. req[p].projected \in Nat
        BY Zenon DEF TypeOK, Request
      <3>2. /\ req[p].pc = "count" /\ req[p].exists
                   => Cardinality(Evictable(p)) < MaxSessions
            /\ req[p].pc = "evict" => \/ Cardinality(Evictable(p)) < req[p].projected
                                      \/ Cardinality(Evictable(p)) < MaxSessions
        BY Zenon, <2>2 DEF LInv, LoginsKeepTheLimit
      <3> QED
        BY <1>2, <2>2, <3>1, <3>2, MaxSessionsAssumption
    <2>3. \A p \in Requests : HoldsLock(p)' => req'[p] = req[p]
      BY Zenon
    <2> QED
      BY Zenon, <2>1, <2>2, <2>3 DEF LoginsKeepTheLimit
  <1> QED
    BY Zenon, <1>1, <1>3 DEF LInv

\* A step that changes no session and opens no transaction.
LEMMA QuietStep ==
    ASSUME LInv, TypeOK, TypeOK', UNCHANGED rows,
           \A p \in Requests : HoldsLock(p)' => HoldsLock(p) /\ req'[p] = req[p]
    PROVE  LInv'
  <1>1. \A u \in Humans : ActiveDevices(u)' = ActiveDevices(u)
    BY Zenon DEF ActiveDevices
  <1>2. ASSUME NEW p \in Requests, HoldsLock(p)'
        PROVE  /\ HoldsLock(p) /\ req'[p] = req[p]
               /\ Evictable(p)' \subseteq Evictable(p)
               /\ ActiveDevices(req[p].user)' \ ({req[p].dev} \cup req[p].evicted)
                      \subseteq Evictable(p)'
    <2>1. Evictable(p)' = Evictable(p)
      BY Zenon, <1>2 DEF Evictable
    <2>2. ActiveDevices(req[p].user) \ ({req[p].dev} \cup req[p].evicted)
              \subseteq Evictable(p)
      BY <1>2 DEF LInv, LoginsKeepTheLimit
    <2>3. {d \in Devices : Live(rows'[req[p].user][d])}
              = {d \in Devices : Live(rows[req[p].user][d])}
      BY Zenon
    <2> QED
      BY Zenon, <1>2, <2>1, <2>2, <2>3 DEF ActiveDevices
  <1> QED
    BY Zenon, <1>1, <1>2, ShrinkingStep

\* One request moves to a state in which it does not hold the lock.
LEMMA QuietRequest ==
    ASSUME LInv, TypeOK, TypeOK', UNCHANGED rows, NEW q \in Requests, NEW r,
           Become(q, r), r.pc \notin {"count", "evict"}
    PROVE  LInv'
  <1>1. ASSUME NEW p \in Requests, HoldsLock(p)' PROVE HoldsLock(p) /\ req'[p] = req[p]
    <2>1. p # q
      BY Zenon, <1>1 DEF HoldsLock, Become, TypeOK
    <2> QED
      BY Zenon, <1>1, <2>1 DEF HoldsLock, Become, TypeOK
  <1> QED
    BY Zenon, <1>1, QuietStep

\* Sessions of an account change while no login is past its lock.
LEMMA UnlockedStep ==
    ASSUME LInv, TypeOK, TypeOK', NEW u, LockFree(u),
           \A v \in Humans : v # u => rows'[v] = rows[v],
           u \in Humans => ActiveDevices(u)' \subseteq ActiveDevices(u),
           RequestsConsistent,
           \A p \in Requests : HoldsLock(p)' => HoldsLock(p) /\ req'[p] = req[p]
    PROVE  LInv'
  <1>1. \A v \in Humans : ActiveDevices(v)' \subseteq ActiveDevices(v)
    <2> SUFFICES ASSUME NEW v \in Humans, v # u
                 PROVE  ActiveDevices(v)' \subseteq ActiveDevices(v)
      BY Zenon
    <2> QED
      BY Zenon DEF ActiveDevices
  <1>2. ASSUME NEW p \in Requests, HoldsLock(p)'
        PROVE  /\ HoldsLock(p) /\ req'[p] = req[p]
               /\ Evictable(p)' \subseteq Evictable(p)
               /\ ActiveDevices(req[p].user)' \ ({req[p].dev} \cup req[p].evicted)
                      \subseteq Evictable(p)'
    <2>1. HoldsLock(p) /\ req'[p] = req[p] /\ req[p].user # u /\ req[p].user \in Humans
      BY Zenon, <1>2 DEF LockFree, RequestsConsistent, RequestOK, HoldsLock
    <2>2. rows'[req[p].user] = rows[req[p].user]
      BY Zenon, <2>1
    <2>3. Evictable(p)' = Evictable(p)
      BY Zenon, <2>1, <2>2 DEF Evictable
    <2>4. ActiveDevices(req[p].user) \ ({req[p].dev} \cup req[p].evicted)
              \subseteq Evictable(p)
      BY Zenon, <2>1 DEF LInv, LoginsKeepTheLimit
    <2>5. {d \in Devices : Live(rows'[req[p].user][d])}
              = {d \in Devices : Live(rows[req[p].user][d])}
      BY <2>2
    <2> QED
      BY Zenon, <2>1, <2>3, <2>4, <2>5 DEF ActiveDevices
  <1> QED
    BY Zenon, <1>1, <1>2, ShrinkingStep

\* A refresh exchanges the token of a session and adds none.
LEMMA RotateLimit ==
    ASSUME IInv, LInv, IInv', NEW q \in Requests, Rotate(q) PROVE LInv'
  <1> USE DEF IInv
  <1>0. PICK r : r = req[q]
    BY Zenon
  <1>1. r \in Request /\ RequestOK(r) /\ r.pc = "rotate" /\ r.user \in Humans
    BY Zenon, <1>0 DEF TypeOK, RequestsConsistent, Rotate, RequestOK
  <1>2. CASE ~StillCurrent(r) \/ RotateHit(r) = {}
    <2>1. UNCHANGED rows /\ Become(q, IdleRequest)
      BY <1>0, <1>2 DEF Rotate, Finish
    <2> QED
      BY Zenon, <2>1, QuietRequest DEF IdleRequest, Opened
  <1>3. CASE StillCurrent(r) /\ RotateHit(r) # {}
    <2>1. /\ Become(q, Answering(r))
          /\ rows' = [rows EXCEPT ![r.user] =
                 [d \in Devices |->
                     IF d \in RotateHit(r) THEN Rotated(rows[r.user][d], r)
                     ELSE rows[r.user][d]]]
      BY Zenon, <1>0, <1>3 DEF Rotate
    <2>2. LockFree(r.user)
      BY Zenon, <1>0 DEF Rotate
    <2>3. \A v \in Humans : v # r.user => rows'[v] = rows[v]
      BY <2>1 DEF TypeOK
    <2>4. ASSUME NEW d \in Devices, Live(rows'[r.user][d]) PROVE Live(rows[r.user][d])
      <3>1. rows[r.user][d] \in Row
        BY Zenon, <1>1 DEF TypeOK
      <3>2. \/ rows'[r.user][d] = rows[r.user][d]
            \/ rows'[r.user][d] = Rotated(rows[r.user][d], r)
        BY Zenon, <1>1, <2>1 DEF TypeOK
      <3> QED
        BY Zenon, <2>4, <3>1, <3>2 DEF Live, Rotated, Row
    <2>5. ActiveDevices(r.user)' \subseteq ActiveDevices(r.user)
      BY Zenon, <1>0, <2>4, <2>1 DEF ActiveDevices
    <2>6. \A p \in Requests : HoldsLock(p)' => HoldsLock(p) /\ req'[p] = req[p]
      BY Zenon, <1>1, <2>1, AnsweringFields DEF HoldsLock, Become, TypeOK, Users
    <2> QED
      BY ZenonT(40), <2>2, <2>3, <2>5, <2>6, UnlockedStep
  <1> QED
    BY <1>2, <1>3

\* A ban only ends sessions.
LEMMA BanLimit ==
    ASSUME IInv, LInv, IInv', NEW u \in Users, Ban(u) PROVE LInv'
  <1> USE DEF IInv
  <1>1. \A v \in Humans : v # u => rows'[v] = rows[v]
    BY DEF Ban
  <1>2. u \in Humans => ActiveDevices(u)' \subseteq ActiveDevices(u)
    <2> SUFFICES ASSUME u \in Humans, NEW d \in Devices, Live(rows'[u][d])
                 PROVE  Live(rows[u][d])
      BY Zenon DEF ActiveDevices
    <2>1. rows'[u][d] = BanRow(rows[u][d]) /\ rows[u][d] \in Row
      BY ZenonT(40) DEF Ban, TypeOK
    <2> QED
      BY Zenon, <2>1 DEF BanRow, Live, Row
  <1>3. \A p \in Requests : HoldsLock(p)' => HoldsLock(p) /\ req'[p] = req[p]
    BY Zenon DEF Ban, HoldsLock
  <1>4. LockFree(u)
    BY Zenon DEF Ban
  <1> QED
    BY ZenonT(40), <1>1, <1>2, <1>3, <1>4, UnlockedStep

\* Rows are revoked or expire, whoever holds the lock.
LEMMA WeakeningStep ==
    ASSUME IInv, LInv, TypeOK',
           \A u \in Humans, d \in Devices :
               /\ Live(rows'[u][d]) => Live(rows[u][d])
               /\ rows[u][d].revoked => rows'[u][d].revoked,
           \A p \in Requests : HoldsLock(p)' => HoldsLock(p) /\ req'[p] = req[p]
    PROVE  LInv'
  <1>1. \A u \in Humans : ActiveDevices(u)' \subseteq ActiveDevices(u)
    BY ZenonT(40) DEF ActiveDevices
  <1>2. ASSUME NEW p \in Requests, HoldsLock(p)'
        PROVE  /\ HoldsLock(p) /\ req'[p] = req[p]
               /\ Evictable(p)' \subseteq Evictable(p)
               /\ ActiveDevices(req[p].user)' \ ({req[p].dev} \cup req[p].evicted)
                      \subseteq Evictable(p)'
    <2>0. PICK r : r = req[p]
      BY Zenon
    <2>1. /\ HoldsLock(p) /\ req'[p] = r /\ r \in Request
          /\ r.user \in Humans
      BY ZenonT(40), <1>2, <2>0 DEF IInv, TypeOK, RequestsConsistent, RequestOK, HoldsLock
    <2>2. /\ Evictable(p) = {d \in r.unexpired \ ({r.dev} \cup r.evicted) :
                                 ~rows[r.user][d].revoked}
          /\ Evictable(p)' = {d \in r.unexpired \ ({r.dev} \cup r.evicted) :
                                 ~rows'[r.user][d].revoked}
      BY Zenon, <2>0, <2>1 DEF Evictable
    <2>3. r.unexpired \subseteq Devices
      BY Zenon, <2>1 DEF Request
    <2>4. Evictable(p)' \subseteq Evictable(p)
      BY Zenon, <2>1, <2>2, <2>3
    <2>5. ASSUME NEW d \in Devices, Live(rows'[r.user][d]), d \notin {r.dev} \cup r.evicted
          PROVE  d \in Evictable(p)'
      <3>1. d \in ActiveDevices(r.user) \ ({r.dev} \cup r.evicted)
        BY Zenon, <2>1, <2>5 DEF ActiveDevices
      <3>2. d \in Evictable(p)
        BY Zenon, <2>0, <2>1, <3>1 DEF LInv, LoginsKeepTheLimit
      <3>3. ~rows'[r.user][d].revoked
        BY Zenon, <2>5 DEF Live
      <3> QED
        BY Zenon, <2>2, <3>2, <3>3
    <2>6. {d \in Devices : Live(rows'[r.user][d])} \ ({r.dev} \cup r.evicted)
              \subseteq Evictable(p)'
      BY ZenonT(40), <2>5
    <2> QED
      BY <1>2, <2>0, <2>1, <2>4, <2>6 DEF ActiveDevices
  <1> QED
    BY Zenon, <1>1, <1>2, ShrinkingStep DEF IInv

\* A revocation only ends a session.
LEMMA RevokeLimit ==
    ASSUME IInv, LInv, IInv', NEW q \in Requests, Revoke(q) PROVE LInv'
  <1>0. PICK r : r = req[q]
    BY Zenon
  <1>1. r.pc = "revoke" /\ r.user \in Humans
    BY ZenonT(40), <1>0 DEF IInv, RequestsConsistent, Revoke, RequestOK
  <1>2. /\ rows' = [rows EXCEPT ![r.user] =
                [d \in Devices |->
                    IF rows[r.user][d].id = r.sid
                    THEN [rows[r.user][d] EXCEPT !.revoked = TRUE]
                    ELSE rows[r.user][d]]]
        /\ Become(q, IdleRequest)
    BY <1>0 DEF Revoke, Finish
  <1>3. ASSUME NEW u \in Humans, NEW d \in Devices
        PROVE  /\ Live(rows'[u][d]) => Live(rows[u][d])
               /\ rows[u][d].revoked => rows'[u][d].revoked
    <2>1. rows[u][d] \in Row
      BY DEF IInv, TypeOK
    <2>2. \/ rows'[u][d] = rows[u][d]
          \/ rows'[u][d] = [rows[u][d] EXCEPT !.revoked = TRUE]
      BY Zenon, <1>1, <1>2 DEF IInv, TypeOK
    <2> QED
      BY Zenon, <2>1, <2>2 DEF Live, Row
  <1>4. \A p \in Requests : HoldsLock(p)' => HoldsLock(p) /\ req'[p] = req[p]
    BY Zenon, <1>2 DEF HoldsLock, Become, IInv, TypeOK, IdleRequest, Opened
  <1> QED
    BY <1>3, <1>4, WeakeningStep DEF IInv

\* Expiry only ends a session.
LEMMA ExpireLimit ==
    ASSUME IInv, LInv, IInv', NEW v \in Humans, NEW e \in Devices, Expire(v, e)
    PROVE  LInv'
  <1>1. rows' = [rows EXCEPT ![v][e].expired = TRUE] /\ UNCHANGED req
    BY DEF Expire
  <1>2. ASSUME NEW u \in Humans, NEW d \in Devices
        PROVE  /\ Live(rows'[u][d]) => Live(rows[u][d])
               /\ rows[u][d].revoked => rows'[u][d].revoked
    <2>1. rows[u][d] \in Row
      BY DEF IInv, TypeOK
    <2>2. \/ rows'[u][d] = rows[u][d]
          \/ rows'[u][d] = [rows[u][d] EXCEPT !.expired = TRUE]
      BY Zenon, <1>1 DEF IInv, TypeOK
    <2> QED
      BY Zenon, <2>1, <2>2 DEF Live, Row
  <1>3. \A p \in Requests : HoldsLock(p)' => HoldsLock(p) /\ req'[p] = req[p]
    BY Zenon, <1>1 DEF HoldsLock
  <1> QED
    BY <1>2, <1>3, WeakeningStep DEF IInv

\* What a login past the lock may still evict.
Rest(r) ==
    {d \in r.unexpired \ ({r.dev} \cup r.evicted) : ~rows[r.user][d].revoked}

\* A login takes the lock or goes on holding it, without touching a row.
LEMMA LoginStep ==
    ASSUME IInv, LInv, UNCHANGED rows, NEW q \in Requests, NEW r \in Request,
           Become(q, r), r.user \in Humans,
           LockFree(r.user) \/ (HoldsLock(q) /\ req[q].user = r.user),
           ActiveDevices(r.user) \ ({r.dev} \cup r.evicted) \subseteq Rest(r),
           r.pc = "count" /\ r.exists => Cardinality(Rest(r)) < MaxSessions,
           r.pc = "evict" => \/ Cardinality(Rest(r)) < r.projected
                             \/ Cardinality(Rest(r)) < MaxSessions
    PROVE  LInv'
  <1>1. SessionLimit'
    <2>1. \A u \in Humans : ActiveDevices(u)' = ActiveDevices(u)
      BY Zenon DEF ActiveDevices
    <2> QED
      BY Zenon, <2>1 DEF LInv, SessionLimit
  <1>2. req'[q] = r /\ \A p \in Requests : p # q => req'[p] = req[p]
    BY Zenon DEF Become, IInv, TypeOK
  <1>3. ASSUME NEW p \in Requests, HoldsLock(p)', p # q
        PROVE  HoldsLock(p) /\ req[p].user # r.user
    BY ZenonT(40), <1>2, <1>3 DEF HoldsLock, LockFree, LInv, LoginsKeepTheLimit
  <1>4. \A p1, p2 \in Requests :
            HoldsLock(p1)' /\ HoldsLock(p2)' /\ req'[p1].user = req'[p2].user => p1 = p2
    BY <1>2, <1>3 DEF LInv, LoginsKeepTheLimit
  <1>5. ASSUME NEW p \in Requests, HoldsLock(p)', NEW x, x = req'[p]
        PROVE  /\ ActiveDevices(x.user) \ ({x.dev} \cup x.evicted) \subseteq Rest(x)
               /\ x.pc = "count" /\ x.exists => Cardinality(Rest(x)) < MaxSessions
               /\ x.pc = "evict" => \/ Cardinality(Rest(x)) < x.projected
                                   \/ Cardinality(Rest(x)) < MaxSessions
    <2>1. CASE p = q
      BY Zenon, <1>2, <1>5, <2>1
    <2>2. CASE p # q
      <3>1. HoldsLock(p) /\ x = req[p]
        BY Zenon, <1>2, <1>3, <1>5, <2>2
      <3>2. Rest(x) = Evictable(p)
        BY Zenon, <3>1 DEF Rest, Evictable
      <3> QED
        BY <3>1, <3>2 DEF LInv, LoginsKeepTheLimit
    <2> QED
      BY Zenon, <2>1, <2>2
  <1>6. ASSUME NEW p \in Requests, HoldsLock(p)'
        PROVE  /\ Evictable(p)' = Rest(req'[p])
               /\ ActiveDevices(req[p].user)' = ActiveDevices(req'[p].user)
    BY ZenonT(40) DEF Evictable, Rest, ActiveDevices
  <1>7. LoginsKeepTheLimit'
    BY <1>4, <1>5, <1>6 DEF LoginsKeepTheLimit
  <1> QED
    BY Zenon, <1>1, <1>7 DEF LInv

\* A login that takes the user's lock finds the limit kept.
LEMMA IssueLockLimit ==
    ASSUME IInv, LInv, IInv', NEW q \in Requests, IssueLock(q) PROVE LInv'
  <1>0. PICK r : r = req[q]
    BY Zenon
  <1>1. /\ r \in Request /\ r.user \in Humans /\ r.dev \in Devices
        /\ LockFree(r.user) /\ UNCHANGED rows
    BY Zenon, <1>0 DEF IInv, TypeOK, RequestsConsistent, RequestOK, IssueLock, store
  <1>2. CASE ~StillCurrent(r)
    BY ZenonT(40), <1>0, <1>1, <1>2, QuietRequest DEF IssueLock, Finish, IdleRequest, Opened, IInv
  <1>3. CASE StillCurrent(r)
    <2>1. PICK n : n = [r EXCEPT !.pc = "count",
                      !.unexpired = {d \in Devices : ~rows[r.user][d].expired},
                      !.exists = Live(rows[r.user][r.dev])]
      BY Zenon
    <2>2. Become(q, n)
      BY ZenonT(40), <1>0, <1>3, <2>1 DEF IssueLock
    <2>3. n \in Request
      BY <2>2 DEF Become, IInv, TypeOK
    <2>4. /\ n.user = r.user /\ n.dev = r.dev /\ n.pc = "count"
          /\ n.unexpired = {d \in Devices : ~rows[r.user][d].expired}
          /\ n.exists = Live(rows[r.user][r.dev]) /\ n.evicted = r.evicted
      BY Zenon, <1>1, <2>1 DEF Request
    <2>a. r.evicted = {}
      BY ZenonT(40), <1>0 DEF IssueLock, IInv, RequestsConsistent, RequestOK
    <2>5. Rest(n) = ActiveDevices(r.user) \ {r.dev}
      BY Zenon, <2>4, <2>a DEF Rest, ActiveDevices, Live
    <2>6. n.exists => Cardinality(Rest(n)) < MaxSessions
      <3>1. Cardinality(ActiveDevices(r.user)) <= MaxSessions
        BY <1>1 DEF LInv, SessionLimit
      <3>2. IsFiniteSet(ActiveDevices(r.user)) /\ Cardinality(ActiveDevices(r.user)) \in Nat
        BY ActiveAreDevices, DeviceSets
      <3>3. n.exists => r.dev \in ActiveDevices(r.user)
        BY Zenon, <1>1, <2>4 DEF ActiveDevices
      <3>4. n.exists => Cardinality(ActiveDevices(r.user) \ {r.dev})
                          = Cardinality(ActiveDevices(r.user)) - 1
        BY <3>2, <3>3, OneLess
      <3> QED
        BY <2>5, <3>1, <3>2, <3>4, MaxSessionsAssumption
    <2> QED
      BY ZenonT(40), <1>1, <2>2, <2>3, <2>4, <2>5, <2>6, <2>a, LoginStep
  <1> QED
    BY ZenonT(40), <1>2, <1>3

\* A login that counts the sessions keeps what it read true while it has the
\* lock.
LEMMA IssueCountLimit ==
    ASSUME IInv, LInv, IInv', NEW q \in Requests, IssueCount(q) PROVE LInv'
  <1>0. PICK r : r = req[q]
    OBVIOUS
  <1>1. /\ r \in Request /\ r.user \in Humans /\ r.pc = "count" /\ r.evicted = {}
        /\ HoldsLock(q) /\ UNCHANGED rows
    BY ZenonT(40), <1>0 DEF IInv, TypeOK, RequestsConsistent, RequestOK, IssueCount, store, HoldsLock
  <1>2. PICK n : n = [r EXCEPT !.pc = "evict", !.projected = ProjectedSessions(r)]
    OBVIOUS
  <1>3. Become(q, n)
    BY <1>0, <1>2 DEF IssueCount
  <1>4. n \in Request
    BY <1>3 DEF Become, IInv, TypeOK
  <1>5. /\ n.user = r.user /\ n.dev = r.dev /\ n.pc = "evict" /\ n.evicted = r.evicted
        /\ n.unexpired = r.unexpired /\ n.projected = ProjectedSessions(r)
    BY <1>1, <1>2 DEF Request
  <1>6. Rest(n) = Evictable(q)
    BY Zenon, <1>0, <1>5 DEF Rest, Evictable
  <1>7. CASE r.exists
    <2>1. Cardinality(Rest(n)) < MaxSessions
      BY Zenon, <1>0, <1>1, <1>6, <1>7 DEF LInv, LoginsKeepTheLimit
    <2>2. ActiveDevices(n.user) \ ({n.dev} \cup n.evicted) \subseteq Rest(n)
      BY Zenon, <1>0, <1>1, <1>5, <1>6 DEF LInv, LoginsKeepTheLimit
    <2> QED
      BY ZenonT(40), <1>0, <1>1, <1>3, <1>4, <1>5, <2>1, <2>2, LoginStep
  <1>8. CASE ~r.exists
    <2> DEFINE S == {d \in r.unexpired : ~rows[r.user][d].revoked}
    <2>1. n.projected = Cardinality(S) + 1
      BY Zenon, <1>5, <1>8 DEF ProjectedSessions
    <2>2. S \in SUBSET Devices /\ Rest(n) \in SUBSET S
      BY Zenon, <1>1, <1>5 DEF Request, Rest
    <2>3. Cardinality(Rest(n)) < n.projected
      <3> HIDE DEF S
      <3>1. Cardinality(S) \in Nat /\ Cardinality(Rest(n)) \in Nat /\ Cardinality(Rest(n)) <= Cardinality(S)
        BY Zenon, <2>2, DeviceSets
      <3> QED
        BY Zenon, <2>1, <3>1, Order
    <2>4. ActiveDevices(n.user) \ ({n.dev} \cup n.evicted) \subseteq Rest(n)
      BY Zenon, <1>0, <1>1, <1>5, <1>6 DEF LInv, LoginsKeepTheLimit
    <2> QED
      BY ZenonT(40), <1>0, <1>1, <1>3, <1>4, <1>5, <2>3, <2>4, LoginStep
  <1> QED
    BY Zenon, <1>7, <1>8

\* An eviction makes room for the session to come.
LEMMA IssueEvictLimit ==
    ASSUME IInv, LInv, IInv', NEW q \in Requests, IssueEvict(q) PROVE LInv'
  <1>0. PICK r : r = req[q]
    OBVIOUS
  <1>1. /\ r \in Request /\ r.user \in Humans /\ r.pc = "evict"
        /\ HoldsLock(q) /\ UNCHANGED rows /\ r.projected > MaxSessions
    BY Zenon, <1>0 DEF IInv, TypeOK, RequestsConsistent, RequestOK, IssueEvict, store, HoldsLock
  <1>2. CASE Evictable(q) = {}
    BY Zenon, <1>1, <1>2, QuietRequest DEF IssueEvict, Finish, IdleRequest, Opened, IInv
  <1>3. CASE Evictable(q) # {}
    <2>1. PICK e \in Oldest(r.user, Evictable(q)) :
                  Become(q, [r EXCEPT !.projected = @ - 1, !.evicted = @ \cup {e}])
      BY Zenon, <1>0, <1>3 DEF IssueEvict, DeleteOldest
    <2>2. PICK n : n = [r EXCEPT !.projected = @ - 1, !.evicted = @ \cup {e}]
      OBVIOUS
    <2>3. Become(q, n) /\ n \in Request
      BY Zenon, <2>1, <2>2 DEF Become, IInv, TypeOK
    <2>4. /\ n.user = r.user /\ n.dev = r.dev /\ n.pc = "evict"
          /\ n.evicted = r.evicted \cup {e} /\ n.unexpired = r.unexpired
          /\ n.projected = r.projected - 1
      BY <1>1, <2>2 DEF Request
    <2>5. e \in Evictable(q)
      BY Zenon, <2>1 DEF Oldest
    <2>6. Rest(n) = Evictable(q) \ {e}
      BY Zenon, <1>0, <2>4 DEF Rest, Evictable
    <2>7. /\ IsFiniteSet(Evictable(q)) /\ Cardinality(Evictable(q)) \in Nat
      BY EvictableDevices, DeviceSets DEF IInv
    <2>8. Cardinality(Rest(n)) = Cardinality(Evictable(q)) - 1
      BY Zenon, <2>5, <2>6, <2>7, OneLess
    <2>9. \/ Cardinality(Rest(n)) < n.projected
          \/ Cardinality(Rest(n)) < MaxSessions
      <3>1. \/ Cardinality(Evictable(q)) < r.projected
            \/ Cardinality(Evictable(q)) < MaxSessions
        BY <1>0, <1>1 DEF LInv, LoginsKeepTheLimit
      <3>2. r.projected \in Nat
        BY <1>1 DEF Request
      <3> QED
        BY Zenon, <2>4, <2>7, <2>8, <3>1, <3>2, MaxSessionsAssumption, Order
    <2>10. ActiveDevices(n.user) \ ({n.dev} \cup n.evicted) \subseteq Rest(n)
      <3>1. ActiveDevices(r.user) \ ({r.dev} \cup r.evicted) \subseteq Evictable(q)
        BY <1>0, <1>1 DEF LInv, LoginsKeepTheLimit
      <3> QED
        BY Zenon, <2>4, <2>6, <3>1
    <2> QED
      BY ZenonT(40), <1>0, <1>1, <2>3, <2>4, <2>9, <2>10, LoginStep
  <1> QED
    BY Zenon, <1>2, <1>3

\* The insert: the device's own row and what the loop could not evict.
LEMMA IssueInsertLimit ==
    ASSUME IInv, LInv, IInv', NEW q \in Requests, IssueInsert(q) PROVE LInv'
  <1>0. PICK r : r = req[q]
    OBVIOUS
  <1>1. /\ r \in Request /\ r.user \in Humans /\ r.dev \in Devices /\ r.pc = "evict"
        /\ HoldsLock(q) /\ r.projected <= MaxSessions /\ r.projected \in Nat
        /\ Become(q, Answering(r))
    BY Zenon, <1>0
    DEF IInv, TypeOK, RequestsConsistent, RequestOK, IssueInsert, HoldsLock, Request
  <1>2. rows' = [rows EXCEPT ![r.user] =
           [d \in Devices |->
               IF d = r.dev THEN Upserted(rows[r.user][d], r)
               ELSE IF d \in r.evicted THEN NoRow ELSE rows[r.user][d]]]
    BY Zenon, <1>0 DEF IssueInsert
  <1>3. /\ \A u \in Humans : u # r.user => rows'[u] = rows[u]
        /\ \A d \in Devices : d # r.dev /\ d \notin r.evicted =>
               rows'[r.user][d] = rows[r.user][d]
        /\ \A d \in Devices : d # r.dev /\ d \in r.evicted => rows'[r.user][d] = NoRow
    BY Zenon, <1>1, <1>2 DEF IInv, TypeOK
  <1>4. \A p \in Requests : HoldsLock(p)' =>
            HoldsLock(p) /\ req'[p] = req[p] /\ req[p].user # r.user
    <2> TAKE p \in Requests
    <2> HAVE HoldsLock(p)'
    <2>1. p # q
      BY Zenon, <1>1, AnsweringFields DEF HoldsLock, Become, IInv, TypeOK, Users
    <2>2. req'[p] = req[p] /\ HoldsLock(p)
      BY Zenon, <1>1, <2>1 DEF HoldsLock, Become, IInv, TypeOK
    <2> QED
      BY Zenon, <1>0, <1>1, <2>1, <2>2 DEF LInv, LoginsKeepTheLimit
  <1>5. ActiveDevices(r.user)' \subseteq {r.dev} \cup Evictable(q)
    <2>1. ActiveDevices(r.user)' = {d \in Devices : Live(rows'[r.user][d])}
      BY DEF ActiveDevices, Live
    <2>2. ASSUME NEW d \in Devices, Live(rows'[r.user][d]), d # r.dev
          PROVE  d \in Evictable(q)
      <3>1. d \notin r.evicted
        BY <1>3, <2>2 DEF Live, NoRow
      <3>2. d \in ActiveDevices(r.user)
        BY Zenon, <1>3, <2>2, <3>1 DEF ActiveDevices
      <3>3. ActiveDevices(r.user) \ ({r.dev} \cup r.evicted) \subseteq Evictable(q)
        BY Zenon, <1>0, <1>1 DEF LInv, LoginsKeepTheLimit
      <3> QED
        BY Zenon, <2>2, <3>1, <3>2, <3>3
    <2> QED
      BY Zenon, <2>1, <2>2
  <1>6. Cardinality(ActiveDevices(r.user)') <= MaxSessions
    <2>1. Evictable(q) \in SUBSET Devices
      BY EvictableDevices DEF IInv
    <2>2. IsFiniteSet(Evictable(q)) /\ Cardinality(Evictable(q)) \in Nat
      BY Zenon, <2>1, DeviceSets
    <2>3. Cardinality(Evictable(q)) < MaxSessions
      BY <1>0, <1>1, <2>2, MaxSessionsAssumption DEF LInv, LoginsKeepTheLimit
    <2>4. Cardinality(Evictable(q) \cup {r.dev}) <= Cardinality(Evictable(q)) + 1
      BY ZenonT(40), <2>2, OneMore
    <2>5. {r.dev} \cup Evictable(q) \in SUBSET Devices
      BY Zenon, <1>1, <2>1
    <2>6. /\ Cardinality(ActiveDevices(r.user)') <= Cardinality({r.dev} \cup Evictable(q))
          /\ Cardinality(ActiveDevices(r.user)') \in Nat
          /\ Cardinality({r.dev} \cup Evictable(q)) \in Nat
      BY <1>5, <2>5, DeviceSets
    <2>7. {r.dev} \cup Evictable(q) = Evictable(q) \cup {r.dev}
      OBVIOUS
    <2> QED
      BY <2>2, <2>3, <2>4, <2>6, <2>7, MaxSessionsAssumption
  <1>7. SessionLimit'
    <2>1. \A u \in Humans : u # r.user => ActiveDevices(u)' = ActiveDevices(u)
      BY <1>3 DEF ActiveDevices
    <2>2. \A u \in Humans : Cardinality(ActiveDevices(u)') <= MaxSessions
      BY Zenon, <1>6, <2>1 DEF LInv, SessionLimit
    <2> QED
      BY Zenon, <2>2 DEF SessionLimit
  <1>8. LoginsKeepTheLimit'
    <2>1. \A p \in Requests : HoldsLock(p)' =>
              /\ ActiveDevices(req[p].user)' = ActiveDevices(req[p].user)
              /\ Evictable(p)' = Evictable(p)
      <3> TAKE p \in Requests
      <3> HAVE HoldsLock(p)'
      <3>1. req[p].user \in Humans /\ rows'[req[p].user] = rows[req[p].user]
        BY Zenon, <1>3, <1>4 DEF IInv, RequestsConsistent, RequestOK, HoldsLock
      <3> QED
        BY Zenon, <1>4, <3>1 DEF ActiveDevices, Evictable
    <2> QED
      BY ZenonT(40), <1>4, <2>1 DEF LInv, LoginsKeepTheLimit
  <1> QED
    BY Zenon, <1>7, <1>8 DEF LInv

\* Every step keeps LInv.
LEMMA NextLimit == IInv /\ LInv /\ [Next]_vars => LInv'
  <1> SUFFICES ASSUME IInv, LInv, [Next]_vars PROVE LInv'
    OBVIOUS
  <1>0. IInv' /\ TypeOK /\ TypeOK'
    BY NextIInv DEF IInv
  <1>1. ASSUME NEW p \in Requests, Step(p) PROVE LInv'
    <2>1. CASE RefreshUser(p)
      <3>1. UNCHANGED rows
        BY <2>1 DEF RefreshUser, store
      <3>2. CASE banned[req[p].user]
        BY ZenonT(40), <1>0, <2>1, <3>1, <3>2, QuietRequest DEF RefreshUser, Finish, IdleRequest, Opened
      <3>3. CASE ~banned[req[p].user]
        <4>1. PICK n : n = [req[p] EXCEPT !.pc = "rotate",
                                          !.ver = tokenVersion[req[p].user]]
          OBVIOUS
        <4>2. Become(p, n) /\ n.pc = "rotate"
          BY SMTT(40), <1>0, <2>1, <3>3, <4>1 DEF RefreshUser, TypeOK, Request
        <4> QED
          BY <1>0, <3>1, <4>2, QuietRequest
      <3> QED
        BY <3>2, <3>3
    <2>2. CASE Sign(p)
      BY Zenon, <1>0, <2>2, QuietRequest DEF Sign, Finish, IdleRequest, Opened
    <2> QED
      BY ZenonT(40), <1>0, <1>1, <2>1, <2>2, IssueLockLimit, IssueCountLimit, IssueEvictLimit,
         IssueInsertLimit, RotateLimit, RevokeLimit DEF Step
  <1>2. ASSUME NEW p \in Requests, Start(p) PROVE LInv'
    <2>1. UNCHANGED rows
      BY Zenon, <1>2 DEF Start, IssueStart, RefreshFind, LogoutFind, RevokeOwnFind,
                  ServiceTokenStart, store
    <2>2. PICK pc \in {"lock", "user", "revoke", "sign"} :
              \E u, d, ver, tok, new, sid : Become(p, Opened(pc, u, d, ver, tok, new, sid))
      BY <1>2 DEF Start, IssueStart, RefreshFind, LogoutFind, RevokeOwnFind, ServiceTokenStart
    <2>3. PICK u, d, ver, tok, new, sid : Become(p, Opened(pc, u, d, ver, tok, new, sid))
      BY Zenon, <2>2
    <2> QED
      BY Zenon, <1>0, <2>1, <2>2, <2>3, QuietRequest DEF Opened
  <1>3. ASSUME NEW p \in Requests, Abort(p) PROVE LInv'
    BY <1>0, <1>3, QuietRequest DEF Abort, Finish, IdleRequest, Opened, store
  <1>4. ASSUME NEW u \in Users, Ban(u) PROVE LInv'
    BY Zenon, <1>0, <1>4, BanLimit
  <1>5. ASSUME NEW u \in Users, Unban(u) PROVE LInv'
    BY Zenon, <1>0, <1>5, QuietStep DEF Unban, HoldsLock
  <1>6. ASSUME NEW u \in Humans, NEW d \in Devices, Expire(u, d) PROVE LInv'
    BY Zenon, <1>0, <1>6, ExpireLimit
  <1>7. CASE UNCHANGED vars
    BY Zenon, <1>0, <1>7, QuietStep DEF vars, HoldsLock
  <1> QED
    BY Zenon, <1>1, <1>2, <1>3, <1>4, <1>5, <1>6, <1>7 DEF Next

\* However logins, refreshes, revocations, bans and expiries interleave, no
\* account ever has more live sessions than MaxSessionsPerUser.
THEOREM LimitHolds == Spec => []SessionLimit
  <1>1. Spec => [](IInv /\ LInv)
    BY InitIInv, InitLimit, NextIInv, NextLimit, PTL DEF Spec
  <1>2. IInv /\ LInv => SessionLimit
    BY Zenon DEF LInv
  <1> QED
    BY <1>1, <1>2, PTL

\* The reason: at most one login per account is past the user lock, and what it
\* has left to evict always fits in what its loop still counts.
THEOREM LoginsStayWithinTheLimit == Spec => []LoginsKeepTheLimit
  <1>1. Spec => [](IInv /\ LInv)
    BY InitIInv, InitLimit, NextIInv, NextLimit, PTL DEF Spec
  <1>2. IInv /\ LInv => LoginsKeepTheLimit
    BY DEF LInv
  <1> QED
    BY <1>1, <1>2, PTL

=============================================================================
