------------------------ MODULE SessionsLedgerProofs ------------------------
(* Refresh tokens identify sessions, and Sessions implements RefreshLedger. *)
EXTENDS SessionsProofs

\* Where a request carries a token that is not committed.
Drawing == {"lock", "count", "evict", "user", "rotate"}

\* Sessions carry committed tokens and ids; what is no session carries none.
RowTokens ==
    \A u \in Humans, d \in Devices :
        LET row == rows[u][d] IN
        /\ row.id = 0 => ~Live(row) /\ row.hash = 0
        /\ row.id # 0 => row.id \in issued /\ row.hash \in issued

\* A token that is not committed is private to the request that drew it.
DrawnTokens ==
    /\ \A p \in Requests : req[p].pc \in Drawing => req[p].new \notin issued /\ req[p].new # 0
    /\ \A p, q \in Requests :
         req[p].pc \in Drawing /\ req[q].pc \in Drawing /\ req[p].new = req[q].new => p = q

\* The inductive invariant behind TokensIdentifySessions and the refinement.
TInv == RowTokens /\ DrawnTokens /\ TokensIdentifySessions

\* The tokens are the numbers but 0.
LEMMA TokenNumbers ==
    \A x : x \in 1..MaxTokens <=> x \in 0..MaxTokens /\ x # 0
  BY BoundsAssumption

\* Sets of pairs of the same two sets are equal when they have the same pairs.
LEMMA SamePairs ==
    ASSUME NEW S, NEW T, NEW A, NEW B, A \subseteq S \X T, B \subseteq S \X T,
           \A u \in S, x \in T : <<u, x>> \in A <=> <<u, x>> \in B
    PROVE  A = B
  OBVIOUS

\* No row and no request has a token at first.
LEMMA InitTInv == Init => TInv
  BY DEF Init, TInv, RowTokens, DrawnTokens, TokensIdentifySessions, NoRow, Live, IdleRequest,
         Opened, Drawing

\* A request that draws a token draws one that no other request has.
LEMMA DrawnStep ==
    ASSUME IInv, DrawnTokens, NEW p \in Requests, NEW r, Become(p, r), issued' = issued,
           r.pc \in Drawing => \/ r.new = nextToken
                               \/ req[p].pc \in Drawing /\ r.new = req[p].new
    PROVE  DrawnTokens'
<1>1. /\ \A q \in Requests : q # p => req'[q] = req[q]
      /\ req'[p] = r
  BY DEF IInv, TypeOK, Become
<1>2. nextToken \in Nat /\ nextToken # 0 /\ nextToken \notin issued
  BY BoundsAssumption DEF IInv, TypeOK
<1>3. \A q \in Requests : req[q].new \in Nat /\ req[q].new < nextToken
  BY BoundsAssumption DEF IInv, TypeOK, RequestsConsistent, RequestOK, Request
<1>4. \A q \in Requests : req[q].new # nextToken
  BY <1>2, <1>3
<1> QED BY <1>1, <1>2, <1>4 DEF DrawnTokens

\* A step that changes one request and no session.
LEMMA DrawStep ==
    ASSUME IInv, TInv, NEW p \in Requests, NEW r, Become(p, r), UNCHANGED <<rows, issued>>,
           r.pc \in Drawing => \/ r.new = nextToken
                               \/ req[p].pc \in Drawing /\ r.new = req[p].new
    PROVE  TInv'
<1>1. RowTokens' /\ TokensIdentifySessions'
  BY DEF TInv, RowTokens, TokensIdentifySessions, Live
<1>2. DrawnTokens'
  BY DrawnStep DEF TInv
<1> QED BY <1>1, <1>2 DEF TInv

\* A step that ends sessions and changes no token.
LEMMA EndingStep ==
    ASSUME TInv, DrawnTokens', issued' = issued,
           \A u \in Humans, d \in Devices :
               /\ rows'[u][d].id = rows[u][d].id /\ rows'[u][d].hash = rows[u][d].hash
               /\ Live(rows'[u][d]) => Live(rows[u][d])
    PROVE  TInv'
<1>1. RowTokens'
  BY DEF TInv, RowTokens, Live
<1>2. TokensIdentifySessions'
  BY DEF TInv, TokensIdentifySessions
<1> QED BY <1>1, <1>2 DEF TInv

\* A step that commits the token of request p.
LEMMA CommittedToken ==
    ASSUME IInv, TInv, NEW p \in Requests, req[p].pc \in Drawing, NEW r, Become(p, r),
           r.pc \notin Drawing, issued' = issued \cup {req[p].new}
    PROVE  DrawnTokens'
<1>1. /\ \A q \in Requests : q # p => req'[q] = req[q]
      /\ req'[p] = r
  BY DEF IInv, TypeOK, Become
<1> QED BY <1>1 DEF TInv, DrawnTokens

\* It is in one row, whose id is old or the token itself.
LEMMA CommittedRow ==
    ASSUME IInv, TInv, NEW t, t \notin issued, t # 0, issued' = issued \cup {t},
           NEW u \in Humans, NEW d \in Devices,
           rows'[u][d].hash = t, rows'[u][d].id \in {rows[u][d].id, t}, rows'[u][d].id # 0,
           \A v \in Humans, e \in Devices :
               ~(v = u /\ e = d) => rows'[v][e] \in {rows[v][e], NoRow}
    PROVE  RowTokens' /\ TokensIdentifySessions'
<1>0. 0 \notin issued
  BY DEF IInv, TypeOK
<1>1. \A v \in Humans, e \in Devices :
          ~(v = u /\ e = d) =>
              /\ rows'[v][e].id # 0 => /\ rows'[v][e] = rows[v][e]
              /\ rows'[v][e].id = 0 => rows'[v][e].hash = 0 /\ ~Live(rows'[v][e])
              /\ rows'[v][e].id # 0 => rows'[v][e].id \in issued /\ rows'[v][e].hash \in issued
  BY DEF NoRow, TInv, RowTokens, Live
<1>2. RowTokens'
  <2> SUFFICES ASSUME NEW v \in Humans, NEW e \in Devices
               PROVE  /\ rows'[v][e].id = 0 => ~Live(rows'[v][e]) /\ rows'[v][e].hash = 0
                      /\ rows'[v][e].id # 0 => rows'[v][e].id \in issued' /\ rows'[v][e].hash \in issued'
    BY DEF RowTokens, Live
  <2>1. CASE v = u /\ e = d
    <3>1. rows[u][d].id # 0 => rows[u][d].id \in issued
      BY DEF TInv, RowTokens
    <3> QED BY <2>1, <3>1
  <2>2. CASE ~(v = u /\ e = d)
    BY <1>1, <2>2
  <2> QED BY ZenonT(40), <2>1, <2>2
<1>3. TokensIdentifySessions'
  <2> SUFFICES ASSUME NEW v \in Humans, NEW w \in Humans, NEW e \in Devices, NEW f \in Devices,
                      rows'[v][e].id # 0,
                      rows'[v][e].id = rows'[w][f].id \/ rows'[v][e].hash = rows'[w][f].hash
               PROVE  v = w /\ e = f
    BY DEF TokensIdentifySessions
  <2>0. rows'[v][e].hash \in issued' /\ rows'[v][e].hash # 0
    BY ZenonT(40), <1>0, <1>2 DEF RowTokens
  <2>00. rows'[w][f].id # 0
    BY Zenon, <1>2, <2>0 DEF RowTokens
  <2>1. CASE v = u /\ e = d /\ ~(w = u /\ f = d)
    <3>1. rows'[w][f] = rows[w][f] /\ rows[w][f].id \in issued /\ rows[w][f].hash \in issued
      BY Zenon, <1>1, <2>00, <2>1
    <3>2. rows[w][f].id = rows[u][d].id /\ rows[u][d].id # 0
      BY Zenon, <2>1, <2>00, <3>1
    <3> QED BY <2>1, <3>2 DEF TInv, TokensIdentifySessions
  <2>2. CASE w = u /\ f = d /\ ~(v = u /\ e = d)
    <3>1. rows'[v][e] = rows[v][e] /\ rows[v][e].id \in issued /\ rows[v][e].hash \in issued
      BY Zenon, <1>1, <2>2
    <3>2. rows[v][e].id = rows[u][d].id /\ rows[v][e].id # 0
      BY <2>2, <3>1
    <3> QED BY <2>2, <3>2 DEF TInv, TokensIdentifySessions
  <2>3. CASE ~(v = u /\ e = d) /\ ~(w = u /\ f = d)
    <3>1. rows'[v][e] = rows[v][e] /\ rows'[w][f] = rows[w][f]
      BY <1>1, <2>00, <2>3
    <3> QED BY <3>1 DEF TInv, TokensIdentifySessions
  <2> QED BY ZenonT(40), <2>1, <2>2, <2>3
<1> QED BY <1>2, <1>3

\* What the commit of a login does to the sessions, for its account u, device
\* d and token t.
InsertEffect(p, u, d, t) ==
    /\ t \notin issued /\ t \in 1..MaxTokens /\ issued' = issued \cup {t}
    /\ ~banned[u] /\ UNCHANGED <<banned, exchanged>>
    /\ Live(rows'[u][d]) /\ rows'[u][d].hash = t
    /\ rows'[u][d].id \in {rows[u][d].id, t} /\ rows'[u][d].id # 0
    /\ \A v \in Humans, e \in Devices :
         ~(v = u /\ e = d) => rows'[v][e] \in {rows[v][e], NoRow}
    /\ \A v \in Humans, e \in Devices : v # u => rows'[v][e] = rows[v][e]

\* IssueInsert has this effect.
LEMMA InsertHasEffect ==
    ASSUME IInv, TInv, NEW p \in Requests, IssueInsert(p)
    PROVE  /\ DrawnTokens'
           /\ \E u \in Humans, d \in Devices : \E t : InsertEffect(p, u, d, t)
<1>0. PICK r : r = req[p]
  OBVIOUS
<1>1. r \in Request /\ RequestOK(r) /\ r.pc = "evict"
  BY <1>0 DEF IInv, TypeOK, RequestsConsistent, IssueInsert
<1>2. /\ r.user \in Humans /\ r.dev \in Devices /\ StillCurrent(r) /\ ~banned[r.user]
      /\ r.new \in 0..MaxTokens
  BY <1>1 DEF RequestOK, StillCurrent, Request
<1>3. r.new \notin issued /\ r.new # 0
  BY <1>0, <1>1 DEF TInv, DrawnTokens, Drawing
<1>3a. r.new \in 1..MaxTokens
  BY <1>2, <1>3
<1>4. /\ Become(p, Answering(r)) /\ issued' = issued \cup {r.new}
      /\ UNCHANGED <<banned, exchanged>>
      /\ rows' = [rows EXCEPT ![r.user] =
              [d \in Devices |->
                  IF d = r.dev THEN Upserted(rows[r.user][d], r)
                  ELSE IF d \in r.evicted THEN NoRow ELSE rows[r.user][d]]]
  BY <1>0 DEF IssueInsert
<1>5. DrawnTokens'
  <2>1. Answering(r).pc \notin Drawing /\ req[p].pc \in Drawing
    BY <1>0, <1>1 DEF Answering, Opened, Drawing
  <2> QED BY <1>0, <1>4, <2>1, CommittedToken
<1>6. rows \in [Humans -> [Devices -> Row]]
  BY DEF IInv, TypeOK
<1>7. rows'[r.user][r.dev] = Upserted(rows[r.user][r.dev], r)
  BY ZenonT(40), <1>2, <1>4, <1>6
<1>8. /\ Live(rows'[r.user][r.dev]) /\ rows'[r.user][r.dev].hash = r.new
      /\ rows'[r.user][r.dev].id \in {rows[r.user][r.dev].id, r.new}
      /\ rows'[r.user][r.dev].id # 0
  BY <1>3, <1>7 DEF Upserted, Live
<1>9. \A v \in Humans, e \in Devices : v # r.user => rows'[v][e] = rows[v][e]
  BY <1>4, <1>6
<1>10. \A v \in Humans, e \in Devices :
          ~(v = r.user /\ e = r.dev) => rows'[v][e] \in {rows[v][e], NoRow}
  BY Zenon, <1>2, <1>4, <1>6
<1>11. InsertEffect(p, r.user, r.dev, r.new)
  BY Zenon, <1>2, <1>3, <1>3a, <1>4, <1>8, <1>9, <1>10 DEF InsertEffect
<1> QED BY <1>2, <1>5, <1>11

\* A rotation replaces the token s of one live session by the fresh token t.
RotateEffect(p, u, d, s, t) ==
    /\ t \notin issued /\ t \in 1..MaxTokens /\ issued' = issued \cup {t}
    /\ s \in 1..MaxTokens /\ exchanged' = exchanged \cup {s}
    /\ ~banned[u] /\ banned' = banned
    /\ Live(rows[u][d]) /\ rows[u][d].hash = s
    /\ Live(rows'[u][d]) /\ rows'[u][d].hash = t
    /\ rows'[u][d].id = rows[u][d].id /\ rows'[u][d].id # 0
    /\ \A v \in Humans, e \in Devices : ~(v = u /\ e = d) => rows'[v][e] = rows[v][e]

\* Rotate has this effect on exactly one session, or none at all.
LEMMA RotateHasEffect ==
    ASSUME IInv, TInv, NEW p \in Requests, Rotate(p)
    PROVE  \/ Finish(p) /\ UNCHANGED <<rows, issued, exchanged, banned>>
           \/ /\ DrawnTokens'
              /\ \E u \in Humans, d \in Devices : \E s, t : RotateEffect(p, u, d, s, t)
<1>0. PICK r : r = req[p]
  OBVIOUS
<1>1. r \in Request /\ RequestOK(r) /\ r.pc = "rotate"
  BY Zenon, <1>0 DEF IInv, TypeOK, RequestsConsistent, Rotate
<1>2. CASE ~StillCurrent(r) \/ RotateHit(r) = {}
  BY <1>0, <1>2 DEF Rotate
<1>3. CASE StillCurrent(r) /\ RotateHit(r) # {}
  <2>1. /\ Become(p, Answering(r)) /\ issued' = issued \cup {r.new}
        /\ exchanged' = exchanged \cup {r.tok} /\ banned' = banned
        /\ rows' = [rows EXCEPT ![r.user] =
               [d \in Devices |->
                   IF d \in RotateHit(r) THEN Rotated(rows[r.user][d], r)
                   ELSE rows[r.user][d]]]
    BY Zenon, <1>0, <1>3 DEF Rotate
  <2>2. /\ r.user \in Humans /\ ~banned[r.user] /\ r.new \in 0..MaxTokens
        /\ r.tok \in 0..MaxTokens /\ r.tok \in issued
    BY Zenon, <1>1, <1>3 DEF RequestOK, StillCurrent, Request, IInv, TypeOK
  <2>3. r.new \notin issued /\ r.new \in 1..MaxTokens /\ r.tok \in 1..MaxTokens
    <3>1. r.new \notin issued /\ r.new # 0
      BY ZenonT(40), <1>0, <1>1 DEF TInv, DrawnTokens, Drawing
    <3>2. r.tok # 0
      BY <2>2 DEF IInv, TypeOK
    <3> QED BY <2>2, <3>1, <3>2
  <2>4. DrawnTokens'
    <3>1. Answering(r).pc \notin Drawing /\ req[p].pc \in Drawing
      BY Zenon, <1>0, <1>1 DEF Answering, Opened, Drawing
    <3> QED BY Zenon, <1>0, <2>1, <3>1, CommittedToken
  <2>5. rows \in [Humans -> [Devices -> Row]]
    BY DEF IInv, TypeOK
  <2>6. PICK d \in Devices : d \in RotateHit(r)
    BY <1>3 DEF RotateHit
  <2>7. Live(rows[r.user][d]) /\ rows[r.user][d].hash = r.tok /\ rows[r.user][d].id = r.sid
    BY <2>6 DEF RotateHit
  <2>8. rows[r.user][d].id # 0
    BY Zenon, <2>2, <2>7 DEF TInv, RowTokens
  <2>9. \A e \in RotateHit(r) : e = d
    BY <2>2, <2>7, <2>8 DEF RotateHit, TInv, TokensIdentifySessions
  <2>10. rows'[r.user][d] = Rotated(rows[r.user][d], r)
    BY Zenon, <2>1, <2>2, <2>5, <2>6
  <2>11. rows[r.user][d] \in Row
    BY Zenon, <2>2, <2>5
  <2>12. /\ Live(rows'[r.user][d]) /\ rows'[r.user][d].hash = r.new
         /\ rows'[r.user][d].id = rows[r.user][d].id
    BY Zenon, <2>7, <2>10, <2>11 DEF Rotated, Row, Live
  <2>13. \A v \in Humans, e \in Devices :
             ~(v = r.user /\ e = d) => rows'[v][e] = rows[v][e]
    BY Zenon, <2>1, <2>2, <2>5, <2>9
  <2>14. RotateEffect(p, r.user, d, r.tok, r.new)
    BY Zenon, <2>1, <2>2, <2>3, <2>7, <2>8, <2>12, <2>13 DEF RotateEffect
  <2> QED BY Zenon, <2>2, <2>4, <2>14
<1> QED BY Zenon, <1>2, <1>3

\* A revocation, a ban or an expiry ends sessions and changes no token.
Ends ==
    \A u \in Humans, d \in Devices :
        /\ rows'[u][d].id = rows[u][d].id /\ rows'[u][d].hash = rows[u][d].hash
        /\ Live(rows'[u][d]) => Live(rows[u][d])

\* At most one session, that of device d of account u, ends.
EndsOne(u, d) ==
    Ends /\ \A v \in Humans, e \in Devices :
                ~(v = u /\ e = d) => (Live(rows[v][e]) => Live(rows'[v][e]))

\* Revoke ends at most one session: an id is in one row.
LEMMA RevokeEnds ==
    ASSUME IInv, TInv, NEW p \in Requests, Revoke(p)
    PROVE  /\ Ends
           /\ \A u \in Humans, d \in Devices : Live(rows[u][d]) /\ ~Live(rows'[u][d]) => EndsOne(u, d)
<1>0. PICK r : r = req[p]
  OBVIOUS
<1>1. r.user \in Humans
  BY Zenon, <1>0 DEF IInv, RequestsConsistent, RequestOK, Revoke
<1>2. rows' = [rows EXCEPT ![r.user] =
                [d \in Devices |->
                    IF rows[r.user][d].id = r.sid
                    THEN [rows[r.user][d] EXCEPT !.revoked = TRUE]
                    ELSE rows[r.user][d]]]
  BY <1>0 DEF Revoke
<1>3. rows \in [Humans -> [Devices -> Row]]
  BY DEF IInv, TypeOK
<1>4. ASSUME NEW u \in Humans, NEW d \in Devices
      PROVE  /\ rows'[u][d].id = rows[u][d].id /\ rows'[u][d].hash = rows[u][d].hash
             /\ Live(rows'[u][d]) => Live(rows[u][d])
             /\ ~(u = r.user /\ rows[u][d].id = r.sid) => rows'[u][d] = rows[u][d]
  <2>1. rows[u][d] \in Row
    BY <1>3
  <2>2. \/ rows'[u][d] = rows[u][d]
        \/ /\ rows'[u][d] = [rows[u][d] EXCEPT !.revoked = TRUE]
           /\ u = r.user /\ rows[u][d].id = r.sid
    BY Zenon, <1>1, <1>2, <1>3
  <2> QED BY <2>1, <2>2 DEF Row, Live
<1>5. Ends
  BY <1>4 DEF Ends
<1>6. ASSUME NEW u \in Humans, NEW d \in Devices, Live(rows[u][d]) /\ ~Live(rows'[u][d])
      PROVE  EndsOne(u, d)
  <2>1. u = r.user /\ rows[u][d].id = r.sid /\ rows[u][d].id # 0
    BY ZenonT(40), <1>4, <1>6 DEF TInv, RowTokens
  <2>2. \A v \in Humans, e \in Devices : rows[v][e].id = r.sid => v = u /\ e = d
    BY <2>1 DEF TInv, TokensIdentifySessions
  <2>3. \A v \in Humans, e \in Devices : ~(v = u /\ e = d) => rows'[v][e] = rows[v][e]
    BY <1>4, <2>2
  <2> QED BY Zenon, <1>5, <2>3 DEF EndsOne
<1> QED BY Zenon, <1>5, <1>6

\* Ban ends sessions.
LEMMA BanEnds ==
    ASSUME IInv, NEW u \in Users, Ban(u)
    PROVE  Ends
<1>1. rows \in [Humans -> [Devices -> Row]]
  BY DEF IInv, TypeOK
<1>2. ASSUME NEW v \in Humans, NEW d \in Devices
      PROVE  /\ rows'[v][d].id = rows[v][d].id /\ rows'[v][d].hash = rows[v][d].hash
             /\ Live(rows'[v][d]) => Live(rows[v][d])
  <2>1. rows[v][d] \in Row
    BY <1>1
  <2>2. rows'[v][d] = rows[v][d] \/ rows'[v][d] = [rows[v][d] EXCEPT !.revoked = TRUE]
    BY <1>1 DEF Ban, BanRow
  <2> QED BY <2>1, <2>2 DEF Row, Live
<1> QED BY <1>2 DEF Ends

\* Expire ends one session.
LEMMA ExpireEnds ==
    ASSUME IInv, NEW u \in Humans, NEW d \in Devices, Expire(u, d)
    PROVE  EndsOne(u, d)
<1>1. rows \in [Humans -> [Devices -> Row]]
  BY DEF IInv, TypeOK
<1>2. \A v \in Humans, e \in Devices : ~(v = u /\ e = d) => rows'[v][e] = rows[v][e]
  BY <1>1 DEF Expire
<1>3. rows'[u][d] = [rows[u][d] EXCEPT !.expired = TRUE] /\ rows[u][d] \in Row
  BY ZenonT(40), <1>1 DEF Expire
<1>4. /\ rows'[u][d].id = rows[u][d].id /\ rows'[u][d].hash = rows[u][d].hash
      /\ ~Live(rows'[u][d])
  BY Zenon, <1>3 DEF Row, Live
<1> QED BY ZenonT(40), <1>2, <1>4 DEF EndsOne, Ends

\* A request's own steps other than commits and revocations.
LEMMA QuietRequests ==
    ASSUME IInv, NEW p \in Requests,
           \/ IssueLock(p) \/ IssueCount(p) \/ IssueEvict(p) \/ RefreshUser(p) \/ Sign(p)
           \/ Start(p) \/ Abort(p)
    PROVE  /\ UNCHANGED <<banned, rows, issued, exchanged>>
           /\ \E r : /\ Become(p, r)
                     /\ r.pc \in Drawing => \/ r.new = nextToken
                                            \/ req[p].pc \in Drawing /\ r.new = req[p].new
<1>0. req[p] \in Request
  BY DEF IInv, TypeOK
<1> DEFINE Q == /\ UNCHANGED <<banned, rows, issued, exchanged>>
                /\ \E r : /\ Become(p, r)
                          /\ r.pc \in Drawing => \/ r.new = nextToken
                                                 \/ req[p].pc \in Drawing /\ r.new = req[p].new
<1>a. Finish(p) => \E r : Become(p, r) /\ r.pc \notin Drawing
  BY DEF Finish, IdleRequest, Opened, Drawing
<1>1. CASE IssueLock(p)
  <2>1. CASE Finish(p)
    BY <1>1, <1>a, <2>1 DEF IssueLock, store
  <2>2. CASE ~Finish(p)
    <3> DEFINE r == [req[p] EXCEPT !.pc = "count",
                  !.unexpired = {d \in Devices : ~rows[req[p].user][d].expired},
                  !.exists = Live(rows[req[p].user][req[p].dev])]
    <3>1. Become(p, r) /\ UNCHANGED store /\ req[p].pc = "lock"
      BY <1>1, <2>2 DEF IssueLock
    <3>2. r.new = req[p].new
      BY <1>0 DEF Request
    <3> HIDE DEF r
    <3> QED BY <3>1, <3>2 DEF store, Drawing
  <2> QED BY ZenonT(40), <2>1, <2>2
<1>2. CASE IssueCount(p)
  <2> DEFINE r == [req[p] EXCEPT !.pc = "evict", !.projected = ProjectedSessions(req[p])]
  <2>1. Become(p, r) /\ UNCHANGED store /\ req[p].pc = "count" /\ r.new = req[p].new
    BY ZenonT(40), <1>0, <1>2 DEF IssueCount, Request
  <2> HIDE DEF r
  <2> QED BY <2>1 DEF store, Drawing
<1>3. CASE IssueEvict(p)
  <2>1. CASE Finish(p)
    BY <1>3, <1>a, <2>1 DEF IssueEvict, store
  <2>2. CASE ~Finish(p)
    <3>1. DeleteOldest(p) /\ UNCHANGED store /\ req[p].pc = "evict"
      BY <1>3, <2>2 DEF IssueEvict
    <3>2. PICK d : Become(p, [req[p] EXCEPT !.projected = @ - 1, !.evicted = @ \cup {d}])
      BY Zenon, <3>1 DEF DeleteOldest
    <3>3. [req[p] EXCEPT !.projected = @ - 1, !.evicted = @ \cup {d}].new = req[p].new
      BY Zenon, <1>0 DEF Request
    <3> QED BY Zenon, <3>1, <3>2, <3>3 DEF store, Drawing
  <2> QED BY <2>1, <2>2
<1>4. CASE RefreshUser(p)
  <2>1. CASE Finish(p)
    BY Zenon, <1>4, <1>a, <2>1 DEF RefreshUser, store
  <2>2. CASE ~Finish(p)
    <3> DEFINE r == [req[p] EXCEPT !.pc = "rotate", !.ver = tokenVersion[req[p].user]]
    <3>1. Become(p, r) /\ UNCHANGED store /\ req[p].pc = "user" /\ r.new = req[p].new
      BY Zenon, <1>0, <1>4, <2>2 DEF RefreshUser, Request
    <3> HIDE DEF r
    <3> QED BY <3>1 DEF store, Drawing
  <2> QED BY <2>1, <2>2
<1>5. CASE Sign(p)
  BY Zenon, <1>5, <1>a DEF Sign
<1>6. CASE Abort(p)
  BY Zenon, <1>6, <1>a DEF Abort, store
<1>7. ASSUME NEW u \in Humans, NEW d \in Devices, IssueStart(p, u, d) PROVE Q
  <2>1. Opened("lock", u, d, tokenVersion[u], 0, nextToken, 0).new = nextToken
    BY Zenon DEF Opened
  <2> QED BY Zenon, <1>7, <2>1 DEF IssueStart
<1>8. ASSUME NEW t \in delivered, RefreshFind(p, t) PROVE Q
  <2>1. PICK u \in Humans, d \in Devices :
            Become(p, Opened("user", u, None, 0, t, nextToken, rows[u][d].id))
    BY <1>8 DEF RefreshFind
  <2>2. Opened("user", u, None, 0, t, nextToken, rows[u][d].id).new = nextToken
    BY Zenon DEF Opened
  <2> QED BY Zenon, <1>8, <2>1, <2>2 DEF RefreshFind
<1>9. ASSUME NEW u, NEW i, Become(p, Opened("revoke", u, None, 0, 0, 0, i)), UNCHANGED store
      PROVE Q
  <2>1. Opened("revoke", u, None, 0, 0, 0, i).pc \notin Drawing
    BY Zenon DEF Opened, Drawing
  <2> QED BY <1>9, <2>1 DEF store
<1>10. ASSUME NEW u \in Services, ServiceTokenStart(p, u) PROVE Q
  <2>1. Opened("sign", u, None, tokenVersion[u], 0, 0, 0).pc \notin Drawing
    BY Zenon DEF Opened, Drawing
  <2> QED BY Zenon, <1>10, <2>1 DEF ServiceTokenStart, store
<1>11. CASE Start(p)
  <2>1. ASSUME NEW t \in delivered, LogoutFind(p, t) PROVE Q
    BY Zenon, <1>9, <2>1 DEF LogoutFind
  <2>2. ASSUME NEW u \in Humans, NEW d \in Devices, RevokeOwnFind(p, u, d) PROVE Q
    BY <1>9, <2>2 DEF RevokeOwnFind
  <2> QED BY ZenonT(40), <1>7, <1>8, <1>10, <1>11, <2>1, <2>2 DEF Start
<1> QED BY ZenonT(40), <1>1, <1>2, <1>3, <1>4, <1>5, <1>6, <1>11

\* A request that ends gives up its token.
LEMMA FinishDrawn ==
    ASSUME IInv, DrawnTokens, NEW p \in Requests, Finish(p), issued' = issued
    PROVE  DrawnTokens'
<1>1. IdleRequest.pc \notin Drawing /\ Become(p, IdleRequest)
  BY DEF Finish, IdleRequest, Opened, Drawing
<1> QED BY Zenon, <1>1, DrawnStep

\* Every step keeps tokens and ids unique.
LEMMA NextTInv == IInv /\ TInv /\ [Next]_vars => TInv'
<1> SUFFICES ASSUME IInv, TInv, [Next]_vars PROVE TInv'
  OBVIOUS
<1>1. ASSUME NEW p \in Requests,
             \/ IssueLock(p) \/ IssueCount(p) \/ IssueEvict(p) \/ RefreshUser(p) \/ Sign(p)
             \/ Start(p) \/ Abort(p)
      PROVE  TInv'
  <2>1. UNCHANGED <<rows, issued>>
    BY ZenonT(40), <1>1, QuietRequests
  <2>2. PICK r : /\ Become(p, r)
                 /\ r.pc \in Drawing => \/ r.new = nextToken
                                        \/ req[p].pc \in Drawing /\ r.new = req[p].new
    BY <1>1, QuietRequests
  <2> QED BY ZenonT(40), <2>1, <2>2, DrawStep
<1>2. ASSUME NEW p \in Requests, IssueInsert(p) PROVE TInv'
  <2>1. DrawnTokens'
    BY <1>2, InsertHasEffect
  <2>a. PICK u \in Humans, d \in Devices : \E t : InsertEffect(p, u, d, t)
    BY <1>2, InsertHasEffect
  <2>2. PICK t : InsertEffect(p, u, d, t)
    BY Zenon, <2>a
  <2>3. t # 0
    BY Zenon, <2>2, TokenNumbers DEF InsertEffect
  <2>4. RowTokens' /\ TokensIdentifySessions'
    BY <2>2, <2>3, CommittedRow DEF InsertEffect
  <2> QED BY <2>1, <2>4 DEF TInv
<1>3. ASSUME NEW p \in Requests, Rotate(p) PROVE TInv'
  <2>1. CASE Finish(p) /\ UNCHANGED <<rows, issued, exchanged, banned>>
    <3>1. IdleRequest.pc \notin Drawing /\ Become(p, IdleRequest)
      BY <2>1 DEF Finish, IdleRequest, Opened, Drawing
    <3> QED BY Zenon, <2>1, <3>1, DrawStep
  <2>2. ASSUME DrawnTokens', NEW u \in Humans, NEW d \in Devices, NEW s, NEW t,
               RotateEffect(p, u, d, s, t)
        PROVE  TInv'
    <3>1. t # 0
      BY <2>2 DEF RotateEffect
    <3>2. \A v \in Humans, e \in Devices :
               ~(v = u /\ e = d) => rows'[v][e] \in {rows[v][e], NoRow}
      BY Zenon, <2>2 DEF RotateEffect
    <3>3. RowTokens' /\ TokensIdentifySessions'
      BY SMTT(40), <2>2, <3>1, <3>2, CommittedRow DEF RotateEffect
    <3> QED BY Zenon, <2>2, <3>3 DEF TInv
  <2> QED BY Zenon, <1>3, <2>1, <2>2, RotateHasEffect
<1>4. ASSUME NEW p \in Requests, Revoke(p) PROVE TInv'
  <2>1. DrawnTokens' /\ issued' = issued
    BY Zenon, <1>4, FinishDrawn DEF Revoke, TInv
  <2> QED BY Zenon, <1>4, <2>1, RevokeEnds, EndingStep DEF Ends
<1>5. ASSUME NEW u \in Users, Ban(u) PROVE TInv'
  <2>1. DrawnTokens' /\ issued' = issued
    BY Zenon, <1>5 DEF Ban, TInv, DrawnTokens
  <2> QED BY Zenon, <1>5, <2>1, BanEnds, EndingStep DEF Ends
<1>6. ASSUME NEW u \in Humans, NEW d \in Devices, Expire(u, d) PROVE TInv'
  <2>1. DrawnTokens' /\ issued' = issued
    BY ZenonT(40), <1>6 DEF Expire, TInv, DrawnTokens
  <2> QED BY Zenon, <1>6, <2>1, ExpireEnds, EndingStep DEF Ends, EndsOne
<1>7. ASSUME UNCHANGED <<rows, issued, req>> PROVE TInv'
  BY <1>7 DEF TInv, RowTokens, DrawnTokens, TokensIdentifySessions, Live
<1>8. ASSUME NEW u \in Users, Unban(u) PROVE TInv'
  BY <1>7, <1>8 DEF Unban
<1>9. CASE UNCHANGED vars
  BY <1>7, <1>9 DEF vars
<1> QED BY ZenonT(40), <1>1, <1>2, <1>3, <1>4, <1>5, <1>6, <1>8, <1>9 DEF Next, Step

\* In every reachable state a token hash and a session id are in one row each:
\* FindRefreshByTokenHash and RevokeRefreshSession hit at most one session.
THEOREM TokensIdentifyAlways == Spec => []TokensIdentifySessions
<1>1. TInv => TokensIdentifySessions
  BY DEF TInv
<1> QED BY <1>1, InitIInv, NextIInv, InitTInv, NextTInv, PTL DEF Spec

\* The tokens of the live sessions among the rows rs, with their accounts.
LiveIn(rs) ==
    {x \in Humans \X (1..MaxTokens) :
        \E d \in Devices : Live(rs[x[1]][d]) /\ rs[x[1]][d].hash = x[2]}

\* LiveTokens as a set of pairs.
LEMMA LiveTokensAre == TypeOK /\ RowTokens => LiveTokens = LiveIn(rows)
<1> SUFFICES ASSUME TypeOK, RowTokens PROVE LiveTokens = LiveIn(rows)
  OBVIOUS
<1>1. \A u \in Humans, d \in Devices : Live(rows[u][d]) => rows[u][d].hash \in 1..MaxTokens
  <2> SUFFICES ASSUME NEW u \in Humans, NEW d \in Devices, Live(rows[u][d])
               PROVE  rows[u][d].hash \in 1..MaxTokens
    OBVIOUS
  <2>1. rows[u][d].hash \in 0..MaxTokens
    BY DEF TypeOK, Row
  <2>2. rows[u][d].hash \in issued /\ 0 \notin issued
    BY DEF RowTokens, TypeOK
  <2> QED BY <2>1, <2>2, BoundsAssumption
<1>2. \A x : x \in LiveTokens <=>
          \E u \in Humans, d \in Devices : Live(rows[u][d]) /\ x = <<u, rows[u][d].hash>>
  BY DEF LiveTokens, ActiveDevices
<1>3. \A x : x \in LiveTokens => x \in LiveIn(rows)
  BY <1>1, <1>2 DEF LiveIn
<1>4. \A x : x \in LiveIn(rows) => x \in LiveTokens
  BY <1>2 DEF LiveIn
<1> QED BY <1>3, <1>4

\* The same after a step.
LEMMA LiveTokensAreNext == TypeOK' /\ RowTokens' => LiveTokens' = LiveIn(rows')
<1>1. (TypeOK /\ RowTokens => LiveTokens = LiveIn(rows))'
  BY LiveTokensAre, PTL
<1> QED BY <1>1

\* The tokens of one account.
LEMMA LiveInMember ==
    ASSUME NEW rs, NEW u \in Humans, NEW t
    PROVE  <<u, t>> \in LiveIn(rs) <=>
               t \in 1..MaxTokens /\ \E d \in Devices : Live(rs[u][d]) /\ rs[u][d].hash = t
  BY Zenon DEF LiveIn

\* A token stays live, or dead, when the sessions that carry it do.
LEMMA SameLive ==
    ASSUME NEW u \in Humans, NEW t,
           \A e \in Devices : Live(rows'[u][e]) /\ rows'[u][e].hash = t
                                 <=> Live(rows[u][e]) /\ rows[u][e].hash = t
    PROVE  <<u, t>> \in LiveIn(rows') <=> <<u, t>> \in LiveIn(rows)
  <1>1. <<u, t>> \in LiveIn(rows) <=>
             t \in 1..MaxTokens /\ \E e \in Devices : Live(rows[u][e]) /\ rows[u][e].hash = t
    BY Zenon DEF LiveIn
  <1>2. <<u, t>> \in LiveIn(rows') <=>
             t \in 1..MaxTokens /\ \E e \in Devices : Live(rows'[u][e]) /\ rows'[u][e].hash = t
    BY Zenon DEF LiveIn
  <1> QED BY Zenon, <1>1, <1>2

\* An account has no more live tokens than live sessions.
LEMMA FewLiveTokens ==
    ASSUME NEW rs, NEW u \in Humans
    PROVE  Cardinality({t \in 1..MaxTokens : <<u, t>> \in LiveIn(rs)})
               <= Cardinality({d \in Devices : Live(rs[u][d])})
<1> DEFINE D == {d \in Devices : Live(rs[u][d]) /\ rs[u][d].hash \in 1..MaxTokens}
           T == {t \in 1..MaxTokens : <<u, t>> \in LiveIn(rs)}
           A == {d \in Devices : Live(rs[u][d])}
           f == [d \in D |-> rs[u][d].hash]
<1>1. IsFiniteSet(A) /\ IsFiniteSet(D) /\ Cardinality(D) <= Cardinality(A)
  <2>1. A \subseteq Devices /\ D \in SUBSET A
    OBVIOUS
  <2>2. IsFiniteSet(A)
    BY ZenonT(40), <2>1, DevicesAssumption, FS_Subset
  <2> QED BY Zenon, <2>1, <2>2, FS_Subset
<1>2. \A t : t \in T <=> \E d \in D : rs[u][d].hash = t
  BY LiveInMember
<1>3. f \in Surjection(D, T)
  <2>1. f \in [D -> T]
    BY ZenonT(40), <1>2
  <2>2. \A t \in T : \E d \in D : f[d] = t
    BY <1>2
  <2> QED BY <2>1, <2>2, Zenon DEF Surjection
<1>4. IsFiniteSet(T) /\ Cardinality(T) <= Cardinality(D)
  <2> HIDE DEF D, T, f
  <2> QED BY Zenon, <1>1, <1>3, FS_Surjection
<1>5. Cardinality(T) \in Nat /\ Cardinality(D) \in Nat /\ Cardinality(A) \in Nat
  BY Zenon, <1>1, <1>4, FS_CardinalityType
<1> QED BY <1>1, <1>4, <1>5

\* The ledger counts as this module does.
LEMMA LedgerCounts == ASSUME NEW S PROVE Ledger!Cardinality(S) = Cardinality(S)
  BY Zenon DEF Ledger!Cardinality, Cardinality

\* The commit of a login is a grant.
LEMMA InsertGrants ==
    ASSUME NEW p, NEW u \in Humans, NEW d \in Devices, NEW t, InsertEffect(p, u, d, t),
           LiveTokens = LiveIn(rows), LiveTokens' = LiveIn(rows'), SessionLimit'
    PROVE  Ledger!Grant(u, t)
<1> DEFINE lost == Ledger!TokensOf(u, LiveTokens) \ Ledger!TokensOf(u, LiveTokens')
<1>0. ~Live(NoRow)
  BY DEF Live, NoRow
<1>1. lost \in SUBSET Ledger!TokensOf(u, LiveTokens)
  OBVIOUS
<1>2. \A s : s \in lost <=> s \in 1..MaxTokens /\ <<u, s>> \in LiveTokens /\ <<u, s>> \notin LiveTokens'
  BY Zenon DEF Ledger!TokensOf
<1>3. ASSUME NEW v \in Humans, NEW s \in 1..MaxTokens
      PROVE  <<v, s>> \in LiveTokens' <=>
                 <<v, s>> \in (LiveTokens \ {<<u, x>> : x \in lost}) \cup {<<u, t>>}
  <2>1. CASE v # u
    <3>1. <<v, s>> \in LiveTokens' <=> <<v, s>> \in LiveTokens
      BY <2>1, LiveInMember DEF InsertEffect
    <3> QED BY Zenon, <2>1, <3>1
  <2>2. CASE v = u /\ s = t
    <3>1. <<u, t>> \in LiveTokens'
      BY LiveInMember DEF InsertEffect
    <3> QED BY Zenon, <2>2, <3>1
  <2>3. CASE v = u /\ s # t
    <3>1. <<u, s>> \in LiveTokens' => <<u, s>> \in LiveTokens
      <4> SUFFICES ASSUME <<u, s>> \in LiveTokens' PROVE <<u, s>> \in LiveTokens
        OBVIOUS
      <4>1. PICK e \in Devices : Live(rows'[u][e]) /\ rows'[u][e].hash = s
        BY LiveInMember
      <4>2. e # d
        BY Zenon, <2>3, <4>1 DEF InsertEffect
      <4>3. rows'[u][e] = rows[u][e]
        BY Zenon, <1>0, <4>1, <4>2 DEF InsertEffect
      <4> QED BY ZenonT(40), <4>1, <4>3, LiveInMember
    <3>2. s \in lost <=> <<u, s>> \in LiveTokens /\ <<u, s>> \notin LiveTokens'
      BY Zenon, <1>2
    <3> HIDE DEF lost
    <3> QED BY Zenon, <2>3, <3>1, <3>2
  <2> QED BY Zenon, <2>1, <2>2, <2>3
<1>4. LiveTokens \subseteq Humans \X (1..MaxTokens) /\ LiveTokens' \subseteq Humans \X (1..MaxTokens)
      /\ <<u, t>> \in Humans \X (1..MaxTokens)
  BY DEF LiveIn, InsertEffect
<1>5. LiveTokens' = (LiveTokens \ {<<u, x>> : x \in lost}) \cup {<<u, t>>}
  <2> HIDE DEF lost
  <2> DEFINE R == (LiveTokens \ {<<u, x>> : x \in lost}) \cup {<<u, t>>}
  <2>1. R \subseteq Humans \X (1..MaxTokens)
    BY Zenon, <1>4
  <2>2. \A z \in Humans \X (1..MaxTokens) : z \in LiveTokens' <=> z \in R
    BY <1>3
  <2> QED BY Zenon, <1>4, <2>1, <2>2
<1>6. Cardinality(Ledger!TokensOf(u, LiveTokens')) <= MaxSessions
  <2>1. Ledger!TokensOf(u, LiveTokens') = {x \in 1..MaxTokens : <<u, x>> \in LiveIn(rows')}
    BY DEF Ledger!TokensOf
  <2>2. ActiveDevices(u)' = {e \in Devices : Live(rows'[u][e])}
    BY DEF ActiveDevices, Live
  <2>3. Cardinality(ActiveDevices(u)') <= MaxSessions
    BY DEF SessionLimit
  <2>4. Cardinality({x \in 1..MaxTokens : <<u, x>> \in LiveIn(rows')})
            <= Cardinality({e \in Devices : Live(rows'[u][e])})
    BY Zenon, FewLiveTokens
  <2>5. Cardinality({x \in 1..MaxTokens : <<u, x>> \in LiveIn(rows')}) \in Nat
    <3>1. IsFiniteSet(1..MaxTokens)
      BY FS_Interval, BoundsAssumption
    <3>2. IsFiniteSet({x \in 1..MaxTokens : <<u, x>> \in LiveIn(rows')})
      BY ZenonT(40), <3>1, FS_Subset
    <3> QED BY <3>2, FS_CardinalityType
  <2>6. Cardinality({e \in Devices : Live(rows'[u][e])}) \in Nat
    <3>1. IsFiniteSet({e \in Devices : Live(rows'[u][e])})
      BY DevicesAssumption, FS_Subset
    <3> QED BY <3>1, FS_CardinalityType
  <2>7. MaxSessions \in Nat
    BY Zenon, MaxSessionsAssumption
  <2>8. PICK a : a = Cardinality({x \in 1..MaxTokens : <<u, x>> \in LiveIn(rows')})
    BY Zenon
  <2>9. PICK b : b = Cardinality({e \in Devices : Live(rows'[u][e])})
    BY Zenon
  <2>10. a \in Nat /\ b \in Nat /\ a <= b
    BY Zenon, <2>4, <2>5, <2>6, <2>8, <2>9
  <2>11. b <= MaxSessions
    BY Zenon, <2>2, <2>3, <2>9
  <2>12. a <= MaxSessions
    BY Zenon, <2>7, <2>10, <2>11, Order
  <2> QED BY Zenon, <2>1, <2>8, <2>12
<1>7. Ledger!Fresh(t)
  BY ZenonT(40) DEF Ledger!Fresh, InsertEffect
<1>8. u \notin {h \in Humans : banned[h]} /\ UNCHANGED <<exchanged, {h \in Humans : banned[h]}>>
  BY DEF InsertEffect
<1>9. Ledger!Cardinality(Ledger!TokensOf(u, LiveTokens')) <= MaxSessions
  BY Zenon, <1>6, LedgerCounts
<1> HIDE DEF lost
<1> QED BY Zenon, <1>1, <1>5, <1>7, <1>8, <1>9 DEF Ledger!Grant

\* A rotation is an exchange.
LEMMA RotateExchanges ==
    ASSUME NEW p, NEW u \in Humans, NEW d \in Devices, NEW s, NEW t, RotateEffect(p, u, d, s, t),
           TInv, LiveTokens = LiveIn(rows), LiveTokens' = LiveIn(rows')
    PROVE  Ledger!Exchange(u, s, t)
<1>1. \A e \in Devices : rows[u][e].hash = s => e = d
  BY ZenonT(40) DEF RotateEffect, TInv, TokensIdentifySessions
<1>2. <<u, s>> \in LiveTokens
  BY LiveInMember DEF RotateEffect
<1>3. ASSUME NEW v \in Humans, NEW x \in 1..MaxTokens
      PROVE  <<v, x>> \in LiveTokens' <=>
                 <<v, x>> \in (LiveTokens \ {<<u, s>>}) \cup {<<u, t>>}
  <2>1. CASE v # u
    <3>0. \A e \in Devices : rows'[v][e] = rows[v][e]
      BY Zenon, <2>1 DEF RotateEffect
    <3>1. <<v, x>> \in LiveTokens' <=> <<v, x>> \in LiveTokens
      <4>1. <<v, x>> \in LiveIn(rows') <=> <<v, x>> \in LiveIn(rows)
        BY Zenon, <3>0, SameLive
      <4> QED BY Zenon, <4>1
    <3> QED BY Zenon, <2>1, <3>1
  <2>2. CASE v = u /\ x = t
    BY <2>2, LiveInMember DEF RotateEffect
  <2>3. CASE v = u /\ x # t /\ x = s
    <3>1. \A e \in Devices : rows'[u][e].hash # s
      BY Zenon, <1>1, <2>3 DEF RotateEffect
    <3>2. <<u, s>> \notin LiveTokens'
      BY <3>1, LiveInMember
    <3> QED BY Zenon, <2>3, <3>2
  <2>4. CASE v = u /\ x # t /\ x # s
    <3>1. \A e \in Devices : Live(rows'[u][e]) /\ rows'[u][e].hash = x
                                <=> Live(rows[u][e]) /\ rows[u][e].hash = x
      BY Zenon, <2>4 DEF RotateEffect
    <3>2. <<u, x>> \in LiveTokens' <=> <<u, x>> \in LiveTokens
      <4>1. <<u, x>> \in LiveIn(rows') <=> <<u, x>> \in LiveIn(rows)
        BY Zenon, <3>1, SameLive
      <4> QED
        BY Zenon, <4>1
    <3> QED BY Zenon, <2>4, <3>2
  <2> QED BY Zenon, <2>1, <2>2, <2>3, <2>4
<1>4. LiveTokens \subseteq Humans \X (1..MaxTokens) /\ LiveTokens' \subseteq Humans \X (1..MaxTokens)
      /\ <<u, t>> \in Humans \X (1..MaxTokens)
  BY DEF LiveIn, RotateEffect
<1>5. LiveTokens' = (LiveTokens \ {<<u, s>>}) \cup {<<u, t>>}
  <2>1. (LiveTokens \ {<<u, s>>}) \cup {<<u, t>>} \subseteq Humans \X (1..MaxTokens)
    BY Zenon, <1>4
  <2>2. PICK B : B = (LiveTokens \ {<<u, s>>}) \cup {<<u, t>>}
    BY Zenon
  <2>3. PICK T : T = 1..MaxTokens
    BY Zenon
  <2>4. PICK A : A = LiveTokens'
    BY Zenon
  <2>5. A \subseteq Humans \X T /\ B \subseteq Humans \X T
    BY Zenon, <1>4, <2>1, <2>2, <2>3, <2>4
  <2>6. \A v \in Humans, x \in T : <<v, x>> \in A <=> <<v, x>> \in B
    BY Zenon, <1>3, <2>2, <2>3, <2>4
  <2>7. A = B
    BY <2>5, <2>6, SamePairs
  <2> QED BY Zenon, <2>2, <2>4, <2>7
<1>6. Ledger!Fresh(t) /\ exchanged' = exchanged \cup {s}
  BY DEF Ledger!Fresh, RotateEffect
<1>7. u \notin {h \in Humans : banned[h]} /\ UNCHANGED {h \in Humans : banned[h]}
  BY DEF RotateEffect
<1> QED BY Zenon, <1>2, <1>5, <1>6, <1>7 DEF Ledger!Exchange

\* The end of one session kills its token.
LEMMA EndingKills ==
    ASSUME NEW u \in Humans, NEW d \in Devices, EndsOne(u, d), Live(rows[u][d]), ~Live(rows'[u][d]),
           RowTokens, TInv, LiveTokens = LiveIn(rows), LiveTokens' = LiveIn(rows'), TypeOK,
           UNCHANGED <<issued, exchanged, banned>>
    PROVE  \E s \in 1..MaxTokens : Ledger!Kill(u, s)
<1>0. PICK s : s = rows[u][d].hash
  OBVIOUS
<1>1. s \in 1..MaxTokens /\ rows[u][d].id # 0
  <2>1. rows[u][d].id # 0 /\ s \in issued /\ 0 \notin issued /\ s \in 0..MaxTokens
    BY <1>0 DEF RowTokens, TypeOK, Row
  <2> QED BY Zenon, <2>1, TokenNumbers
<1>2. \A e \in Devices : rows[u][e].hash = s => e = d
  BY Zenon, <1>0, <1>1 DEF TInv, TokensIdentifySessions
<1>3. ASSUME NEW v \in Humans, NEW x \in 1..MaxTokens
      PROVE  <<v, x>> \in LiveTokens' <=> <<v, x>> \in LiveTokens \ {<<u, s>>}
  <2>1. CASE v = u /\ x = s
    <3>1. \A e \in Devices : ~(Live(rows'[u][e]) /\ rows'[u][e].hash = s)
      BY ZenonT(40), <1>2 DEF EndsOne, Ends
    <3>2. <<u, s>> \notin LiveTokens'
      BY <3>1, LiveInMember
    <3> QED BY Zenon, <2>1, <3>2
  <2>2. CASE ~(v = u /\ x = s)
    <3>1. \A e \in Devices : Live(rows'[v][e]) /\ rows'[v][e].hash = x
                                <=> Live(rows[v][e]) /\ rows[v][e].hash = x
      BY Zenon, <1>0, <2>2 DEF EndsOne, Ends
    <3>2. <<v, x>> \in LiveTokens' <=> <<v, x>> \in LiveTokens
      <4>1. <<v, x>> \in LiveIn(rows') <=> <<v, x>> \in LiveIn(rows)
        BY Zenon, <3>1, SameLive
      <4> QED
        BY Zenon, <4>1
    <3> QED BY Zenon, <2>2, <3>2
  <2> QED BY <2>1, <2>2
<1>4. LiveTokens \subseteq Humans \X (1..MaxTokens) /\ LiveTokens' \subseteq Humans \X (1..MaxTokens)
  BY DEF LiveIn
<1>5. LiveTokens' = LiveTokens \ {<<u, s>>}
  BY <1>3, <1>4
<1>6. <<u, s>> \in LiveTokens
  BY Zenon, <1>0, <1>1, LiveInMember
<1>7. Ledger!Kill(u, s)
  BY Zenon, <1>5, <1>6 DEF Ledger!Kill
<1> QED BY Zenon, <1>1, <1>7

\* A ban of an account suspends it.
LEMMA BanSuspends ==
    ASSUME IInv, NEW u \in Humans, Ban(u), LiveTokens = LiveIn(rows), LiveTokens' = LiveIn(rows')
    PROVE  Ledger!Suspend(u)
<1>1. rows \in [Humans -> [Devices -> Row]] /\ banned \in [Users -> BOOLEAN] /\ u \in Users
  BY DEF IInv, TypeOK, Users
<1>2. \A v \in Humans, e \in Devices : v # u => rows'[v][e] = rows[v][e]
  BY <1>1 DEF Ban
<1>3. \A e \in Devices : ~Live(rows'[u][e])
  <2> SUFFICES ASSUME NEW e \in Devices PROVE ~Live(rows'[u][e])
    OBVIOUS
  <2>1. rows'[u][e] = [rows[u][e] EXCEPT !.revoked = TRUE] /\ rows[u][e] \in Row
    BY Zenon, <1>1 DEF Ban, BanRow
  <2> QED BY <2>1 DEF Row, Live
<1>4. ASSUME NEW v \in Humans, NEW x \in 1..MaxTokens
      PROVE  <<v, x>> \in LiveTokens' <=> <<v, x>> \in LiveTokens /\ v # u
  <2>1. CASE v = u
    BY <1>3, <2>1, LiveInMember
  <2>2. CASE v # u
    <3>1. \A e \in Devices : rows'[v][e] = rows[v][e]
      BY Zenon, <1>2, <2>2
    <3>2. <<v, x>> \in LiveIn(rows') <=> <<v, x>> \in LiveIn(rows)
      BY Zenon, <3>1, SameLive
    <3> QED BY Zenon, <2>2, <3>2
  <2> QED BY Zenon, <2>1, <2>2
<1>5. LiveTokens \subseteq Humans \X (1..MaxTokens) /\ LiveTokens' \subseteq Humans \X (1..MaxTokens)
  BY DEF LiveIn
<1>6. LiveTokens' = {x \in LiveTokens : x[1] # u}
  BY <1>4, <1>5
<1>7. {h \in Humans : banned[h]}' = {h \in Humans : banned[h]} \cup {u}
  BY <1>1 DEF Ban, Users
<1>8. UNCHANGED <<issued, exchanged>>
  BY DEF Ban
<1> QED BY Zenon, <1>6, <1>7, <1>8 DEF Ledger!Suspend

\* Every step of Sessions is a step of the ledger or changes nothing in it.
LEMMA NextLedger ==
    IInv /\ IInv' /\ TInv /\ TInv' /\ SessionLimit' /\ [Next]_vars =>
        [Ledger!Next]_(Ledger!vars)
<1> SUFFICES ASSUME IInv, IInv', TInv, TInv', SessionLimit', [Next]_vars
             PROVE  [Ledger!Next]_(Ledger!vars)
  BY SMTT(40)
<1> DEFINE Goal == [Ledger!Next]_(Ledger!vars)
<1>0. /\ LiveTokens = LiveIn(rows) /\ LiveTokens' = LiveIn(rows')
      /\ TypeOK /\ RowTokens /\ banned \in [Users -> BOOLEAN]
  BY Zenon, LiveTokensAre, LiveTokensAreNext DEF IInv, TInv, TypeOK
<1>a. ASSUME UNCHANGED <<rows, issued, exchanged, banned>> PROVE Goal
  BY <1>0, <1>a DEF Ledger!vars
<1>b. ASSUME Ends, \A u \in Humans, d \in Devices : Live(rows[u][d]) => Live(rows'[u][d])
      PROVE  LiveTokens' = LiveTokens
  <2>1. \A v \in Humans, x \in 1..MaxTokens : <<v, x>> \in LiveTokens' <=> <<v, x>> \in LiveTokens
    <3> SUFFICES ASSUME NEW v \in Humans, NEW x \in 1..MaxTokens
                 PROVE  <<v, x>> \in LiveTokens' <=> <<v, x>> \in LiveTokens
      BY Zenon
    <3>1. \A e \in Devices : Live(rows'[v][e]) /\ rows'[v][e].hash = x
                                <=> Live(rows[v][e]) /\ rows[v][e].hash = x
      BY Zenon, <1>b DEF Ends
    <3> QED BY <1>0, <3>1, LiveInMember
  <2>2. LiveTokens \subseteq Humans \X (1..MaxTokens) /\ LiveTokens' \subseteq Humans \X (1..MaxTokens)
    BY <1>0 DEF LiveIn
  <2> QED BY <2>1, <2>2
<1>c. ASSUME NEW u \in Humans, NEW d \in Devices, EndsOne(u, d), UNCHANGED <<issued, exchanged, banned>>
      PROVE  Goal
  <2>1. CASE Live(rows[u][d]) /\ ~Live(rows'[u][d])
    <3>1. \E s \in 1..MaxTokens : Ledger!Kill(u, s)
      BY Zenon, <1>0, <1>c, <2>1, EndingKills
    <3> QED BY Zenon, <3>1 DEF Ledger!Next
  <2>2. CASE ~(Live(rows[u][d]) /\ ~Live(rows'[u][d]))
    <3>1. LiveTokens' = LiveTokens
      BY Zenon, <1>b, <1>c, <2>2 DEF EndsOne
    <3> QED BY Zenon, <1>c, <3>1 DEF Ledger!vars
  <2> QED BY <2>1, <2>2
<1>1. ASSUME NEW p \in Requests,
             \/ IssueLock(p) \/ IssueCount(p) \/ IssueEvict(p) \/ RefreshUser(p) \/ Sign(p)
             \/ Start(p) \/ Abort(p)
      PROVE  Goal
  BY Zenon, <1>1, <1>a, QuietRequests
<1>2. ASSUME NEW p \in Requests, IssueInsert(p) PROVE Goal
  <2>a. PICK u \in Humans, d \in Devices : \E t : InsertEffect(p, u, d, t)
    BY <1>2, InsertHasEffect
  <2>1. PICK t : InsertEffect(p, u, d, t)
    BY Zenon, <2>a
  <2>2. Ledger!Grant(u, t) /\ t \in 1..MaxTokens
    BY ZenonT(40), <1>0, <2>1, InsertGrants DEF InsertEffect
  <2> QED BY <2>2 DEF Ledger!Next
<1>3. ASSUME NEW p \in Requests, Rotate(p) PROVE Goal
  <2>1. CASE UNCHANGED <<rows, issued, exchanged, banned>>
    BY Zenon, <1>a, <2>1
  <2>2. ASSUME NEW u \in Humans, NEW d \in Devices, NEW s, NEW t, RotateEffect(p, u, d, s, t)
        PROVE  Goal
    <3>1. Ledger!Exchange(u, s, t) /\ s \in 1..MaxTokens /\ t \in 1..MaxTokens
      BY Zenon, <1>0, <2>2, RotateExchanges DEF RotateEffect
    <3> QED BY Zenon, <3>1 DEF Ledger!Next
  <2> QED BY Zenon, <1>3, <2>1, <2>2, RotateHasEffect
<1>4. ASSUME NEW p \in Requests, Revoke(p) PROVE Goal
  <2>1. UNCHANGED <<issued, exchanged, banned>>
    BY Zenon, <1>4 DEF Revoke
  <2>2. CASE \E u \in Humans, d \in Devices : Live(rows[u][d]) /\ ~Live(rows'[u][d])
    BY Zenon, <1>4, <1>c, <2>1, <2>2, RevokeEnds
  <2>3. CASE ~ \E u \in Humans, d \in Devices : Live(rows[u][d]) /\ ~Live(rows'[u][d])
    <3>1. LiveTokens' = LiveTokens
      BY Zenon, <1>4, <1>b, <2>3, RevokeEnds
    <3> QED BY Zenon, <2>1, <3>1 DEF Ledger!vars
  <2> QED BY Zenon, <2>2, <2>3
<1>5. ASSUME NEW u \in Users, Ban(u) PROVE Goal
  <2>1. CASE u \in Humans
    <3>1. Ledger!Suspend(u)
      BY Zenon, <1>0, <1>5, <2>1, BanSuspends
    <3> QED BY Zenon, <2>1, <3>1 DEF Ledger!Next
  <2>2. CASE u \notin Humans
    <3>1. UNCHANGED <<issued, exchanged>> /\ {h \in Humans : banned[h]}' = {h \in Humans : banned[h]}
      BY Zenon, <1>0, <1>5, <2>2 DEF Ban, Users
    <3>2. rows' = rows
      BY Zenon, <1>0, <1>5, <2>2 DEF Ban, TypeOK
    <3> QED BY Zenon, <1>0, <3>1, <3>2 DEF Ledger!vars
  <2> QED BY Zenon, <2>1, <2>2
<1>6. ASSUME NEW u \in Users, Unban(u) PROVE Goal
  <2>0. UNCHANGED <<rows, issued, exchanged>> /\ banned' = [banned EXCEPT ![u] = FALSE]
    BY <1>6 DEF Unban
  <2>1. CASE u \in Humans
    <3>1. {h \in Humans : banned[h]}' = {h \in Humans : banned[h]} \ {u}
      BY Zenon, <1>0, <2>0, <2>1 DEF Users
    <3>2. Ledger!Restore(u)
      BY Zenon, <1>0, <2>0, <3>1 DEF Ledger!Restore
    <3> QED BY Zenon, <2>1, <3>2 DEF Ledger!Next
  <2>2. CASE u \notin Humans
    <3>1. {h \in Humans : banned[h]}' = {h \in Humans : banned[h]}
      BY ZenonT(40), <1>0, <2>0, <2>2 DEF Users
    <3> QED BY ZenonT(40), <1>0, <2>0, <3>1 DEF Ledger!vars
  <2> QED BY Zenon, <2>1, <2>2
<1>7. ASSUME NEW u \in Humans, NEW d \in Devices, Expire(u, d) PROVE Goal
  BY ZenonT(40), <1>7, <1>c, ExpireEnds DEF Expire
<1>8. CASE UNCHANGED vars
  BY Zenon, <1>8, <1>a DEF vars
<1>9. ASSUME NEW p \in Requests, Step(p) \/ Start(p) \/ Abort(p) PROVE Goal
  BY Zenon, <1>1, <1>2, <1>3, <1>4, <1>9 DEF Step
<1>10. CASE Next
  BY ZenonT(40), <1>5, <1>6, <1>7, <1>9, <1>10 DEF Next
<1> QED BY <1>8, <1>10

\* An empty database is an empty ledger.
LEMMA InitLedger == Init => Ledger!Init
<1> SUFFICES ASSUME Init PROVE Ledger!Init
  BY ZenonT(40)
<1>1. LiveTokens = {}
  BY DEF Init, LiveTokens, ActiveDevices, NoRow, Live
<1>2. {h \in Humans : banned[h]} = {}
  BY DEF Init, Users
<1> QED BY Zenon, <1>1, <1>2 DEF Init, Ledger!Init

\* Sessions refines RefreshLedger: behind all interleavings of logins, refreshes,
\* revocations, expiries and bans, a refresh token is exchanged at most once and
\* only while it is live, a dead one stays dead, and limits and bans hold.
THEOREM SessionsImplementLedger == Spec => ImplementsLedger
<1> QED BY InitIInv, NextIInv, InitTInv, NextTInv, LimitHolds, InitLedger, NextLedger, PTL
        DEF Spec, ImplementsLedger, Ledger!Spec

=============================================================================
