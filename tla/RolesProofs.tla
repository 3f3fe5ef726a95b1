---------------------------- MODULE RolesProofs -----------------------------
(***************************************************************************)
(* For any number of roles and users: mounts and memberships refer to      *)
(* roles that exist; the role list and the access checks agree; a role's   *)
(* deletion keeps what the others inherit; and a deployment that has no    *)
(* legacy parents keeps an acyclic hierarchy.  The last two need recursive *)
(* queries that reach the end of every chain, which they do with at most   *)
(* MaxDepth + 1 roles.  The second half is about RoleGrants.               *)
(***************************************************************************)
EXTENDS RoleHierarchy, RoleGrants, FiniteSetTheorems, WellFoundedInduction, TLAPS

-----------------------------------------------------------------------------

\* The numbers of mounts have successors.
LEMMA NextNumber == \A n \in Nat : n + 1 \in Nat
  OBVIOUS

\* The variables have their types at first.
LEMMA InitTypeOK == Init => TypeOK
  BY LegacyAssumption DEF Init, TypeOK, Level

\* Every write keeps the references of mounts, legacy parents and memberships.
LEMMA NextTypeOK == TypeOK /\ [Next]_vars => TypeOK'
<1> SUFFICES ASSUME TypeOK, [Next]_vars PROVE TypeOK'
  OBVIOUS
<1> USE DEF TypeOK, Level
<1>1. ASSUME NEW r \in Roles \ roles, NEW ps \in SUBSET roles, CreateRoleWithParents(r, ps)
      PROVE  TypeOK'
  BY <1>1 DEF CreateRoleWithParents
<1>2. ASSUME NEW r \in Roles, ClearRoleParent(r) PROVE TypeOK'
  BY <1>2 DEF ClearRoleParent
<1>3. ASSUME NEW r \in Roles, DeleteRole(r) PROVE TypeOK'
  <2>1. mounts' \subseteq roles' \X roles' /\ legacy' \subseteq roles' \X Roles
    BY <1>3 DEF DeleteRole, Touches, Bridge, Children, Parents
  <2>2. level' \in [Users -> [Roles -> Level \cup {"none"}]]
    BY <1>3 DEF DeleteRole
  <2>3. \A u \in Users, x \in Roles : level'[u][x] # "none" => x \in roles'
    BY <1>3 DEF DeleteRole
  <2> QED BY <1>3, <2>1, <2>2, <2>3 DEF DeleteRole
<1>4. ASSUME NEW r \in Roles, NEW p \in Roles, SetRoleParent(r, p) PROVE TypeOK'
  BY <1>4 DEF SetRoleParent
<1>5. ASSUME NEW r \in Roles, NEW p \in Roles, MountRole(r, p) PROVE TypeOK'
  BY <1>5 DEF MountRole
<1>6. ASSUME NEW r \in Roles, NEW p \in Roles, UnmountRole(r, p) PROVE TypeOK'
  BY <1>6 DEF UnmountRole
<1>7. ASSUME NEW u \in Users, NEW r \in Roles, EndMembership(u, r) PROVE TypeOK'
  BY <1>7 DEF EndMembership
<1>8. ASSUME NEW u \in Users, NEW r \in Roles, NEW l \in Level, assignUserRoleTx(u, r, l)
      PROVE  TypeOK'
  BY <1>8 DEF assignUserRoleTx
<1>9. CASE Migrate
  BY <1>9 DEF Migrate
<1>10. CASE UNCHANGED vars
  BY <1>10 DEF vars
<1> QED BY <1>1, <1>2, <1>3, <1>4, <1>5, <1>6, <1>7, <1>8, <1>9, <1>10 DEF Next

\* In every reachable state mounts, parent ids and memberships belong to roles
\* that exist.
THEOREM TypeCorrect == Spec => []TypeOK
  BY InitTypeOK, NextTypeOK, PTL DEF Spec

-----------------------------------------------------------------------------
(* The graph facts: which changes of a set of edges keep it acyclic.       *)

AcyclicIn(E, R) ==
    \A S \in SUBSET R : S # {} => \E r \in S : \A p \in S : <<r, p>> \notin E

\* Removing edges makes no cycle.
LEMMA FewerEdges ==
    ASSUME NEW R, NEW E, NEW F, F \subseteq E, AcyclicIn(E, R)
    PROVE  AcyclicIn(F, R)
  BY DEF AcyclicIn

\* A new edge from c to p closes no cycle when c is not in a set that holds p
\* and the parents of all its members.
LEMMA OneMoreEdge ==
    ASSUME NEW R, NEW E, NEW c \in R, NEW p \in R, AcyclicIn(E, R),
           NEW A \in SUBSET R, p \in A, c \notin A,
           \A x \in A, y \in R : <<x, y>> \in E => y \in A
    PROVE  AcyclicIn(E \cup {<<c, p>>}, R)
<1> SUFFICES ASSUME NEW S \in SUBSET R, S # {}
             PROVE  \E r \in S : \A q \in S : <<r, q>> \notin E \cup {<<c, p>>}
  BY DEF AcyclicIn
<1>1. CASE S \cap A = {}
  <2>1. PICK r \in S : \A q \in S : <<r, q>> \notin E
    BY DEF AcyclicIn
  <2> QED BY <1>1, <2>1
<1>2. CASE S \cap A # {}
  <2>1. PICK r \in S \cap A : \A q \in S \cap A : <<r, q>> \notin E
    BY Zenon, <1>2 DEF AcyclicIn
  <2>2. \A q \in S : <<r, q>> \notin E
    BY <2>1
  <2> QED BY <2>1, <2>2
<1> QED BY <1>1, <1>2

\* Edges from a role that nothing points to make no cycle.
LEMMA EdgesFromASource ==
    ASSUME NEW R, NEW E, NEW c \in R, NEW P \in SUBSET (R \ {c}), AcyclicIn(E, R),
           \A x \in R : <<x, c>> \notin E
    PROVE  AcyclicIn(E \cup ({c} \X P), R)
<1> SUFFICES ASSUME NEW S \in SUBSET R, S # {}
             PROVE  \E r \in S : \A q \in S : <<r, q>> \notin E \cup ({c} \X P)
  BY DEF AcyclicIn
<1>1. CASE S \subseteq {c}
  BY <1>1
<1>2. CASE ~(S \subseteq {c})
  <2>1. PICK r \in S \ {c} : \A q \in S \ {c} : <<r, q>> \notin E
    BY Zenon, <1>2 DEF AcyclicIn
  <2> QED BY <2>1
<1> QED BY <1>1, <1>2

\* Joining the children of a removed role to its parents makes no cycle.
LEMMA BridgeKeepsAcyclic ==
    ASSUME NEW R, NEW E, NEW d \in R, AcyclicIn(E, R), NEW F,
           \A x \in R, y \in R :
               <<x, y>> \in F => /\ x # d /\ y # d
                                 /\ \/ <<x, y>> \in E
                                    \/ <<x, d>> \in E /\ <<d, y>> \in E
    PROVE  AcyclicIn(F, R)
<1> SUFFICES ASSUME NEW S \in SUBSET R, S # {}
             PROVE  \E r \in S : \A q \in S : <<r, q>> \notin F
  BY DEF AcyclicIn
<1>1. CASE d \in S
  BY Zenon, <1>1
<1>2. CASE d \notin S
  <2>0. S \cup {d} \in SUBSET R /\ S \cup {d} # {}
    OBVIOUS
  <2>1. PICK r \in S \cup {d} : \A q \in S \cup {d} : <<r, q>> \notin E
    BY <2>0, Zenon DEF AcyclicIn
  <2>2. CASE r # d
    BY Zenon, <2>1, <2>2
  <2>3. CASE r = d
    <3>1. PICK t \in S : \A q \in S : <<t, q>> \notin E
      BY DEF AcyclicIn
    <3> QED BY Zenon, <2>1, <2>3, <3>1
  <2> QED BY <2>2, <2>3
<1> QED BY <1>1, <1>2

-----------------------------------------------------------------------------
(* The recursive queries as walks over any set of mounts E.  A fact about  *)
(* every walk is proved by induction over the number of mounts: the set of *)
(* numbers for which it holds has 0 and every successor.                   *)

\* The roles one mount further than those of S.
Onward(S, E) == {p \in Roles : \E c \in S : <<c, p>> \in E}

\* f[n] is what is within n mounts of r, for n up to k.
IsWalk(f, E, r, k) ==
    f = [n \in 0..k |-> IF n = 0 THEN {r} ELSE f[n - 1] \cup Onward(f[n - 1], E)]

Walk(E, r) == CHOOSE f : IsWalk(f, E, r, MaxDepth)
Reached(E, r) == {r} \cup Walk(E, r)[MaxDepth]

\* A non-empty set of naturals has a least member.
LEMMA LeastNatural ==
    ASSUME NEW T \in SUBSET Nat, T # {}
    PROVE  \E x \in T : \A y \in T : x <= y
<1>1. PICK R : R = OpToRel(<, Nat)
  BY Zenon
<1>2. IsWellFoundedOn(R, Nat)
  BY <1>1, NatLessThanWellFounded, Zenon
<1>3. PICK x \in T : \A y \in T : <<y, x>> \notin R
  BY Zenon, <1>2, WFMin
<1>4. \A y \in Nat : y < x => <<y, x>> \in R
  BY <1>1 DEF OpToRel
<1>5. ASSUME NEW y \in T PROVE x <= y
  <2>1. x \in Nat /\ y \in Nat /\ ~(y < x)
    BY Zenon, <1>3, <1>4
  <2> QED BY <2>1
<1> QED BY <1>5

\* A set with 0 and the successor of each natural it has, has them all.
LEMMA NaturalInduction ==
    ASSUME NEW S, 0 \in S, \A n \in Nat : n \in S => n + 1 \in S
    PROVE  Nat \subseteq S
<1> SUFFICES ASSUME Nat \ S # {} PROVE FALSE
  OBVIOUS
<1>1. PICK m \in Nat \ S : \A y \in Nat \ S : m <= y
  BY Zenon, LeastNatural
<1>2. m # 0 /\ m - 1 \in Nat /\ ~(m <= m - 1)
  BY <1>1
<1>3. m - 1 \in S
  BY <1>1, <1>2
<1>4. (m - 1) + 1 \in S /\ (m - 1) + 1 = m
  BY <1>2, <1>3
<1> QED BY <1>4

\* A walk can be continued for ever.
LEMMA WalkExists ==
    ASSUME NEW E, NEW r, NEW k \in Nat
    PROVE  \E f : IsWalk(f, E, r, k)
<1> DEFINE S == {n \in Nat : \E f : IsWalk(f, E, r, n)}
<1>1. 0 \in S
  <2>1. PICK f : f = [n \in 0..0 |-> {r}]
    BY Zenon
  <2>2. f = [n \in 0..0 |-> IF n = 0 THEN {r} ELSE f[n - 1] \cup Onward(f[n - 1], E)]
    BY <2>1
  <2>3. IsWalk(f, E, r, 0)
    BY <2>2 DEF IsWalk
  <2> QED BY <2>3
<1>2. ASSUME NEW n \in Nat, n \in S PROVE n + 1 \in S
  <2>1. PICK f : IsWalk(f, E, r, n)
    BY <1>2
  <2>2. PICK g : g = [m \in 0..(n + 1) |-> IF m = n + 1 THEN f[n] \cup Onward(f[n], E) ELSE f[m]]
    BY Zenon
  <2>3. \A m \in 0..n : f[m] = IF m = 0 THEN {r} ELSE f[m - 1] \cup Onward(f[m - 1], E)
    BY Zenon, <2>1 DEF IsWalk
  <2>4. \A m \in 0..n : g[m] = f[m]
    BY <2>2
  <2>5. ASSUME NEW m \in 0..(n + 1)
        PROVE  g[m] = IF m = 0 THEN {r} ELSE g[m - 1] \cup Onward(g[m - 1], E)
    <3>1. CASE m = 0
      <4>1. 0 \in 0..n
        OBVIOUS
      <4> QED BY Zenon, <2>3, <2>4, <3>1, <4>1
    <3>2. CASE m \in 1..n
      <4>1. m \in 0..n /\ m - 1 \in 0..n /\ m # 0
        BY <3>2
      <4>2. g[m] = f[m] /\ g[m - 1] = f[m - 1]
        BY <2>4, <4>1
      <4> QED BY Zenon, <2>3, <4>1, <4>2
    <3>3. CASE m = n + 1
      <4>1. m - 1 = n /\ n \in 0..n /\ m # 0
        BY <3>3
      <4>2. g[m] = f[n] \cup Onward(f[n], E) /\ g[n] = f[n]
        BY <2>2, <2>4, <3>3, <4>1
      <4> QED BY <4>1, <4>2
    <3> QED BY <3>1, <3>2, <3>3
  <2>6. g = [m \in 0..(n + 1) |-> IF m = 0 THEN {r} ELSE g[m - 1] \cup Onward(g[m - 1], E)]
    <3> DEFINE h == [m \in 0..(n + 1) |-> IF m = 0 THEN {r} ELSE g[m - 1] \cup Onward(g[m - 1], E)]
    <3>1. \A m \in 0..(n + 1) : g[m] = h[m]
      BY Zenon, <2>5
    <3> HIDE DEF h
    <3>2. g = h
      BY Zenon, <2>2, <3>1 DEF h
    <3> QED BY Zenon, <3>2 DEF h
  <2>7. IsWalk(g, E, r, n + 1)
    BY Zenon, <2>6 DEF IsWalk
  <2> QED BY <2>7
<1>3. Nat \subseteq S
  <2> HIDE DEF S
  <2> QED BY <1>1, <1>2, NaturalInduction
<1> QED BY <1>3

\* So the walk that the queries choose is one.
LEMMA WalkIsWalk ==
    ASSUME NEW E, NEW r PROVE IsWalk(Walk(E, r), E, r, MaxDepth)
  BY WalkExists, DepthAssumption, Zenon DEF Walk

\* What a walk has reached after n mounts.
LEMMA WalkUnfolds ==
    ASSUME NEW E, NEW r, NEW f, IsWalk(f, E, r, MaxDepth)
    PROVE  /\ f[0] = {r}
           /\ \A n \in Nat : n + 1 <= MaxDepth => f[n + 1] = f[n] \cup Onward(f[n], E)
<1>1. \A n \in 0..MaxDepth : f[n] = IF n = 0 THEN {r} ELSE f[n - 1] \cup Onward(f[n - 1], E)
  BY Zenon DEF IsWalk
<1>2. f[0] = {r}
  <2>1. 0 \in 0..MaxDepth
    BY DepthAssumption
  <2> QED BY Zenon, <1>1, <2>1
<1>3. ASSUME NEW n \in Nat, n + 1 <= MaxDepth PROVE f[n + 1] = f[n] \cup Onward(f[n], E)
  <2>1. n + 1 \in 0..MaxDepth /\ n + 1 # 0 /\ (n + 1) - 1 = n
    BY <1>3, DepthAssumption
  <2> QED BY Zenon, <1>1, <2>1
<1> QED BY <1>2, <1>3

\* The queries of the model are walks.
LEMMA AboveReached == ASSUME NEW r PROVE Above(r) = Reached(mounts, r)
  BY Zenon DEF Above, Reached, Walk, IsWalk, Parents, Onward

\* The same after a step.
LEMMA AboveReachedNext == ASSUME NEW r PROVE Above(r)' = Reached(mounts', r)
  BY Zenon DEF Above, Reached, Walk, IsWalk, Parents, Onward

\* The mounts read from the parent to the child.
Flip(E) == {e \in Roles \X Roles : <<e[2], e[1]>> \in E}

\* The query for the role list walks the mounts the other way.
LEMMA BelowWalk ==
    ASSUME NEW r, mounts \subseteq Roles \X Roles
    PROVE  \E f : IsWalk(f, Flip(mounts), r, MaxDepth) /\ Below(r) = {r} \cup f[MaxDepth]
<1> DEFINE Down(f) == f = [n \in 0..MaxDepth |-> IF n = 0 THEN {r}
                              ELSE LET reached == f[n - 1] IN reached \cup Children(reached)]
<1>1. \A S : Children(S) = Onward(S, Flip(mounts))
  BY Zenon DEF Children, Onward, Flip
<1>2. \A f : IsWalk(f, Flip(mounts), r, MaxDepth) <=> Down(f)
  BY <1>1 DEF IsWalk
<1>3. \E f : Down(f)
  BY Zenon, <1>2, WalkExists, DepthAssumption
<1>4. Down(CHOOSE f : Down(f))
  BY <1>3, Zenon
<1>5. Below(r) = {r} \cup (CHOOSE f : Down(f))[MaxDepth]
  BY Zenon DEF Below
<1> QED BY <1>2, <1>4, <1>5, Zenon

-----------------------------------------------------------------------------

\* A walk stays in every set that holds its start and what follows each member.
LEMMA WalkLeast ==
    ASSUME NEW E, NEW r, NEW f, IsWalk(f, E, r, MaxDepth),
           NEW C, r \in C, Onward(C, E) \subseteq C
    PROVE  \A n \in 0..MaxDepth : f[n] \subseteq C
<1> DEFINE S == {n \in Nat : n <= MaxDepth => f[n] \subseteq C}
<1>1. 0 \in S
  BY WalkUnfolds
<1>2. ASSUME NEW n \in Nat, n \in S PROVE n + 1 \in S
  <2> SUFFICES ASSUME n + 1 <= MaxDepth PROVE f[n + 1] \subseteq C
    OBVIOUS
  <2>1. f[n] \subseteq C
    BY <1>2, DepthAssumption
  <2>2. Onward(f[n], E) \subseteq C
    BY Zenon, <2>1 DEF Onward
  <2> QED BY <2>1, <2>2, WalkUnfolds
<1>3. Nat \subseteq S
  <2> HIDE DEF S
  <2> QED BY <1>1, <1>2, NaturalInduction
<1> QED BY <1>3, DepthAssumption

\* A walk forgets nothing.
LEMMA WalkGrows ==
    ASSUME NEW E, NEW r, NEW f, IsWalk(f, E, r, MaxDepth), NEW n \in Nat, NEW m \in Nat,
           n + m <= MaxDepth
    PROVE  f[n] \subseteq f[n + m]
<1> DEFINE S == {i \in Nat : n + i <= MaxDepth => f[n] \subseteq f[n + i]}
<1>1. 0 \in S
  OBVIOUS
<1>2. ASSUME NEW i \in Nat, i \in S PROVE i + 1 \in S
  <2> SUFFICES ASSUME n + (i + 1) <= MaxDepth PROVE f[n] \subseteq f[n + (i + 1)]
    OBVIOUS
  <2>1. n + (i + 1) = (n + i) + 1 /\ n + i \in Nat /\ n + i <= MaxDepth
    BY DepthAssumption
  <2>2. f[n] \subseteq f[n + i]
    BY <1>2, <2>1
  <2>3. f[(n + i) + 1] = f[n + i] \cup Onward(f[n + i], E)
    BY <2>1, WalkUnfolds
  <2> QED BY <2>1, <2>2, <2>3
<1>3. Nat \subseteq S
  <2> HIDE DEF S
  <2> QED BY <1>1, <1>2, NaturalInduction
<1> QED BY <1>3

\* There is one walk from a role.
LEMMA WalkUnique ==
    ASSUME NEW E, NEW r, NEW f, IsWalk(f, E, r, MaxDepth), NEW g, IsWalk(g, E, r, MaxDepth)
    PROVE  f[MaxDepth] = g[MaxDepth]
<1> DEFINE S == {n \in Nat : n <= MaxDepth => f[n] = g[n]}
<1>0. /\ f[0] = {r} /\ g[0] = {r}
      /\ \A n \in Nat : n + 1 <= MaxDepth => f[n + 1] = f[n] \cup Onward(f[n], E)
      /\ \A n \in Nat : n + 1 <= MaxDepth => g[n + 1] = g[n] \cup Onward(g[n], E)
  <2>1. f[0] = {r} /\ \A n \in Nat : n + 1 <= MaxDepth => f[n + 1] = f[n] \cup Onward(f[n], E)
    BY WalkUnfolds
  <2>2. g[0] = {r} /\ \A n \in Nat : n + 1 <= MaxDepth => g[n + 1] = g[n] \cup Onward(g[n], E)
    BY WalkUnfolds
  <2> QED BY <2>1, <2>2
<1>1. 0 \in S
  BY <1>0
<1>2. ASSUME NEW n \in Nat, n \in S PROVE n + 1 \in S
  <2> SUFFICES ASSUME n + 1 <= MaxDepth PROVE f[n + 1] = g[n + 1]
    OBVIOUS
  <2>1. f[n] = g[n]
    BY <1>2, DepthAssumption
  <2> QED BY Zenon, <1>0, <2>1
<1>3. Nat \subseteq S
  <2> HIDE DEF S
  <2> QED BY <1>1, <1>2, NaturalInduction
<1> QED BY <1>3, DepthAssumption

\* So do the roles that a query reaches.
LEMMA ReachedLeast ==
    ASSUME NEW E, NEW r, NEW C, r \in C, Onward(C, E) \subseteq C
    PROVE  Reached(E, r) \subseteq C
  <1>1. Walk(E, r)[MaxDepth] \subseteq C
    BY WalkIsWalk, WalkLeast, DepthAssumption
  <1> QED BY <1>1 DEF Reached

\* With at most MaxDepth + 1 roles a walk has reached everything it can.
LEMMA WalkCloses ==
    ASSUME NEW E, NEW r \in Roles, NEW f, IsWalk(f, E, r, MaxDepth),
           IsFiniteSet(Roles), Cardinality(Roles) <= MaxDepth + 1
    PROVE  Onward(f[MaxDepth], E) \subseteq f[MaxDepth]
<1> SUFFICES ASSUME ~(Onward(f[MaxDepth], E) \subseteq f[MaxDepth]) PROVE FALSE
  OBVIOUS
<1> USE DepthAssumption
<1>0. \A n \in 0..MaxDepth : /\ f[n] \subseteq Roles /\ IsFiniteSet(f[n])
                             /\ Cardinality(f[n]) \in Nat
  <2>1. Onward(Roles, E) \subseteq Roles
    BY DEF Onward
  <2>2. \A n \in 0..MaxDepth : f[n] \subseteq Roles
    BY <2>1, WalkLeast
  <2> QED BY <2>2, FS_Subset, FS_CardinalityType
<1>1. ASSUME NEW n \in Nat, n <= MaxDepth PROVE ~(Onward(f[n], E) \subseteq f[n])
  <2> SUFFICES ASSUME Onward(f[n], E) \subseteq f[n] PROVE FALSE
    OBVIOUS
  <2>1. MaxDepth - n \in Nat /\ n + (MaxDepth - n) = MaxDepth
    BY <1>1
  <2>2. f[n] \subseteq f[MaxDepth]
    BY <2>1, WalkGrows
  <2>3. r \in f[n]
    <3>1. f[0] \subseteq f[0 + n]
      BY <1>1, WalkGrows
    <3> QED BY <3>1, WalkUnfolds
  <2>4. f[MaxDepth] \subseteq f[n]
    BY <2>3, WalkLeast
  <2> QED BY Zenon, <2>2, <2>4 DEF Onward
<1> DEFINE S == {n \in Nat : n <= MaxDepth => Cardinality(f[n]) >= n + 1}
<1>2. 0 \in S
  <2>1. f[0] = {r}
    BY WalkUnfolds
  <2>2. Cardinality({r}) = 1
    BY Zenon, FS_Singleton
  <2> QED BY <2>1, <2>2
<1>3. ASSUME NEW n \in Nat, n \in S PROVE n + 1 \in S
  <2> SUFFICES ASSUME n + 1 <= MaxDepth PROVE Cardinality(f[n + 1]) >= (n + 1) + 1
    OBVIOUS
  <2>1. Cardinality(f[n]) >= n + 1 /\ n \in 0..MaxDepth /\ n + 1 \in 0..MaxDepth
    BY <1>3
  <2>2. f[n + 1] = f[n] \cup Onward(f[n], E) /\ ~(Onward(f[n], E) \subseteq f[n])
    BY <1>1, WalkUnfolds
  <2>3. f[n] \in SUBSET f[n + 1] /\ f[n] # f[n + 1]
    BY <2>2
  <2>4. Cardinality(f[n]) <= Cardinality(f[n + 1]) /\ Cardinality(f[n]) # Cardinality(f[n + 1])
    BY <1>0, <2>1, <2>3, FS_Subset
  <2>5. Cardinality(f[n]) \in Nat /\ Cardinality(f[n + 1]) \in Nat
    BY <1>0, <2>1
  <2> QED BY <2>1, <2>4, <2>5
<1>4. Cardinality(f[MaxDepth]) >= MaxDepth + 1
  <2>1. Nat \subseteq S
    <3> HIDE DEF S
    <3> QED BY <1>2, <1>3, NaturalInduction
  <2> QED BY <2>1
<1>5. f[MaxDepth] \in SUBSET Roles /\ f[MaxDepth] # Roles
  BY <1>0 DEF Onward
<1>6. /\ Cardinality(f[MaxDepth]) <= Cardinality(Roles)
      /\ Cardinality(f[MaxDepth]) # Cardinality(Roles)
      /\ Cardinality(f[MaxDepth]) \in Nat /\ Cardinality(Roles) \in Nat
  BY <1>0, <1>5, FS_Subset, FS_CardinalityType
<1> QED BY <1>4, <1>6

\* A walk of n + 1 mounts is a walk of n mounts, from the start or from a role
\* that follows it.
LEMMA WalkFromTheFront ==
    ASSUME NEW E, NEW n \in Nat, n + 1 <= MaxDepth
    PROVE  \A r \in Roles : \A x : x \in Walk(E, r)[n + 1] <=>
               \/ x \in Walk(E, r)[n]
               \/ \E c \in Roles : <<r, c>> \in E /\ x \in Walk(E, c)[n]
<1> DEFINE Front(i) == \A r \in Roles : \A x : x \in Walk(E, r)[i + 1] <=>
               \/ x \in Walk(E, r)[i]
               \/ \E c \in Roles : <<r, c>> \in E /\ x \in Walk(E, c)[i]
           S == {i \in Nat : i + 1 <= MaxDepth => Front(i)}
<1>0. \A r \in Roles : /\ Walk(E, r)[0] = {r}
                       /\ \A i \in Nat : i + 1 <= MaxDepth =>
                             Walk(E, r)[i + 1] = Walk(E, r)[i] \cup Onward(Walk(E, r)[i], E)
  BY WalkIsWalk, WalkUnfolds
<1>1. 0 \in S
  <2> SUFFICES ASSUME 0 + 1 <= MaxDepth, NEW r \in Roles, NEW x
               PROVE  x \in Walk(E, r)[0 + 1] <=>
                        \/ x \in Walk(E, r)[0]
                        \/ \E c \in Roles : <<r, c>> \in E /\ x \in Walk(E, c)[0]
    BY Zenon
  <2>1. Walk(E, r)[0 + 1] = Walk(E, r)[0] \cup Onward(Walk(E, r)[0], E)
    BY <1>0
  <2>2. x \in Onward({r}, E) <=> x \in Roles /\ <<r, x>> \in E
    BY DEF Onward
  <2>3. (\E c \in Roles : <<r, c>> \in E /\ x \in Walk(E, c)[0]) <=> x \in Roles /\ <<r, x>> \in E
    BY Zenon, <1>0
  <2>4. Walk(E, r)[0] = {r}
    BY <1>0
  <2> QED BY Zenon, <2>1, <2>2, <2>3, <2>4
<1>2. ASSUME NEW i \in Nat, i \in S PROVE i + 1 \in S
  <2>0. i + 1 \in Nat
    BY Zenon, NextNumber
  <2> SUFFICES ASSUME (i + 1) + 1 <= MaxDepth, NEW r \in Roles, NEW x
               PROVE  x \in Walk(E, r)[(i + 1) + 1] <=>
                        \/ x \in Walk(E, r)[i + 1]
                        \/ \E c \in Roles : <<r, c>> \in E /\ x \in Walk(E, c)[i + 1]
    BY Zenon, <2>0
  <2>1. i + 1 \in Nat /\ i + 1 <= MaxDepth /\ Front(i)
    BY <1>2, DepthAssumption
  <2>2. \A q \in Roles : /\ Walk(E, q)[(i + 1) + 1] = Walk(E, q)[i + 1] \cup Onward(Walk(E, q)[i + 1], E)
                         /\ Walk(E, q)[i + 1] = Walk(E, q)[i] \cup Onward(Walk(E, q)[i], E)
    BY <1>0, <2>1
  <2>3. ASSUME x \in Walk(E, r)[(i + 1) + 1], x \notin Walk(E, r)[i + 1]
        PROVE  \E c \in Roles : <<r, c>> \in E /\ x \in Walk(E, c)[i + 1]
    <3>1. PICK y \in Walk(E, r)[i + 1] : x \in Roles /\ <<y, x>> \in E
      BY <2>2, <2>3 DEF Onward
    <3>2. y \notin Walk(E, r)[i]
      BY <2>2, <2>3, <3>1 DEF Onward
    <3>3. PICK c \in Roles : <<r, c>> \in E /\ y \in Walk(E, c)[i]
      BY <2>1, <3>1, <3>2
    <3>4. x \in Walk(E, c)[i + 1]
      BY Zenon, <2>2, <3>1, <3>3 DEF Onward
    <3> QED BY <3>3, <3>4
  <2>4. ASSUME NEW c \in Roles, <<r, c>> \in E, x \in Walk(E, c)[i + 1]
        PROVE  x \in Walk(E, r)[(i + 1) + 1]
    <3>1. CASE x \in Walk(E, c)[i]
      BY <2>1, <2>2, <2>4, <3>1
    <3>2. CASE x \notin Walk(E, c)[i]
      <4>1. PICK y \in Walk(E, c)[i] : x \in Roles /\ <<y, x>> \in E
        BY <2>2, <2>4, <3>2 DEF Onward
      <4>2. y \in Walk(E, r)[i + 1]
        BY <2>1, <2>4, <4>1
      <4> QED BY <2>2, <4>1, <4>2 DEF Onward
    <3> QED BY <3>1, <3>2
  <2> QED BY Zenon, <2>2, <2>3, <2>4
<1>3. Nat \subseteq S
  <2> HIDE DEF S
  <2> QED BY <1>1, <1>2, NaturalInduction
<1>4. n \in S
  BY Zenon, <1>3
<1> QED BY Zenon, <1>4

\* Walking up from r meets m exactly if walking down from m meets r.
LEMMA WalksMirror ==
    ASSUME NEW E, NEW r \in Roles, NEW m \in Roles
    PROVE  m \in Reached(E, r) <=> r \in Reached(Flip(E), m)
<1> USE DepthAssumption
<1> DEFINE Mirror(n) == \A x \in Roles, y \in Roles :
                y \in Walk(E, x)[n] <=> x \in Walk(Flip(E), y)[n]
           S == {n \in Nat : n <= MaxDepth => Mirror(n)}
<1>1. 0 \in S
  BY WalkIsWalk, WalkUnfolds
<1>2. ASSUME NEW n \in Nat, n \in S PROVE n + 1 \in S
  <2> SUFFICES ASSUME n + 1 <= MaxDepth, NEW x \in Roles, NEW y \in Roles
               PROVE  y \in Walk(E, x)[n + 1] <=> x \in Walk(Flip(E), y)[n + 1]
    OBVIOUS
  <2>1. Mirror(n)
    BY <1>2
  <2>2. y \in Walk(E, x)[n + 1] <=>
            \/ y \in Walk(E, x)[n]
            \/ \E c \in Roles : <<x, c>> \in E /\ y \in Walk(E, c)[n]
    BY Zenon, WalkFromTheFront
  <2>3. Walk(Flip(E), y)[n + 1] = Walk(Flip(E), y)[n] \cup Onward(Walk(Flip(E), y)[n], Flip(E))
    BY WalkIsWalk, WalkUnfolds
  <2>4. Walk(Flip(E), y)[n] \subseteq Roles
    <3>1. Onward(Roles, Flip(E)) \subseteq Roles
      BY DEF Onward
    <3> QED BY <3>1, WalkIsWalk, WalkLeast
  <2>5. x \in Onward(Walk(Flip(E), y)[n], Flip(E)) <=>
            \E c \in Roles : c \in Walk(Flip(E), y)[n] /\ <<x, c>> \in E
    BY Zenon, <2>4 DEF Onward, Flip
  <2> QED BY Zenon, <2>1, <2>2, <2>3, <2>5
<1>3. Nat \subseteq S
  <2> HIDE DEF S
  <2> QED BY <1>1, <1>2, NaturalInduction
<1>4. m \in Walk(E, r)[MaxDepth] <=> r \in Walk(Flip(E), m)[MaxDepth]
  BY <1>3
<1> QED BY <1>4 DEF Reached

-----------------------------------------------------------------------------

\* A membership in m covers r upwards exactly if it does downwards.
LEMMA AboveMirrorsBelow ==
    ASSUME mounts \subseteq Roles \X Roles, NEW r \in Roles, NEW m \in Roles
    PROVE  m \in Above(r) <=> r \in Below(m)
<1>1. PICK f : IsWalk(f, Flip(mounts), m, MaxDepth) /\ Below(m) = {m} \cup f[MaxDepth]
  BY BelowWalk
<1>2. f[MaxDepth] = Walk(Flip(mounts), m)[MaxDepth]
  BY <1>1, WalkIsWalk, WalkUnique
<1>3. Below(m) = Reached(Flip(mounts), m)
  BY <1>1, <1>2 DEF Reached
<1>4. Above(r) = Reached(mounts, r)
  BY AboveReached
<1> QED BY <1>3, <1>4, WalksMirror

\* The role list shows roles that exist.
LEMMA BelowStaysInside ==
    ASSUME TypeOK, NEW m \in roles
    PROVE  Below(m) \subseteq roles
<1>0. mounts \subseteq Roles \X Roles /\ m \in Roles
  BY DEF TypeOK
<1>1. PICK f : IsWalk(f, Flip(mounts), m, MaxDepth) /\ Below(m) = {m} \cup f[MaxDepth]
  BY <1>0, BelowWalk
<1>2. Onward(roles, Flip(mounts)) \subseteq roles
  BY Zenon DEF Onward, Flip, TypeOK
<1>3. f[MaxDepth] \subseteq roles
  BY <1>1, <1>2, WalkLeast, DepthAssumption
<1> QED BY <1>1, <1>3

\* A role is above itself.
LEMMA AboveStaysInside ==
    ASSUME NEW r \in Roles
    PROVE  Above(r) \subseteq Roles /\ r \in Above(r)
<1>1. Onward(Roles, mounts) \subseteq Roles
  BY DEF Onward
<1>2. Reached(mounts, r) \subseteq Roles
  BY <1>1, ReachedLeast
<1> QED BY <1>2, AboveReached DEF Reached

\* The two views agree on every hierarchy, deeper ones than the queries follow
\* and cyclic ones included.
LEMMA ViewsAgree == TypeOK => AccessViewsAgree
<1> SUFFICES ASSUME TypeOK, NEW u \in Users
             PROVE  /\ ListedAccess(u) = {r \in roles : HasEffectiveRole(u, r)}
                    /\ ListedManage(u) = {r \in roles : IsEffectiveRoleAdmin(u, r)}
  BY DEF AccessViewsAgree
<1>0. /\ mounts \subseteq Roles \X Roles /\ roles \subseteq Roles
      /\ \A r \in Roles : level[u][r] # "none" => r \in roles
      /\ \A r \in Roles : level[u][r] \in Level \cup {"none"}
  BY DEF TypeOK
<1>1. \A r \in Roles, m \in Roles : m \in Above(r) <=> r \in Below(m)
  BY <1>0, AboveMirrorsBelow
<1>2. \A m \in Roles : level[u][m] # "none" => Below(m) \subseteq roles
  BY <1>0, BelowStaysInside
<1>3. \A r \in Roles : Above(r) \subseteq Roles /\ r \in Above(r)
  BY AboveStaysInside
<1>4. ASSUME NEW r \in Roles
      PROVE  /\ r \in ListedAccess(u) <=> r \in roles /\ HasEffectiveRole(u, r)
             /\ r \in ListedManage(u) <=> r \in roles /\ IsEffectiveRoleAdmin(u, r)
  <2>1. \A m : m \in InheritedFrom(u, r) <=>
            /\ m \in Roles /\ level[u][m] # "none"
            /\ m = r \/ (Inherits(level[u][m]) /\ m \in Above(r))
    BY <1>1 DEF InheritedFrom
  <2>2. \A m \in InheritedFrom(u, r) : m \in Above(r) /\ r \in roles
    BY <1>0, <1>1, <1>2, <1>3, <2>1
  <2>3. r \in ListedAccess(u) <=> \E m : m \in InheritedFrom(u, r)
    BY DEF ListedAccess
  <2>4. HasEffectiveRole(u, r) <=> \E m : m \in InheritedFrom(u, r)
    BY <1>3, <2>1, <2>2 DEF HasEffectiveRole
  <2>5. r \in ListedManage(u) <=> \E m \in InheritedFrom(u, r) : level[u][m] = "role_admin"
    BY DEF ListedManage
  <2>6. \A m \in Above(r) : level[u][m] = "role_admin" => m \in InheritedFrom(u, r)
    BY <1>3, <2>1 DEF Inherits
  <2>7. IsEffectiveRoleAdmin(u, r) <=> \E m \in InheritedFrom(u, r) : level[u][m] = "role_admin"
    BY <2>2, <2>6 DEF IsEffectiveRoleAdmin
  <2> QED BY <2>2, <2>3, <2>4, <2>5, <2>7
<1>5. ListedAccess(u) \subseteq Roles /\ ListedManage(u) \subseteq Roles
  BY DEF ListedAccess, ListedManage
<1> QED BY <1>0, <1>4, <1>5

\* With few enough roles no chain is too long.
LEMMA ShallowWalksComplete ==
    ASSUME IsFiniteSet(Roles), Cardinality(Roles) <= MaxDepth + 1
    PROVE  WalksComplete
<1> SUFFICES ASSUME NEW r \in Roles PROVE Parents(Above(r)) \subseteq Above(r)
  BY DEF WalksComplete
<1> DEFINE f == Walk(mounts, r)
<1>1. IsWalk(f, mounts, r, MaxDepth)
  BY WalkIsWalk
<1>2. Onward(f[MaxDepth], mounts) \subseteq f[MaxDepth]
  BY <1>1, WalkCloses
<1>3. r \in f[MaxDepth]
  <2>1. f[0] \subseteq f[0 + MaxDepth] /\ 0 + MaxDepth = MaxDepth
    BY <1>1, WalkGrows, DepthAssumption
  <2> QED BY <1>1, <2>1, WalkUnfolds
<1>4. Above(r) = f[MaxDepth]
  BY <1>3, AboveReached DEF Reached
<1> QED BY Zenon, <1>2, <1>4 DEF Parents, Onward

\* What deleting r does to the edges, and where x is before and after it.
LEMMA DeletedEdges ==
    ASSUME TypeOK, NEW r \in Roles, DeleteRole(r), NEW x \in roles'
    PROVE  /\ x \in Roles /\ x # r
           /\ \A y, z : <<y, z>> \in mounts' <=>
                  /\ y # r /\ z # r
                  /\ \/ <<y, z>> \in mounts
                     \/ <<y, r>> \in mounts /\ <<r, z>> \in mounts
<1>1. /\ r \in roles /\ x \in Roles /\ x # r
      /\ mounts \subseteq roles \X roles /\ roles \subseteq Roles
      /\ mounts' = {m \in mounts \cup Bridge(r) : ~Touches(r, m)}
  BY DEF DeleteRole, TypeOK
<1> QED BY <1>1 DEF Bridge, Touches, Children, Parents

\* Whatever a walk reaches from x, it reaches as soon when r is deleted: where
\* it passed r, it now goes from a child of r to a parent of r.
LEMMA DeleteLosesNothing ==
    ASSUME TypeOK, NEW r \in Roles, DeleteRole(r), NEW x \in roles'
    PROVE  Above(x) \ {r} \subseteq Above(x)'
<1>0. /\ x \in Roles /\ x # r
      /\ \A y, z : <<y, z>> \in mounts' <=>
             /\ y # r /\ z # r
             /\ \/ <<y, z>> \in mounts
                \/ <<y, r>> \in mounts /\ <<r, z>> \in mounts
  BY Zenon, DeletedEdges
<1>1. PICK f : f = Walk(mounts, x)
  BY Zenon
<1>2. PICK g : g = Walk(mounts', x)
  BY Zenon
<1>3. IsWalk(f, mounts, x, MaxDepth) /\ IsWalk(g, mounts', x, MaxDepth)
  BY Zenon, <1>1, <1>2, WalkIsWalk
<1>4. /\ f[0] = {x}
      /\ \A n \in Nat : n + 1 <= MaxDepth => f[n + 1] = f[n] \cup Onward(f[n], mounts)
  BY Zenon, <1>3, WalkUnfolds
<1>5. /\ g[0] = {x}
      /\ \A n \in Nat : n + 1 <= MaxDepth => g[n + 1] = g[n] \cup Onward(g[n], mounts')
  BY Zenon, <1>3, WalkUnfolds
<1> DEFINE Kept(n) == /\ f[n] \ {r} \subseteq g[n]
                      /\ r \in f[n] => \A z \in Roles \ {r} : <<r, z>> \in mounts => z \in g[n]
           S == {n \in Nat : n <= MaxDepth => Kept(n)}
<1>6. 0 \in S
  BY <1>0, <1>4, <1>5
<1>7. ASSUME NEW n \in Nat, n \in S PROVE n + 1 \in S
  <2> SUFFICES ASSUME n + 1 <= MaxDepth PROVE Kept(n + 1)
    OBVIOUS
  <2>1. n <= MaxDepth
    BY DepthAssumption
  <2>2. Kept(n)
    BY <1>7, <2>1
  <2>3. /\ f[n + 1] = f[n] \cup Onward(f[n], mounts)
        /\ g[n + 1] = g[n] \cup Onward(g[n], mounts')
    BY <1>4, <1>5
  <2>4. ASSUME NEW y \in f[n + 1], y # r PROVE y \in g[n + 1]
    <3>1. CASE y \in f[n]
      BY <2>2, <2>3, <2>4, <3>1
    <3>2. CASE y \in Onward(f[n], mounts)
      <4>1. y \in Roles /\ \E c \in f[n] : <<c, y>> \in mounts
        BY Zenon, <3>2 DEF Onward
      <4>2. PICK c \in f[n] : <<c, y>> \in mounts
        BY <4>1
      <4>3. CASE c = r
        BY Zenon, <2>2, <2>3, <2>4, <4>1, <4>2, <4>3
      <4>4. CASE c # r
        <5>1. c \in g[n] /\ <<c, y>> \in mounts'
          BY Zenon, <1>0, <2>2, <2>4, <4>2, <4>4
        <5> QED BY Zenon, <2>3, <4>1, <5>1 DEF Onward
      <4> QED BY <4>3, <4>4
    <3> QED BY Zenon, <2>3, <2>4, <3>1, <3>2
  <2>5. ASSUME r \in f[n + 1], NEW z \in Roles \ {r}, <<r, z>> \in mounts
        PROVE  z \in g[n + 1]
    <3>1. CASE r \in f[n]
      BY <2>2, <2>3, <2>5, <3>1
    <3>2. CASE r \notin f[n]
      <4>1. PICK c \in f[n] : <<c, r>> \in mounts
        BY Zenon, <2>3, <2>5, <3>2 DEF Onward
      <4>2. c # r /\ c \in g[n]
        BY <2>2, <3>2, <4>1
      <4>3. <<c, z>> \in mounts'
        BY Zenon, <1>0, <2>5, <4>1, <4>2
      <4> QED BY Zenon, <2>3, <2>5, <4>2, <4>3 DEF Onward
    <3> QED BY <3>1, <3>2
  <2> QED BY <2>4, <2>5
<1>8. Kept(MaxDepth)
  <2>1. Nat \subseteq S
    <3> HIDE DEF S
    <3> QED BY <1>6, <1>7, NaturalInduction
  <2> QED BY <2>1, DepthAssumption
<1>9. Above(x) = {x} \cup f[MaxDepth] /\ Above(x)' = {x} \cup g[MaxDepth]
  BY Zenon, <1>1, <1>2, AboveReached, AboveReachedNext DEF Reached
<1> QED BY <1>8, <1>9

\* And where the walks were complete, it reaches nothing more.
LEMMA DeleteAddsNothing ==
    ASSUME TypeOK, WalksComplete, NEW r \in Roles, DeleteRole(r), NEW x \in roles'
    PROVE  Above(x)' \subseteq Above(x) \ {r}
<1>0. /\ x \in Roles /\ x # r
      /\ \A y, z : <<y, z>> \in mounts' <=>
             /\ y # r /\ z # r
             /\ \/ <<y, z>> \in mounts
                \/ <<y, r>> \in mounts /\ <<r, z>> \in mounts
  BY Zenon, DeletedEdges
<1>1. Above(x)' = Reached(mounts', x) /\ x \in Above(x)
  BY Zenon, AboveReached, AboveReachedNext DEF Reached
<1>2. \A y \in Above(x), z \in Roles : <<y, z>> \in mounts => z \in Above(x)
  BY <1>0 DEF WalksComplete, Parents
<1>3. Onward(Above(x) \ {r}, mounts') \subseteq Above(x) \ {r}
  BY Zenon, <1>0, <1>2 DEF Onward
<1> QED BY <1>0, <1>1, <1>3, ReachedLeast

-----------------------------------------------------------------------------

\* Every write keeps the hierarchy acyclic when no legacy edge is missing: the
\* cycle check of a mount looks at all ancestors of the parent when its walk is
\* complete.
LEMMA NextAcyclic ==
    TypeOK /\ legacy \subseteq mounts /\ Acyclic /\ WalksComplete /\ [Next]_vars => Acyclic'
<1> SUFFICES ASSUME TypeOK, legacy \subseteq mounts, Acyclic, WalksComplete, [Next]_vars
             PROVE  Acyclic'
  OBVIOUS
<1>0. AcyclicIn(mounts, Roles) /\ (AcyclicIn(mounts', Roles) => Acyclic')
  BY DEF Acyclic, AcyclicIn
<1>a. ASSUME NEW r \in Roles, NEW p \in Roles, MakesNoCycle(r, p)
      PROVE  AcyclicIn(mounts \cup {<<r, p>>}, Roles)
  <2> PICK A : A = Above(p) \cap Roles
    BY Zenon
  <2>1. A \in SUBSET Roles /\ p \in A /\ r \notin A
    BY <1>a DEF MakesNoCycle, Above
  <2>2. \A x \in A, y \in Roles : <<x, y>> \in mounts => y \in A
    BY DEF WalksComplete, Parents
  <2> QED BY <1>0, <2>1, <2>2, OneMoreEdge
<1>1. ASSUME NEW r \in Roles \ roles, NEW ps \in SUBSET roles, CreateRoleWithParents(r, ps)
      PROVE  Acyclic'
  <2>1. \A x \in Roles : <<x, r>> \notin mounts
    BY DEF TypeOK
  <2>2. ps \in SUBSET (Roles \ {r})
    BY DEF TypeOK
  <2>3. AcyclicIn(mounts \cup ({r} \X ps), Roles)
    BY <1>0, <2>1, <2>2, EdgesFromASource
  <2> QED BY <1>0, <1>1, <2>3 DEF CreateRoleWithParents
<1>2. ASSUME NEW r \in Roles, ClearRoleParent(r) PROVE Acyclic'
  <2>1. mounts' \subseteq mounts
    BY <1>2 DEF ClearRoleParent
  <2> QED BY <1>0, <1>2, <2>1, FewerEdges DEF ClearRoleParent
<1>3. ASSUME NEW r \in Roles, DeleteRole(r) PROVE Acyclic'
  <2>1. \A x \in Roles, y \in Roles :
            <<x, y>> \in mounts' => /\ x # r /\ y # r
                                    /\ \/ <<x, y>> \in mounts
                                       \/ <<x, r>> \in mounts /\ <<r, y>> \in mounts
    BY <1>3 DEF DeleteRole, Touches, Bridge, Children, Parents
  <2>2. AcyclicIn(mounts', Roles)
    BY <1>0, <2>1, BridgeKeepsAcyclic
  <2> QED BY <1>0, <1>3, <2>2 DEF DeleteRole
<1>4. ASSUME NEW r \in Roles, NEW p \in Roles, SetRoleParent(r, p)
      PROVE  Acyclic'
  <2>1. mounts' \subseteq mounts \cup {<<r, p>>}
    BY <1>4 DEF SetRoleParent
  <2>2. AcyclicIn(mounts \cup {<<r, p>>}, Roles)
    BY <1>4, <1>a DEF SetRoleParent
  <2> QED BY <1>0, <1>4, <2>1, <2>2, FewerEdges DEF SetRoleParent
<1>5. ASSUME NEW r \in Roles, NEW p \in Roles, MountRole(r, p)
      PROVE  Acyclic'
  BY <1>0, <1>5, <1>a DEF MountRole
<1>6. ASSUME NEW r \in Roles, NEW p \in Roles, UnmountRole(r, p)
      PROVE  Acyclic'
  <2>1. mounts' \subseteq mounts
    BY <1>6 DEF UnmountRole
  <2> QED BY <1>0, <1>6, <2>1, FewerEdges DEF UnmountRole
<1>7. ASSUME NEW u \in Users, NEW r \in Roles,
             EndMembership(u, r) \/ \E l \in Level : assignUserRoleTx(u, r, l)
      PROVE  Acyclic'
  BY <1>7 DEF EndMembership, assignUserRoleTx, Acyclic
<1>8. CASE Migrate
  <2>1. mounts' = mounts
    BY <1>8 DEF Migrate
  <2> QED BY <1>0, <1>8, <2>1 DEF Migrate
<1>9. CASE UNCHANGED vars
  BY <1>9 DEF vars, Acyclic
<1> QED BY Zenon, <1>1, <1>2, <1>3, <1>4, <1>5, <1>6, <1>7, <1>8, <1>9 DEF Next

\* So a cycle arises only where a walk was cut off or a start brings back an
\* unmounted legacy edge: for any number of roles, any bound and any legacy.
THEOREM CyclesAreExplained == Spec => CyclesHaveACause
<1>1. TypeOK /\ [Next]_vars =>
          [Acyclic /\ WalksComplete /\ legacy \subseteq mounts => Acyclic']_mounts
  BY NextAcyclic
<1> QED BY <1>1, TypeCorrect, PTL DEF Spec, CyclesHaveACause

\* A hierarchy without legacy parents never gets one.
LEMMA NoLegacyStays == legacy = {} /\ [Next]_vars => legacy' = {}
  BY DEF Next, vars, CreateRoleWithParents, ClearRoleParent, DeleteRole, SetRoleParent,
         MountRole, UnmountRole, EndMembership, assignUserRoleTx, Migrate

\* A deployment with no legacy parents has an acyclic hierarchy for ever, as
\* long as every chain is short enough for the recursive queries.
THEOREM StaysAcyclic ==
    ASSUME LegacyChildren = {}
    PROVE  Spec /\ []WalksComplete => []Acyclic
<1>1. Init => legacy = {} /\ Acyclic
  BY DEF Init, Acyclic
<1>2. TypeOK /\ legacy = {} /\ Acyclic /\ WalksComplete /\ [Next]_vars => (legacy = {})' /\ Acyclic'
  <2> SUFFICES ASSUME TypeOK, legacy = {}, Acyclic, WalksComplete, [Next]_vars
               PROVE  (legacy = {})' /\ Acyclic'
    BY Zenon
  <2>1. legacy \subseteq mounts
    BY Zenon
  <2>2. Acyclic'
    BY Zenon, <2>1, NextAcyclic
  <2> QED BY Zenon, <2>2, NoLegacyStays
<1> QED BY <1>1, <1>2, TypeCorrect, PTL DEF Spec

-----------------------------------------------------------------------------

\* Only DeleteRole removes a role, and it keeps the roles above every other.
LEMMA NextKeepsReachability ==
    ASSUME TypeOK, [Next]_vars, NEW r \in roles \ roles', NEW x \in roles'
    PROVE  /\ Above(x) \ {r} \subseteq Above(x)'
           /\ WalksComplete => Above(x)' \subseteq Above(x) \ {r}
<1>1. r \in Roles
  BY DEF TypeOK
<1>2. DeleteRole(r)
  <2>1. ASSUME NEW q \in Roles, DeleteRole(q) PROVE q = r
    BY <2>1 DEF DeleteRole
  <2> QED
    BY <2>1 DEF Next, vars, CreateRoleWithParents, ClearRoleParent, SetRoleParent, MountRole,
                UnmountRole, EndMembership, assignUserRoleTx, Migrate
<1> QED BY Zenon, <1>1, <1>2, DeleteLosesNothing, DeleteAddsNothing

\* In every reachable state the roles listed for a user are the ones that the
\* checks of the operations accept: ListEffectiveRoleAccess against
\* HasEffectiveRole and IsEffectiveRoleAdmin, on hierarchies of any depth.
THEOREM ViewsAlwaysAgree == Spec => []AccessViewsAgree
  BY TypeCorrect, ViewsAgree, PTL

\* DeleteRole loses no inheritance between the other roles, on chains of any
\* length, and makes none where every chain is within the bound.
THEOREM DeletionKeepsReachability == Spec => DeleteKeepsReachability
<1>1. TypeOK /\ [Next]_vars =>
          [\A r \in roles \ roles' : \A x \in roles' :
               /\ Above(x) \ {r} \subseteq Above(x)'
               /\ WalksComplete => Above(x)' \subseteq Above(x) \ {r}]_roles
  BY NextKeepsReachability
<1> QED BY <1>1, TypeCorrect, PTL DEF Spec, DeleteKeepsReachability

\* Up to MaxDepth + 1 roles (65 in the code), a deployment without legacy
\* parents has an acyclic hierarchy for ever, however the roles are mounted.
THEOREM FewRolesAcyclic ==
    ASSUME LegacyChildren = {}, IsFiniteSet(Roles), Cardinality(Roles) <= MaxDepth + 1
    PROVE  Spec => []Acyclic
<1>1. Spec /\ []WalksComplete => []Acyclic
  BY StaysAcyclic
<1>2. WalksComplete
  BY ShallowWalksComplete
<1> QED BY <1>1, <1>2, PTL

-----------------------------------------------------------------------------
(* Memberships, grants and role requests, for any number of accounts, tags, *)
(* requests and concurrent operations.                                     *)

\* What an operation in flight relies on: a rename whose copy has run holds
\* the memberships it copied for, and whoever it has seen has the new name,
\* in the table or among its own uncommitted rows.
OpOK(p) ==
    /\ op[p].pc \in {"count", "copy", "drop"} => op[p].tag # op[p].new
    /\ op[p].pc = "drop" => \A u \in op[p].copied : IsMember(u)
    /\ op[p].pc = "decide" => op[p].req \in Requests
    /\ \A u \in seen[p] :
        op[p].pc = "drop" /\ (u \in op[p].copied \/ <<u, op[p].new>> \in grants)

GrantInv ==
    /\ GrantsTypeOK
    /\ GrantsBelongToMembers
    /\ \A p \in Ops : OpOK(p)

\* An idle operation is an operation.
LEMMA IdleOp ==
    Idle \in Op /\ Idle.pc = "idle"
  <1>1. (CHOOSE u \in Accounts : TRUE) \in Accounts /\ (CHOOSE t \in Tags : TRUE) \in Tags
    BY AccountsAssumption
  <1> QED
    BY <1>1, GrantsBoundsAssumption DEF Idle, Op, Membership, RoleLevels

\* An account without memberships, grants and requests satisfies GrantInv.
LEMMA InitGrantInv ==
    GrantsInit => GrantInv
  <1> SUFFICES ASSUME GrantsInit PROVE GrantInv
    OBVIOUS
  <1>1. (CHOOSE u \in Accounts : TRUE) \in Accounts
    BY AccountsAssumption
  <1>2. request \in [Requests -> RoleRequest]
    BY <1>1 DEF GrantsInit, RoleRequest
  <1>3. op \in [Ops -> Op]
    BY IdleOp DEF GrantsInit
  <1>4. GrantsTypeOK
    BY <1>2, <1>3, GrantsBoundsAssumption DEF GrantsInit, GrantsTypeOK
  <1>5. \A p \in Ops : op[p].pc = "idle" /\ seen[p] = {}
    BY IdleOp DEF GrantsInit
  <1>6. \A p \in Ops : OpOK(p)
    BY <1>5 DEF OpOK
  <1> QED
    BY <1>4, <1>6 DEF GrantsInit, GrantInv, GrantsBelongToMembers

\* A membership is not the missing one.
LEMMA MembersDiffer == \A m \in Membership : m # NoMember /\ m.level \in RoleLevels
  BY DEF Membership, NoMember, RoleLevels

\* A step of operation p.  It takes no membership that another operation has
\* copied a grant for, and no grant that another rename still counts on.
LEMMA OperationStep ==
    ASSUME GrantInv, NEW p \in Ops, GrantsTypeOK', GrantsBelongToMembers', OpOK(p)',
           \A q \in Ops \ {p} : op'[q] = op[q],
           \A q \in Ops \ {p} : op[q].pc = "drop" => \A u \in op[q].copied : IsMember(u)',
           \A q \in Ops \ {p} : \A u \in seen'[q] :
               u \in seen[q] /\ (<<u, op[q].new>> \in grants => <<u, op[q].new>> \in grants')
    PROVE  GrantInv'
  <1>1. \A q \in Ops \ {p} : OpOK(q)'
    BY ZenonT(40) DEF GrantInv, OpOK
  <1> QED
    BY Zenon, <1>1 DEF GrantInv

\* A step that only moves operation p, to a place that relies on nothing new.
LEMMA MoveStep ==
    ASSUME GrantInv, NEW p \in Ops, NEW r \in Op, op' = [op EXCEPT ![p] = r],
           UNCHANGED <<members, defs, grants, request, banned, seen>>, started' \in 0..MaxOps,
           OpOK(p)'
    PROVE  GrantInv'
  <1>1. op' \in [Ops -> Op] /\ \A q \in Ops \ {p} : op'[q] = op[q]
    BY DEF GrantInv, GrantsTypeOK
  <1>2. GrantsTypeOK'
    BY Zenon, <1>1 DEF GrantInv, GrantsTypeOK
  <1>3. GrantsBelongToMembers'
    BY Zenon DEF GrantInv, GrantsBelongToMembers, IsMember
  <1>4. \A q \in Ops \ {p} : op[q].pc = "drop" => \A u \in op[q].copied : IsMember(u)'
    BY DEF GrantInv, OpOK, IsMember
  <1> QED
    BY <1>1, <1>2, <1>3, <1>4, OperationStep

\* An operation starts: nothing has been seen for an idle one.
LEMMA StartStep ==
    ASSUME GrantInv, NEW p \in Ops, NEW actor \in Accounts,
           NEW r \in Op,
           op[p].pc = "idle", started < MaxOps, started' = started + 1,
           op' = [op EXCEPT ![p] = r],
           UNCHANGED <<members, defs, grants, request, banned, seen>>,
           r.pc # "drop", r.pc \in {"count", "copy"} => r.tag # r.new,
           r.pc = "decide" => r.req \in Requests
    PROVE  GrantInv'
  <1>1. started' \in 0..MaxOps
    BY GrantsBoundsAssumption DEF GrantInv, GrantsTypeOK
  <1>2. op'[p] = r
    BY DEF GrantInv, GrantsTypeOK
  <1>3. seen'[p] = {}
    BY Zenon DEF GrantInv, OpOK
  <1>4. OpOK(p)'
    BY <1>2, <1>3 DEF OpOK
  <1> QED
    BY Zenon, <1>1, <1>4, MoveStep

\* The start of an operation on tags keeps GrantInv.
LEMMA TagOperationStep ==
    ASSUME GrantInv, NEW p \in Ops,
           NEW actor \in Accounts, TagOperation(p, actor)
    PROVE  GrantInv'
  <1>1. ASSUME NEW t \in Tags, NEW add \in BOOLEAN, ChangeRoleTag(p, actor, t, add)
        PROVE  GrantInv'
    <2> DEFINE r == [Idle EXCEPT !.pc = IF add THEN "addTag" ELSE "deleteTag", !.tag = t]
    <2>1. r \in Op /\ r.pc \in {"addTag", "deleteTag"}
      BY Zenon, IdleOp DEF Op
    <2> HIDE DEF r
    <2> QED
      BY Zenon, <1>1, <2>1, StartStep DEF ChangeRoleTag, Start, r
  <1>2. ASSUME NEW old \in Tags, NEW new \in Tags, RenameRoleTag(p, actor, old, new)
        PROVE  GrantInv'
    <2> DEFINE r == [Idle EXCEPT !.pc = "count", !.tag = old, !.new = new]
    <2>1. r \in Op /\ r.pc = "count" /\ r.tag # r.new
      BY Zenon, <1>2, IdleOp DEF Op, RenameRoleTag
    <2> HIDE DEF r
    <2> QED
      BY Zenon, <1>2, <2>1, StartStep DEF RenameRoleTag, Start, r
  <1> QED
    BY <1>1, <1>2 DEF TagOperation

\* The start of an operation on memberships keeps GrantInv.
LEMMA MemberOperationStep ==
    ASSUME GrantInv, NEW p \in Ops,
           NEW actor \in Accounts, MemberOperation(p, actor)
    PROVE  GrantInv'
  <1>1. ASSUME NEW u \in Accounts, NEW m \in Membership, NEW T \in SUBSET Tags,
               AssignRole(p, actor, u, m, T)
        PROVE  GrantInv'
    <2> DEFINE r == [Idle EXCEPT !.pc = "assign", !.user = u, !.as = m, !.tags = T]
    <2>1. r \in Op /\ r.pc = "assign"
      BY Zenon, IdleOp DEF Op
    <2> HIDE DEF r
    <2> QED
      BY Zenon, <1>1, <2>1, StartStep DEF AssignRole, Start, r
  <1>2. ASSUME NEW u \in Accounts, NEW t \in Tags, NEW add \in BOOLEAN,
               ChangeMembershipTag(p, actor, u, t, add)
        PROVE  GrantInv'
    <2> DEFINE r == [Idle EXCEPT !.pc = IF add THEN "load" ELSE "revoke", !.user = u, !.tag = t]
    <2>1. r \in Op /\ r.pc \in {"load", "revoke"}
      BY Zenon, IdleOp DEF Op
    <2> HIDE DEF r
    <2> QED
      BY Zenon, <1>2, <2>1, StartStep DEF ChangeMembershipTag, Start, r
  <1>3. ASSUME NEW u \in Accounts, RemoveRole(p, actor, u) PROVE GrantInv'
    <2> DEFINE r == [Idle EXCEPT !.pc = "remove", !.user = u]
    <2>1. r \in Op /\ r.pc = "remove"
      BY Zenon, IdleOp DEF Op
    <2> HIDE DEF r
    <2> QED
      BY Zenon, <1>3, <2>1, StartStep DEF RemoveRole, Start, r
  <1>4. ASSUME NEW u \in Accounts, RequestRole(p, actor, u) PROVE GrantInv'
    <2> DEFINE r == [Idle EXCEPT !.pc = IF CanAssignRole(actor) THEN "member" ELSE "create", !.user = u]
    <2>1. r \in Op /\ r.pc \in {"member", "create"}
      BY Zenon, IdleOp DEF Op
    <2> HIDE DEF r
    <2> QED
      BY Zenon, <1>4, <2>1, StartStep DEF RequestRole, r
  <1> QED
    BY <1>1, <1>2, <1>3, <1>4 DEF MemberOperation

\* The start of a decision keeps GrantInv.
LEMMA DecideStartStep ==
    ASSUME GrantInv, NEW p \in Ops,
           NEW actor \in Accounts, NEW q \in Requests, NEW approve \in BOOLEAN,
           DecideRoleRequest(p, actor, q, approve)
    PROVE  GrantInv'
  <1> DEFINE r == [Idle EXCEPT !.pc = "decide", !.req = q, !.approve = approve]
  <1>1. q \in 0..MaxRequests
    BY GrantsBoundsAssumption DEF Requests
  <1>2. r \in Op /\ r.pc = "decide" /\ r.req = q
    BY ZenonT(40), <1>1, IdleOp DEF Op
  <1> HIDE DEF r
  <1> QED
    BY Zenon, <1>2, StartStep DEF DecideRoleRequest, Start, r

\* An operation ends with a change of the tables that takes nothing from the
\* renames in flight.
LEMMA EndStep ==
    ASSUME GrantInv, NEW p \in Ops,
           Done(p), UNCHANGED <<banned, started>>,
           members' \in [Accounts -> Membership \cup {NoMember}], defs' \subseteq Tags,
           grants' \subseteq Accounts \X Tags, request' \in [Requests -> RoleRequest],
           seen' \in [Ops -> SUBSET Accounts], seen'[p] = {}, GrantsBelongToMembers',
           \A q \in Ops \ {p} : op[q].pc = "drop" => \A u \in op[q].copied : IsMember(u)',
           \A q \in Ops \ {p} : \A u \in seen'[q] :
               u \in seen[q] /\ (<<u, op[q].new>> \in grants => <<u, op[q].new>> \in grants')
    PROVE  GrantInv'
  <1>1. op' \in [Ops -> Op] /\ op'[p] = Idle /\ \A q \in Ops \ {p} : op'[q] = op[q]
    BY Zenon, IdleOp DEF GrantInv, GrantsTypeOK, Done
  <1>2. GrantsTypeOK'
    BY Zenon, <1>1 DEF GrantInv, GrantsTypeOK
  <1>3. OpOK(p)'
    BY Zenon, <1>1, IdleOp DEF OpOK
  <1> QED
    BY Zenon, <1>1, <1>2, <1>3, OperationStep

\* The same for an operation that keeps every grant and membership.
LEMMA AddStep ==
    ASSUME GrantInv, NEW p \in Ops,
           Done(p), op[p].pc # "drop", UNCHANGED <<banned, started, seen>>,
           members' \in [Accounts -> Membership \cup {NoMember}], defs' \subseteq Tags,
           request' \in [Requests -> RoleRequest],
           grants' \subseteq Accounts \X Tags, grants \subseteq grants', GrantsBelongToMembers',
           \A u \in Accounts : IsMember(u) => IsMember(u)'
    PROVE  GrantInv'
  <1>1. seen' \in [Ops -> SUBSET Accounts] /\ seen'[p] = {}
    BY Zenon DEF GrantInv, GrantsTypeOK, OpOK
  <1>2. \A q \in Ops \ {p} : op[q].pc = "drop" => \A u \in op[q].copied : IsMember(u)'
    BY Zenon DEF GrantInv, GrantsTypeOK, OpOK, Op
  <1> QED
    BY <1>1, <1>2, EndStep

\* The upsert of a membership with its grants keeps GrantInv, and the account
\* is a member after it.
LEMMA AssignStep ==
    ASSUME GrantInv, NEW p \in Ops,
           NEW u \in Accounts, NEW m \in Membership, NEW T \in SUBSET Tags,
           Assign(u, m, T), Done(p), op[p].pc # "drop", UNCHANGED <<defs, banned, started, seen>>,
           request' \in [Requests -> RoleRequest]
    PROVE  GrantInv' /\ IsMember(u)'
  <1>1. /\ members' \in [Accounts -> Membership \cup {NoMember}]
        /\ members'[u] = m /\ \A v \in Accounts \ {u} : members'[v] = members[v]
    BY DEF GrantInv, GrantsTypeOK, Assign
  <1>2. IsMember(u)' /\ \A v \in Accounts : IsMember(v) => IsMember(v)'
    BY <1>1, MembersDiffer DEF IsMember
  <1>3. grants' = grants \cup ({u} \X T) /\ grants \subseteq Accounts \X Tags
    BY DEF Assign, GrantInv, GrantsTypeOK
  <1>4. grants' \subseteq Accounts \X Tags /\ grants \subseteq grants'
    BY Zenon, <1>3
  <1>5. GrantsBelongToMembers'
    BY <1>2, <1>3 DEF GrantInv, GrantsBelongToMembers
  <1>6. defs' \subseteq Tags
    BY Zenon DEF GrantInv, GrantsTypeOK
  <1> QED
    BY Zenon, <1>1, <1>2, <1>4, <1>5, <1>6, AddStep

\* Adding and deleting the definition of a tag keep GrantInv.
LEMMA DefinitionStep ==
    ASSUME GrantInv, NEW p \in Ops,
           AddRoleTag(p) \/ DeleteRoleTag(p)
    PROVE  GrantInv'
  <1> USE DEF AddRoleTag, DeleteRoleTag
  <1>1. op[p].pc # "drop" /\ op[p].tag \in Tags
    BY DEF GrantInv, GrantsTypeOK, Op
  <1>2. /\ defs' \subseteq Tags /\ grants' \subseteq Accounts \X Tags
        /\ request' \in [Requests -> RoleRequest]
        /\ members' \in [Accounts -> Membership \cup {NoMember}]
    BY Zenon, <1>1 DEF GrantInv, GrantsTypeOK
  <1>3. GrantsBelongToMembers' /\ \A u \in Accounts : IsMember(u) => IsMember(u)'
    BY DEF GrantInv, GrantsBelongToMembers, IsMember
  <1> QED
    BY Zenon, <1>1, <1>2, <1>3, AddStep

\* A rename that looks for the tag keeps GrantInv.
LEMMA RenameCountStep == ASSUME GrantInv, NEW p \in Ops, RenameCount(p) PROVE GrantInv'
  <1> DEFINE r == [op[p] EXCEPT !.pc = "copy", !.inserts = op[p].new \notin defs]
  <1>1. op[p] \in Op /\ op[p].tag # op[p].new /\ seen[p] = {}
    BY Zenon DEF GrantInv, GrantsTypeOK, OpOK, RenameCount
  <1>2. r \in Op /\ r.pc = "copy" /\ r.tag # r.new
    BY Zenon, <1>1 DEF Op
  <1>3. op' = [op EXCEPT ![p] = r]
    BY Zenon, <1>1 DEF RenameCount, GrantInv, GrantsTypeOK
  <1> HIDE DEF r
  <1>4. op'[p] = r
    BY <1>3 DEF GrantInv, GrantsTypeOK
  <1>5. OpOK(p)'
    BY <1>1, <1>2, <1>4 DEF OpOK, RenameCount
  <1> QED
    BY Zenon, <1>2, <1>3, <1>5, MoveStep DEF RenameCount, GrantInv, GrantsTypeOK

\* A rename that copies the grants keeps GrantInv.
LEMMA RenameCopyStep == ASSUME GrantInv, NEW p \in Ops, RenameCopy(p) PROVE GrantInv'
  <1> DEFINE C == Holders(op[p].tag) \ Holders(op[p].new)
             r == [op[p] EXCEPT !.pc = "drop", !.copied = C]
  <1>1. op[p] \in Op /\ op[p].tag # op[p].new
    BY DEF GrantInv, GrantsTypeOK, OpOK, RenameCopy
  <1>2. C \subseteq Accounts /\ Holders(op[p].tag) \subseteq Accounts
    BY DEF Holders
  <1>3. r \in Op /\ r.pc = "drop" /\ r.tag # r.new /\ r.copied = C /\ r.new = op[p].new
    BY Zenon, <1>1, <1>2 DEF Op
  <1>4. op' = [op EXCEPT ![p] = r]
    BY Zenon, <1>1 DEF RenameCopy, GrantInv, GrantsTypeOK
  <1> HIDE DEF r
  <1>5. op'[p] = r /\ op' \in [Ops -> Op] /\ \A q \in Ops \ {p} : op'[q] = op[q]
    BY <1>3, <1>4 DEF GrantInv, GrantsTypeOK
  <1>6. /\ seen' \in [Ops -> SUBSET Accounts] /\ seen'[p] = Holders(op[p].tag)
        /\ \A q \in Ops \ {p} : seen'[q] = seen[q]
    BY <1>2 DEF RenameCopy, GrantInv, GrantsTypeOK
  <1>7. GrantsTypeOK'
    BY <1>5, <1>6 DEF RenameCopy, GrantInv, GrantsTypeOK
  <1>8. GrantsBelongToMembers' /\ \A u \in Accounts : IsMember(u) <=> IsMember(u)'
    BY DEF RenameCopy, GrantInv, GrantsBelongToMembers, IsMember
  <1>9. \A u \in C : IsMember(u)'
    BY <1>2, <1>8 DEF GrantInv, GrantsBelongToMembers, Holders
  <1>10. \A u \in seen'[p] : u \in C \/ <<u, op[p].new>> \in grants'
    BY Zenon, <1>6 DEF Holders, RenameCopy
  <1>11. OpOK(p)'
    <2> HIDE DEF C
    <2> QED
      BY Zenon, <1>3, <1>5, <1>9, <1>10 DEF OpOK
  <1>12. \A q \in Ops \ {p} : op[q].pc = "drop" => \A u \in op[q].copied : IsMember(u)'
    BY <1>8 DEF GrantInv, GrantsTypeOK, OpOK, Op
  <1> QED
    BY Zenon, <1>5, <1>6, <1>7, <1>8, <1>11, <1>12, OperationStep DEF RenameCopy

\* Grants W are withdrawn: what the renames have seen shrinks accordingly.
LEMMA WithdrawFacts ==
    ASSUME GrantInv, NEW W
    PROVE  /\ Withdraw(W) \in [Ops -> SUBSET Accounts]
           /\ \A q \in Ops : \A u \in Withdraw(W)[q] : u \in seen[q] /\ <<u, op[q].new>> \notin W
  BY Zenon DEF GrantInv, GrantsTypeOK, Withdraw

\* A rename that drops the old grants keeps GrantInv.
LEMMA RenameDropStep ==
    ASSUME GrantInv, NEW p \in Ops,
           RenameDrop(p)
    PROVE  GrantInv'
  <1> USE DEF RenameDrop
  <1>1. op[p].new \in Tags /\ op[p].tag \in Tags /\ op[p].copied \subseteq Accounts
    BY Zenon DEF GrantInv, GrantsTypeOK, Op
  <1>2. \A u \in op[p].copied : IsMember(u)
    BY Zenon DEF GrantInv, OpOK
  <1>3. grants' = (grants \ Dropped(p)) \cup (op[p].copied \X {op[p].new}) /\ UNCHANGED members
    BY Zenon
  <1>4. grants' \subseteq Accounts \X Tags
    BY Zenon, <1>1, <1>3 DEF GrantInv, GrantsTypeOK
  <1>5. GrantsBelongToMembers'
    BY Zenon, <1>2, <1>3 DEF GrantInv, GrantsBelongToMembers, IsMember
  <1>6. /\ seen' \in [Ops -> SUBSET Accounts] /\ seen'[p] = {}
        /\ \A q \in Ops \ {p} : seen'[q] = Withdraw(Dropped(p))[q]
    BY ZenonT(40), WithdrawFacts
  <1>7. \A q \in Ops \ {p} : \A u \in seen'[q] : u \in seen[q] /\ <<u, op[q].new>> \notin Dropped(p)
    BY Zenon, <1>6, WithdrawFacts
  <1>8. \A q \in Ops \ {p} : \A u \in seen'[q] :
            u \in seen[q] /\ (<<u, op[q].new>> \in grants => <<u, op[q].new>> \in grants')
    BY Zenon, <1>3, <1>7
  <1>9. \A q \in Ops \ {p} : op[q].pc = "drop" => \A u \in op[q].copied : IsMember(u)'
    BY Zenon, <1>3 DEF GrantInv, OpOK, IsMember
  <1>10. /\ defs' \subseteq Tags /\ request' \in [Requests -> RoleRequest]
         /\ members' \in [Accounts -> Membership \cup {NoMember}]
    BY Zenon, <1>1 DEF GrantInv, GrantsTypeOK
  <1>11. Done(p) /\ UNCHANGED <<banned, started>>
    BY ZenonT(40)
  <1> HIDE DEF RenameDrop
  <1> QED
    BY Zenon, <1>4, <1>5, <1>6, <1>8, <1>9, <1>10, <1>11, EndStep

\* Assigning a role keeps GrantInv.
LEMMA AssignUserRoleStep ==
    ASSUME GrantInv, NEW p \in Ops,
           AssignUserRole(p)
    PROVE  GrantInv'
  <1>1. op[p].user \in Accounts /\ op[p].as \in Membership /\ op[p].tags \in SUBSET Tags
    BY Zenon DEF GrantInv, GrantsTypeOK, Op
  <1>2. request' \in [Requests -> RoleRequest]
    BY Zenon DEF AssignUserRole, GrantInv, GrantsTypeOK
  <1> QED
    BY <1>1, <1>2, AssignStep DEF AssignUserRole

\* The grant of a membership keeps GrantInv.
LEMMA GrantMembershipStep ==
    ASSUME GrantInv, NEW p \in Ops,
           GrantMembership(p)
    PROVE  GrantInv'
  <1>1. op[p].user \in Accounts /\ [level |-> "member", until |-> "never"] \in Membership
    BY DEF GrantInv, GrantsTypeOK, Op, Membership, RoleLevels
  <1>2. request' \in [Requests -> RoleRequest]
    BY DEF GrantMembership, GrantInv, GrantsTypeOK
  <1> QED
    BY <1>1, <1>2, AssignStep DEF GrantMembership

\* Reading the role keeps GrantInv.
LEMMA LoadRoleStep == ASSUME GrantInv, NEW p \in Ops, LoadRole(p) PROVE GrantInv'
  <1> DEFINE r == [op[p] EXCEPT !.pc = "grant"]
  <1>1. op[p] \in Op /\ seen[p] = {}
    BY Zenon DEF GrantInv, GrantsTypeOK, OpOK, LoadRole
  <1>2. r \in Op /\ r.pc = "grant"
    BY <1>1 DEF Op
  <1>3. op' = [op EXCEPT ![p] = r]
    BY <1>1 DEF LoadRole, GrantInv, GrantsTypeOK
  <1> HIDE DEF r
  <1>4. op'[p] = r
    BY <1>3 DEF GrantInv, GrantsTypeOK
  <1>5. OpOK(p)'
    BY SMTT(40), <1>1, <1>2, <1>4 DEF OpOK, LoadRole
  <1> QED
    BY Zenon, <1>2, <1>3, <1>5, MoveStep DEF LoadRole, GrantInv, GrantsTypeOK

\* Adding a grant keeps GrantInv.
LEMMA AddGrantStep ==
    ASSUME GrantInv, NEW p \in Ops,
           AddUserRoleTag(p)
    PROVE  GrantInv'
  <1> USE DEF AddUserRoleTag
  <1>1. op[p].pc # "drop" /\ op[p].user \in Accounts /\ op[p].tag \in Tags
    BY Zenon DEF GrantInv, GrantsTypeOK, Op
  <1>2. /\ grants' \subseteq Accounts \X Tags /\ grants \subseteq grants' /\ defs' \subseteq Tags
        /\ request' \in [Requests -> RoleRequest]
        /\ members' \in [Accounts -> Membership \cup {NoMember}]
    <2>1. GrantsTypeOK
      BY Zenon DEF GrantInv
    <2>2. grants' = grants \cup {<<op[p].user, op[p].tag>>} /\ UNCHANGED <<members, defs, request>>
      BY Zenon
    <2>3. grants' \subseteq Accounts \X Tags /\ grants \subseteq grants'
      <3>1. <<op[p].user, op[p].tag>> \in Accounts \X Tags /\ grants \subseteq Accounts \X Tags
        BY Zenon, <1>1, <2>1 DEF GrantsTypeOK
      <3> QED
        BY Zenon, <2>2, <3>1
    <2> QED
      BY Zenon, <2>1, <2>2, <2>3 DEF GrantsTypeOK
  <1>3. GrantsBelongToMembers' /\ \A u \in Accounts : IsMember(u) => IsMember(u)'
    BY SMTT(40), <1>1 DEF GrantInv, GrantsBelongToMembers, IsMember
  <1> QED
    BY ZenonT(40), <1>1, <1>2, <1>3, AddStep

\* Revoking a grant keeps GrantInv.
LEMMA RevokeGrantStep ==
    ASSUME GrantInv, NEW p \in Ops,
           DeleteUserRoleTag(p)
    PROVE  GrantInv'
  <1> DEFINE W == {<<op[p].user, op[p].tag>>}
  <1> USE DEF DeleteUserRoleTag
  <1>1. grants' = grants \ W /\ seen' = Withdraw(W) /\ UNCHANGED members
    BY Zenon
  <1> HIDE DEF W
  <1>2. /\ seen' \in [Ops -> SUBSET Accounts]
        /\ \A q \in Ops : \A u \in seen'[q] : u \in seen[q] /\ <<u, op[q].new>> \notin W
    <2> HIDE DEF DeleteUserRoleTag
    <2> QED
      BY <1>1, WithdrawFacts
  <1>3. seen'[p] = {}
    BY Zenon, <1>2 DEF GrantInv, OpOK
  <1>4. \A q \in Ops \ {p} : \A u \in seen'[q] :
            u \in seen[q] /\ (<<u, op[q].new>> \in grants => <<u, op[q].new>> \in grants')
    BY Zenon, <1>1, <1>2
  <1>5. \A q \in Ops \ {p} : op[q].pc = "drop" => \A u \in op[q].copied : IsMember(u)'
    BY Zenon, <1>1 DEF GrantInv, OpOK, IsMember
  <1>6. GrantsBelongToMembers'
    BY Zenon, <1>1 DEF GrantInv, GrantsBelongToMembers, IsMember
  <1>7. /\ grants' \subseteq Accounts \X Tags /\ defs' \subseteq Tags
        /\ request' \in [Requests -> RoleRequest]
        /\ members' \in [Accounts -> Membership \cup {NoMember}]
    BY SMTT(40), <1>1 DEF GrantInv, GrantsTypeOK
  <1> QED
    BY ZenonT(40), <1>2, <1>3, <1>4, <1>5, <1>6, <1>7, EndStep

\* The foreign key: the membership is not deleted while a rename holds a
\* copied grant of it.
LEMMA RemoveStep ==
    ASSUME GrantInv, NEW p \in Ops,
           RemoveUserRole(p)
    PROVE  GrantInv'
  <1> DEFINE u == op[p].user
             W == {u} \X Tags
  <1> USE DEF RemoveUserRole
  <1>1. /\ grants' = grants \ W /\ seen' = Withdraw(W) /\ MembershipFree(u)
        /\ u \in Accounts /\ grants \subseteq Accounts \X Tags
    BY DEF GrantInv, GrantsTypeOK, Op
  <1>2. /\ members' \in [Accounts -> Membership \cup {NoMember}]
        /\ \A v \in Accounts \ {u} : members'[v] = members[v]
    BY ZenonT(40) DEF GrantInv, GrantsTypeOK
  <1>3. /\ seen' \in [Ops -> SUBSET Accounts]
        /\ \A q \in Ops : \A v \in seen'[q] : v \in seen[q] /\ <<v, op[q].new>> \notin W
    BY <1>1, WithdrawFacts
  <1>4. GrantsBelongToMembers'
    <2> SUFFICES ASSUME NEW g \in grants' PROVE IsMember(g[1])'
      BY Zenon DEF GrantsBelongToMembers
    <2>1. g \in grants /\ g \notin W /\ g \in Accounts \X Tags
      BY Zenon, <1>1
    <2>2. g[1] # u /\ g[1] \in Accounts
      BY Zenon, <2>1
    <2> QED
      BY Zenon, <1>2, <2>1, <2>2 DEF GrantInv, GrantsBelongToMembers, IsMember
  <1>5. \A q \in Ops \ {p} : op[q].pc = "drop" => \A v \in op[q].copied : IsMember(v)'
    <2> SUFFICES ASSUME NEW q \in Ops, op[q].pc = "drop", NEW v \in op[q].copied PROVE IsMember(v)'
      BY Zenon
    <2>1. op[q].new \in Tags /\ v \in Accounts
      BY Zenon DEF GrantInv, GrantsTypeOK, Op
    <2>2. v # u
      BY SMTT(40), <1>1, <2>1 DEF MembershipFree, HoldsGrant
    <2> QED
      BY Zenon, <1>2, <2>1, <2>2 DEF GrantInv, OpOK, IsMember
  <1> HIDE DEF W
  <1>6. seen'[p] = {}
    BY Zenon, <1>3 DEF GrantInv, GrantsTypeOK, OpOK
  <1>7. \A q \in Ops \ {p} : \A v \in seen'[q] :
            v \in seen[q] /\ (<<v, op[q].new>> \in grants => <<v, op[q].new>> \in grants')
    BY ZenonT(40), <1>1, <1>3
  <1>8. grants' \subseteq Accounts \X Tags /\ defs' \subseteq Tags /\ request' \in [Requests -> RoleRequest]
    BY Zenon, <1>1 DEF GrantInv, GrantsTypeOK
  <1> QED
    BY Zenon, <1>2, <1>3, <1>4, <1>5, <1>6, <1>7, <1>8, EndStep

\* A new role request keeps GrantInv.
LEMMA CreateRequestStep ==
    ASSUME GrantInv, NEW p \in Ops,
           CreateRoleRequest(p)
    PROVE  GrantInv'
  <1> USE DEF CreateRoleRequest
  <1>1. op[p].pc # "drop" /\ op[p].user \in Accounts
    BY Zenon DEF GrantInv, GrantsTypeOK, Op
  <1>2. [status |-> "pending", target |-> op[p].user] \in RoleRequest
    BY Zenon, <1>1 DEF RoleRequest
  <1>3. request' \in [Requests -> RoleRequest]
    BY Zenon, <1>2 DEF GrantInv, GrantsTypeOK
  <1>4. GrantsBelongToMembers' /\ \A u \in Accounts : IsMember(u) => IsMember(u)'
    BY Zenon DEF GrantInv, GrantsBelongToMembers, IsMember
  <1>5. /\ grants' \subseteq Accounts \X Tags /\ defs' \subseteq Tags
        /\ members' \in [Accounts -> Membership \cup {NoMember}]
    BY Zenon DEF GrantInv, GrantsTypeOK
  <1> QED
    BY Zenon, <1>1, <1>3, <1>4, <1>5, AddStep

\* Under the lock of the request, which is pending: approving it makes its
\* target a member in the same step.
LEMMA DecideStep ==
    ASSUME GrantInv, NEW p \in Ops,
           Decide(p), NEW r \in Requests, r = op[p].req
    PROVE  /\ GrantInv' /\ request[r].status = "pending"
           /\ \A q \in Requests \ {r} : request'[q] = request[q]
           /\ request'[r].status = "approved" => IsMember(request[r].target)'
  <1> DEFINE verdict == IF op[p].approve THEN "approved" ELSE "rejected"
  <1>1. op[p].pc = "decide" /\ request[r].status = "pending"
    BY DEF GrantInv, OpOK, Decide
  <1>2. request[r] \in RoleRequest /\ request[r].target \in Accounts
    BY <1>1 DEF GrantInv, GrantsTypeOK, RoleRequest
  <1>3. /\ request' \in [Requests -> RoleRequest] /\ request'[r].status = verdict
        /\ request'[r].target = request[r].target
        /\ \A q \in Requests \ {r} : request'[q] = request[q]
    BY SMTT(40), <1>1, <1>2 DEF GrantInv, GrantsTypeOK, RoleRequest, Decide
  <1>4. [level |-> "member", until |-> "never"] \in Membership
    BY Zenon DEF Membership, RoleLevels
  <1>5. CASE op[p].approve /\ Assign(request[r].target, [level |-> "member", until |-> "never"], {})
    <2>1. PICK u \in Accounts : u = request[r].target
      BY Zenon, <1>2
    <2>2. Assign(u, [level |-> "member", until |-> "never"], {}) /\ op[p].pc # "drop"
      BY <1>1, <1>5, <2>1
    <2>3. Done(p) /\ UNCHANGED <<defs, banned, started, seen>>
      BY Zenon DEF Decide
    <2>4. GrantInv' /\ IsMember(u)'
      BY SMTT(40), <1>3, <1>4, <2>2, <2>3, AssignStep
    <2> QED
      BY Zenon, <1>1, <1>3, <2>1, <2>4 DEF IsMember
  <1>6. CASE ~op[p].approve /\ UNCHANGED <<members, grants>>
    <2>1. GrantsBelongToMembers' /\ \A u \in Accounts : IsMember(u) => IsMember(u)'
      BY <1>6 DEF GrantInv, GrantsBelongToMembers, IsMember
    <2>2. /\ grants' \subseteq Accounts \X Tags /\ defs' \subseteq Tags
          /\ members' \in [Accounts -> Membership \cup {NoMember}]
      BY Zenon, <1>6 DEF Decide, GrantInv, GrantsTypeOK
    <2>3. GrantInv'
      BY Zenon, <1>1, <1>3, <1>6, <2>1, <2>2, AddStep DEF Decide
    <2> QED
      BY Zenon, <1>1, <1>3, <1>6, <2>3
  <1> QED
    BY <1>5, <1>6 DEF Decide

\* A statement that fails keeps GrantInv.
LEMMA FailStep ==
    ASSUME GrantInv, NEW p \in Ops,
           Fail(p)
    PROVE  GrantInv'
  <1> USE DEF Fail
  <1>1. /\ seen' \in [Ops -> SUBSET Accounts] /\ seen'[p] = {}
        /\ \A q \in Ops \ {p} : seen'[q] = seen[q]
    BY Zenon DEF GrantInv, GrantsTypeOK
  <1>2. \A q \in Ops \ {p} : op[q].pc = "drop" => \A u \in op[q].copied : IsMember(u)'
    BY Zenon DEF GrantInv, OpOK, IsMember
  <1>3. GrantsBelongToMembers'
    BY DEF GrantInv, GrantsBelongToMembers, IsMember
  <1>4. /\ grants' \subseteq Accounts \X Tags /\ defs' \subseteq Tags
        /\ request' \in [Requests -> RoleRequest]
        /\ members' \in [Accounts -> Membership \cup {NoMember}]
    BY DEF GrantInv, GrantsTypeOK
  <1> QED
    BY Zenon, <1>1, <1>2, <1>3, <1>4, EndStep

\* A membership that ends by its date keeps GrantInv.
LEMMA LapseStep == ASSUME GrantInv, NEW u \in Accounts, Lapse(u) PROVE GrantInv'
  <1> USE DEF Lapse
  <1>1. members[u] \in Membership
    BY DEF GrantInv, GrantsTypeOK, NoMember
  <1>2. [members[u] EXCEPT !.until = "past"] \in Membership
    BY <1>1 DEF Membership
  <1>3. /\ members' \in [Accounts -> Membership \cup {NoMember}]
        /\ members'[u] \in Membership
        /\ \A v \in Accounts \ {u} : members'[v] = members[v]
    BY <1>2 DEF GrantInv, GrantsTypeOK
  <1>4. \A v \in Accounts : IsMember(v) => IsMember(v)'
    BY <1>3, MembersDiffer DEF IsMember
  <1>5. GrantsTypeOK'
    BY <1>3 DEF GrantInv, GrantsTypeOK
  <1>6. GrantsBelongToMembers'
    BY <1>4 DEF GrantInv, GrantsTypeOK, GrantsBelongToMembers
  <1>7. \A p \in Ops : OpOK(p)'
    BY Zenon, <1>4 DEF GrantInv, GrantsTypeOK, Op, OpOK
  <1> QED
    BY <1>5, <1>6, <1>7 DEF GrantInv

\* A ban and its end keep GrantInv.
LEMMA BanStep ==
    ASSUME GrantInv, NEW u \in Accounts, SetUserBan(u)
    PROVE  GrantInv'
  <1>1. started' \in 0..MaxOps /\ banned' \subseteq Accounts
    BY GrantsBoundsAssumption DEF SetUserBan, GrantInv, GrantsTypeOK
  <1>2. GrantsTypeOK'
    BY Zenon, <1>1 DEF SetUserBan, GrantInv, GrantsTypeOK
  <1> QED
    BY <1>2 DEF SetUserBan, GrantInv, GrantsBelongToMembers, IsMember, OpOK

\* Every statement of an operation keeps GrantInv.
LEMMA StatementStep ==
    ASSUME GrantInv, NEW p \in Ops,
           Statement(p)
    PROVE  GrantInv'
  <1>1. ASSUME Decide(p) PROVE GrantInv'
    <2>1. op[p].req \in Requests
      BY <1>1 DEF Decide, GrantInv, OpOK
    <2> QED
      BY <1>1, <2>1, DecideStep
  <1> QED
    BY Zenon, <1>1, DefinitionStep, RenameCountStep, RenameCopyStep, RenameDropStep,
       AssignUserRoleStep,
       LoadRoleStep, AddGrantStep, RevokeGrantStep, RemoveStep, GrantMembershipStep,
       CreateRequestStep, FailStep
    DEF Statement

\* Every step keeps GrantInv.
LEMMA NextGrantInv ==
    ASSUME GrantInv,
           [GrantsNext]_grantsVars
    PROVE  GrantInv'
  <1>1. ASSUME NEW p \in Ops, NEW actor \in Accounts,
               \/ TagOperation(p, actor) \/ MemberOperation(p, actor)
               \/ \E r \in Requests, approve \in BOOLEAN : DecideRoleRequest(p, actor, r, approve)
        PROVE  GrantInv'
    BY <1>1, TagOperationStep, MemberOperationStep, DecideStartStep
  <1>2. ASSUME NEW u \in Accounts, Lapse(u) \/ SetUserBan(u) PROVE GrantInv'
    BY Zenon, <1>2, LapseStep, BanStep
  <1>3. CASE UNCHANGED grantsVars
    BY <1>3
    DEF grantsVars, GrantInv, GrantsTypeOK, GrantsBelongToMembers, IsMember, OpOK
  <1> QED
    BY Zenon, <1>1, <1>2, <1>3, StatementStep DEF GrantsNext

\* GrantInv holds in every reachable state.
LEMMA GrantInductive ==
    GrantsSpec => []GrantInv
  <1>1. GrantsInit => GrantInv
    BY InitGrantInv
  <1>2. GrantInv /\ [GrantsNext]_grantsVars => GrantInv'
    BY NextGrantInv
  <1> QED
    BY <1>1, <1>2, PTL DEF GrantsSpec

\* No tag grant outlives its membership, however removals, assignments and
\* renames of tags overlap (RemoveUserRole, RenameRoleTag).
THEOREM GrantsHaveMembers ==
    GrantsSpec => []GrantsBelongToMembers
  <1>1. GrantInv => GrantsBelongToMembers
    BY SMTT(40) DEF GrantInv
  <1> QED
    BY <1>1, GrantInductive, PTL

\* Only two statements write role_requests: the insert takes a fresh row, the
\* decision a pending one.
LEMMA RequestsStep ==
    ASSUME GrantInv,
           [GrantsNext]_grantsVars, NEW r \in Requests
    PROVE  /\ request[r].status \in {"approved", "rejected"} => request'[r] = request[r]
           /\ request[r].status = "pending" /\ request'[r].status = "approved"
              => IsMember(request[r].target)'
  <1>1. ASSUME NEW p \in Ops, Decide(p)
        PROVE  /\ request[r].status \in {"approved", "rejected"} => request'[r] = request[r]
               /\ request[r].status = "pending" /\ request'[r].status = "approved"
                  => IsMember(request[r].target)'
    <2>1. PICK q \in Requests : q = op[p].req
      BY Zenon, <1>1 DEF Decide, GrantInv, OpOK
    <2>2. /\ request[q].status = "pending"
          /\ \A s \in Requests \ {q} : request'[s] = request[s]
          /\ request'[q].status = "approved" => IsMember(request[q].target)'
      BY Zenon, <1>1, <2>1, DecideStep
    <2> QED
      BY <2>2
  <1>2. ASSUME NEW p \in Ops, CreateRoleRequest(p)
        PROVE  request[r].status # "none" => request'[r] = request[r]
    BY Zenon, <1>2 DEF CreateRoleRequest, GrantInv, GrantsTypeOK
  <1>3. ASSUME NEW p \in Ops, Statement(p), ~Decide(p), ~CreateRoleRequest(p)
        PROVE  request' = request
    BY SMTT(40), <1>3
    DEF Statement, AddRoleTag, DeleteRoleTag, RenameCount,
        RenameCopy, RenameDrop, AssignUserRole, LoadRole,
        AddUserRoleTag, DeleteUserRoleTag, RemoveUserRole, GrantMembership, Fail
  <1>4. ASSUME NEW p \in Ops, NEW actor \in Accounts,
               \/ TagOperation(p, actor) \/ MemberOperation(p, actor)
               \/ \E q \in Requests, approve \in BOOLEAN : DecideRoleRequest(p, actor, q, approve)
        PROVE  request' = request
    BY Zenon, <1>4
    DEF TagOperation, MemberOperation, ChangeRoleTag, RenameRoleTag,
        AssignRole, ChangeMembershipTag,
        RemoveRole, RequestRole, DecideRoleRequest, Start
  <1>5. ASSUME NEW u \in Accounts, Lapse(u) \/ SetUserBan(u) PROVE request' = request
    BY Zenon, <1>5 DEF Lapse, SetUserBan
  <1>6. CASE UNCHANGED grantsVars
    BY Zenon, <1>6 DEF grantsVars
  <1>7. ASSUME request'[r] = request[r]
        PROVE  /\ request[r].status \in {"approved", "rejected"} => request'[r] = request[r]
               /\ request[r].status = "pending" /\ request'[r].status = "approved"
                  => IsMember(request[r].target)'
    BY <1>7
  <1> QED
    BY ZenonT(40), <1>1, <1>2, <1>3, <1>4, <1>5, <1>6, <1>7 DEF GrantsNext

\* A request is decided at most once, and the decision that approves it makes
\* its target a member in the same transaction
\* (DecideRoleRequestWithMembership).
THEOREM RequestsDecidedOnce ==
    GrantsSpec => RequestsDecideOnce
  <1>1. GrantInv /\ [GrantsNext]_grantsVars =>
            [\A r \in Requests :
                /\ request[r].status \in {"approved", "rejected"} => request'[r] = request[r]
                /\ request[r].status = "pending" /\ request'[r].status = "approved"
                   => IsMember(request[r].target)']_grantsVars
    BY Zenon, RequestsStep
  <1> QED
    BY <1>1, GrantInductive, PTL DEF GrantsSpec, RequestsDecideOnce

\* A rename that commits leaves the new tag to everyone it has seen with the
\* old one.
LEMMA RenameStep ==
    ASSUME GrantInv, NEW p \in Ops, RenameDrop(p), NEW u \in seen[p]
    PROVE  \E t \in Tags : t = op[p].new /\ <<u, t>> \in grants'
  <1>1. op[p].pc = "drop" /\ op[p].tag # op[p].new /\ op[p].new \in Tags
    BY Zenon DEF GrantInv, GrantsTypeOK, Op, OpOK
  <1>2. u \in op[p].copied \/ <<u, op[p].new>> \in grants
    BY DEF GrantInv, OpOK
  <1>3. <<u, op[p].new>> \notin Dropped(p)
    BY <1>1 DEF Dropped
  <1> QED
    BY <1>1, <1>2, <1>3 DEF RenameDrop

\* When a rename commits, everyone its copy found under the old name has the
\* new one, unless another operation has withdrawn that since (RenameRoleTag).
THEOREM RenamesMigrate ==
    GrantsSpec => RenameMigrates
  <1>1. GrantInv =>
            [\A p \in Ops : RenameDrop(p) => \A u \in seen[p] : <<u, op[p].new>> \in grants']_grantsVars
    BY Zenon, RenameStep
  <1> QED
    BY <1>1, GrantInductive, PTL DEF RenameMigrates
=============================================================================
