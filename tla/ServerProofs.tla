---------------------------- MODULE ServerProofs ----------------------------
(***************************************************************************)
(* The safety properties of Startup hold for any number of replicas,       *)
(* people, keys, invites and restarts; those of MailQueue, in the second   *)
(* half, for any number of workers, clients and callers of Shutdown.       *)
(***************************************************************************)
EXTENDS Startup, MailQueue, TLAPS

\* Keys are never removed, and a table with keys has one current key.
KeyExists == \E k \in Keys : key[k] # "none"
KeysOK == KeyExists => \E k \in Keys : CurrentKeys = {k}

\* How far a replica has come in run, and what the database owes it since.
PastKeys == {"countHumans", "createAdmin", "elevate", "lookup", "createService", "lookAgain",
             "bind", "bound", "serving"}
PastAdmin == {"elevate", "lookup", "createService", "lookAgain", "bind", "bound", "serving"}
PastService == {"bind", "bound", "serving"}

AdminOK == AdminConfigured => admin # "absent" \/ Humans # {}

ReplicaOK(r) ==
    /\ rep[r] \in PastKeys => KeyExists
    /\ rep[r] \in PastAdmin => AdminOK
    /\ rep[r] \in PastService /\ r \in conf => service = "superuser"
    /\ r \in healthy => rep[r] = "serving"

IInv ==
    /\ TypeOK
    /\ KeysOK
    /\ InvitesRegisterOnce
    /\ \A r \in Replicas : ReplicaOK(r)

\* Every number of an invite but 0 is an invite.
LEMMA Numbers == \A i \in 0..MaxInvites : i # 0 => i \in Invites
  BY StartupBoundsAssumption DEF Invites

\* A worker may hold the number of any job.
LEMMA JobNumbers == Job \subseteq 0..MaxJobs
  BY JobsAssumption DEF Job

\* A worker that runs a job is not selecting, and runs that job only.
LEMMA RunningJob ==
    \A g, k : LET r == [pc |-> "run", job |-> g]
              IN  r.pc # "select" /\ (r = [pc |-> "run", job |-> k] => k = g)
  OBVIOUS

\* A deployment that has not started satisfies IInv.
LEMMA InitIInv == Init => IInv
  <1> SUFFICES ASSUME Init PROVE IInv
    OBVIOUS
  <1>1. NoInvite \in Invite /\ NoAccount \in Account
    BY StartupBoundsAssumption DEF NoInvite, Invite, NoAccount, Account
  <1>2. TypeOK
    BY <1>1, StartupBoundsAssumption DEF Init, TypeOK
  <1>3. KeysOK
    BY DEF Init, KeysOK, KeyExists
  <1>4. InvitesRegisterOnce
    BY DEF Init, InvitesRegisterOnce, Humans, NoAccount
  <1>5. \A r \in Replicas : ReplicaOK(r)
    BY DEF Init, ReplicaOK, PastKeys, PastAdmin, PastService
  <1> QED
    BY <1>2, <1>3, <1>4, <1>5 DEF IInv

\* What a step may not take from the replicas: there stay to be keys, an
\* administrator or a human, and the superuser service.
Keeps ==
    /\ KeyExists => KeyExists'
    /\ AdminOK => AdminOK'
    /\ service = "superuser" => service' = "superuser"

\* A step that leaves the database alone keeps what it owes the replicas.
LEMMA SameDatabaseKeeps ==
    ASSUME IInv, UNCHANGED database
    PROVE  Keeps /\ KeysOK' /\ InvitesRegisterOnce'
  <1>1. UNCHANGED <<key, admin, service, invite, account>>
    BY DEF database
  <1>2. Keeps
    BY <1>1 DEF Keeps, KeyExists, AdminOK, Humans
  <1>3. KeysOK'
    BY <1>1 DEF IInv, KeysOK, KeyExists, CurrentKeys
  <1>4. InvitesRegisterOnce'
    BY <1>1 DEF IInv, InvitesRegisterOnce, Humans
  <1> QED
    BY <1>2, <1>3, <1>4

\* A step of the service that leaves the replicas where they are.
LEMMA ServiceStep ==
    ASSUME IInv, UNCHANGED <<rep, conf, healthy>>, Keeps, TypeOK', KeysOK', InvitesRegisterOnce'
    PROVE  IInv'
  <1>1. \A r \in Replicas : ReplicaOK(r)'
    BY DEF IInv, Keeps, ReplicaOK
  <1> QED
    BY <1>1 DEF IInv

\* A step of one replica through run.
LEMMA ReplicaStep ==
    ASSUME IInv, NEW r \in Replicas, Keeps, TypeOK', KeysOK', InvitesRegisterOnce', ReplicaOK(r)',
           \A q \in Replicas \ {r} : /\ rep'[q] = rep[q]
                                     /\ q \in conf' <=> q \in conf
                                     /\ q \in healthy' <=> q \in healthy
    PROVE  IInv'
  <1>1. \A q \in Replicas \ {r} : ReplicaOK(q)'
    BY DEF IInv, Keeps, ReplicaOK
  <1> QED
    BY <1>1 DEF IInv

\* A step of startup, before the replica is healthy.
LEMMA BootStep ==
    ASSUME IInv, NEW r \in Replicas, NEW pc, Goto(r, pc), UNCHANGED process, r \notin healthy,
           pc \in PastKeys \cup {"down", "insertKey"},
           Keeps, KeysOK', InvitesRegisterOnce',
           key' \in [Keys -> {"none", "current", "deprecated", "stale"}],
           admin' \in {"absent", "plain", "superuser"},
           service' \in {"absent", "superuser", "other"},
           UNCHANGED <<invite, account>>,
           pc \in PastKeys => KeyExists',
           pc \in PastAdmin => AdminOK',
           pc \in PastService /\ r \in conf => service' = "superuser"
    PROVE  IInv'
  <1>1. rep'[r] = pc /\ \A q \in Replicas \ {r} : rep'[q] = rep[q]
    BY DEF IInv, TypeOK, Goto
  <1>2. UNCHANGED <<conf, healthy, call, starts>>
    BY DEF process
  <1>3. rep' \in [Replicas -> {"down", "countKeys", "insertKey", "countHumans", "createAdmin",
                               "elevate", "lookup", "createService", "lookAgain", "bind",
                               "bound", "serving", "draining", "overdue"}]
    BY DEF IInv, TypeOK, Goto, PastKeys
  <1>4. TypeOK'
    BY <1>2, <1>3 DEF IInv, TypeOK
  <1>5. ReplicaOK(r)'
    BY <1>1, <1>2 DEF ReplicaOK
  <1> QED
    BY <1>1, <1>2, <1>4, <1>5, ReplicaStep

\* The same for a step that only reads the database.
LEMMA BootReadStep ==
    ASSUME IInv, NEW r \in Replicas, NEW pc, Goto(r, pc), UNCHANGED <<database, process>>,
           r \notin healthy,
           pc \in PastKeys \cup {"down", "insertKey"},
           pc \in PastKeys => KeyExists,
           pc \in PastAdmin => AdminOK,
           pc \in PastService /\ r \in conf => service = "superuser"
    PROVE  IInv'
  <1>1. UNCHANGED <<key, admin, service, invite, account>>
    BY DEF database
  <1>2. Keeps /\ KeysOK' /\ InvitesRegisterOnce'
    BY SameDatabaseKeeps
  <1>3. /\ pc \in PastKeys => KeyExists'
        /\ pc \in PastAdmin => AdminOK'
        /\ pc \in PastService /\ r \in conf => service' = "superuser"
    BY <1>2 DEF Keeps
  <1>4. /\ key' \in [Keys -> {"none", "current", "deprecated", "stale"}]
        /\ admin' \in {"absent", "plain", "superuser"}
        /\ service' \in {"absent", "superuser", "other"}
    BY <1>1 DEF IInv, TypeOK
  <1> QED
    BY <1>1, <1>2, <1>3, <1>4, BootStep

\* Only a serving replica answers the health check.
LEMMA NotHealthy == ASSUME IInv, NEW r \in Replicas, rep[r] # "serving" PROVE r \notin healthy
  BY DEF IInv, ReplicaOK

\* Counting the signing keys keeps IInv: a replica goes on only when there is
\* one.
LEMMA CountKeysStep == ASSUME IInv, NEW r \in Replicas, CountSigningKeys(r) PROVE IInv'
  <1> USE DEF CountSigningKeys, PastKeys, PastAdmin, PastService
  <1>1. r \notin healthy
    BY NotHealthy
  <1>2. CASE KeyExists
    BY <1>1, <1>2, BootReadStep DEF KeyExists
  <1>3. CASE ~KeyExists
    BY <1>1, <1>3, BootReadStep DEF KeyExists
  <1> QED
    BY <1>2, <1>3

\* A fresh key becomes the current one; every other key is not current after.
LEMMA NewCurrentKey ==
    ASSUME IInv, NEW k \in Keys, key[k] = "none",
           key' \in [Keys -> {"none", "current", "deprecated", "stale"}], key'[k] = "current",
           \A j \in Keys \ {k} : key'[j] # "current" /\ (key[j] # "none" => key'[j] # "none")
    PROVE  KeysOK' /\ KeyExists'
  <1>1. CurrentKeys' = {k}
    BY DEF CurrentKeys
  <1> QED
    BY <1>1 DEF KeysOK, KeyExists

\* Inserting the first signing key keeps IInv.
LEMMA InsertKeyStep == ASSUME IInv, NEW r \in Replicas, InsertSigningKey(r) PROVE IInv'
  <1> USE DEF PastKeys, PastAdmin, PastService
  <1>1. r \notin healthy
    BY NotHealthy DEF InsertSigningKey
  <1>2. ASSUME CurrentKeys = {}, NEW k \in Keys, NewKey(k), key' = [key EXCEPT ![k] = "current"],
               Goto(r, "countHumans")
        PROVE  IInv'
    <2>1. key[k] = "none" /\ \A j \in Keys : key[j] = "none"
      BY <1>2 DEF IInv, KeysOK, KeyExists, NewKey
    <2>2. /\ key' \in [Keys -> {"none", "current", "deprecated", "stale"}] /\ key'[k] = "current"
          /\ \A j \in Keys \ {k} : key'[j] = "none"
      BY <1>2, <2>1 DEF IInv, TypeOK
    <2>3. KeysOK' /\ KeyExists'
      BY <2>1, <2>2, NewCurrentKey
    <2>4. UNCHANGED <<admin, service, invite, account, process>>
      BY DEF InsertSigningKey
    <2>5. Keeps /\ InvitesRegisterOnce'
      BY <2>3, <2>4 DEF Keeps, AdminOK, Humans, IInv, InvitesRegisterOnce
    <2>6. admin' \in {"absent", "plain", "superuser"} /\ service' \in {"absent", "superuser", "other"}
      BY <2>4 DEF IInv, TypeOK
    <2> QED
      BY <1>1, <1>2, <2>2, <2>3, <2>4, <2>5, <2>6, BootStep
  <1>3. CASE CurrentKeys # {} /\ Abort(r) /\ UNCHANGED key
    BY <1>1, <1>3, BootReadStep DEF InsertSigningKey, Abort, database
  <1> QED
    BY <1>2, <1>3 DEF InsertSigningKey

\* Counting the human users keeps IInv.
LEMMA CountHumansStep == ASSUME IInv, NEW r \in Replicas, CountHumanUsers(r) PROVE IInv'
  <1> USE DEF CountHumanUsers, PastKeys, PastAdmin, PastService
  <1>1. r \notin healthy /\ KeyExists
    BY NotHealthy DEF IInv, ReplicaOK
  <1>2. CASE AdminConfigured /\ admin = "absent" /\ Humans = {}
    BY <1>1, <1>2, BootReadStep
  <1>3. CASE ~(AdminConfigured /\ admin = "absent" /\ Humans = {})
    BY <1>1, <1>3, BootReadStep DEF AdminOK
  <1> QED
    BY <1>2, <1>3

\* A step of startup that writes the account of the administrator.
LEMMA AdminStep ==
    ASSUME IInv, NEW r \in Replicas, NEW pc \in {"elevate", "lookup"}, Goto(r, pc),
           rep[r] \in PastKeys,
           r \notin healthy, admin' \in {"plain", "superuser"},
           UNCHANGED <<key, service, invite, account, process>>
    PROVE  IInv'
  <1>1. KeyExists /\ KeyExists' /\ KeysOK'
    BY DEF IInv, ReplicaOK, KeyExists, KeysOK, CurrentKeys
  <1>2. AdminOK' /\ InvitesRegisterOnce'
    BY DEF AdminOK, IInv, InvitesRegisterOnce, Humans
  <1>3. Keeps
    BY <1>1, <1>2 DEF Keeps
  <1>4. /\ key' \in [Keys -> {"none", "current", "deprecated", "stale"}]
        /\ service' \in {"absent", "superuser", "other"}
    BY DEF IInv, TypeOK
  <1> QED
    BY <1>1, <1>2, <1>3, <1>4, BootStep DEF PastKeys, PastService

\* Creating and elevating the administrator keep IInv.
LEMMA AdminSteps == ASSUME IInv, NEW r \in Replicas, CreateAdmin(r) \/ ElevateAdmin(r) PROVE IInv'
  <1>1. r \notin healthy /\ rep[r] \in PastKeys
    BY NotHealthy DEF CreateAdmin, ElevateAdmin, PastKeys
  <1>2. CASE CreateAdmin(r) /\ Abort(r) /\ UNCHANGED admin
    BY <1>1, <1>2, BootReadStep DEF CreateAdmin, Abort, database, PastKeys, PastAdmin, PastService
  <1> QED
    BY <1>1, <1>2, AdminStep DEF CreateAdmin, ElevateAdmin

\* Looking up the service account keeps IInv.
LEMMA LookupStep == ASSUME IInv, NEW r \in Replicas, LookupService(r) \/ LookupAgain(r) PROVE IInv'
  <1> USE DEF PastKeys, PastAdmin, PastService
  <1>1. r \notin healthy /\ KeyExists /\ AdminOK
    BY NotHealthy DEF LookupService, LookupAgain, IInv, ReplicaOK
  <1>2. UNCHANGED <<database, process>>
    BY DEF LookupService, LookupAgain
  <1>3. CASE Goto(r, "bind") /\ (r \in conf => service = "superuser")
    BY <1>1, <1>2, <1>3, BootReadStep
  <1>4. CASE Goto(r, "createService") \/ Abort(r)
    BY <1>1, <1>2, <1>4, BootReadStep DEF Abort
  <1> QED
    BY <1>3, <1>4 DEF LookupService, LookupAgain, AcceptService

\* Creating the service account keeps IInv.
LEMMA CreateServiceStep == ASSUME IInv, NEW r \in Replicas, CreateServiceUser(r) PROVE IInv'
  <1> USE DEF PastKeys, PastAdmin, PastService
  <1>1. r \notin healthy /\ KeyExists /\ AdminOK
    BY NotHealthy DEF CreateServiceUser, IInv, ReplicaOK
  <1>2. UNCHANGED <<key, admin, invite, account, process>>
    BY DEF CreateServiceUser
  <1>3. CASE service # "absent" /\ Goto(r, "lookAgain") /\ UNCHANGED service
    BY <1>1, <1>2, <1>3, BootReadStep DEF database
  <1>4. CASE service = "absent" /\ service' = "superuser" /\ Goto(r, "bind")
    <2>1. KeyExists' /\ KeysOK' /\ AdminOK' /\ InvitesRegisterOnce'
      BY <1>1, <1>2 DEF KeyExists, IInv, KeysOK, CurrentKeys, AdminOK, Humans, InvitesRegisterOnce
    <2>2. Keeps
      BY <1>4, <2>1 DEF Keeps
    <2>3. key' \in [Keys -> {"none", "current", "deprecated", "stale"}] /\ admin' \in {"absent", "plain", "superuser"}
      BY <1>2 DEF IInv, TypeOK
    <2> QED
      BY ZenonT(40), <1>1, <1>2, <1>4, <2>1, <2>2, <2>3, BootStep
  <1> QED
    BY <1>3, <1>4 DEF CreateServiceUser

\* Binding the listeners keeps IInv.
LEMMA BindStep == ASSUME IInv, NEW r \in Replicas, BindListeners(r) PROVE IInv'
  <1> USE DEF PastKeys, PastAdmin, PastService
  <1>1. /\ r \notin healthy /\ KeyExists /\ AdminOK
        /\ r \in conf => service = "superuser"
    BY NotHealthy DEF BindListeners, IInv, ReplicaOK
  <1>2. UNCHANGED <<database, process>>
    BY DEF BindListeners
  <1>3. CASE Goto(r, "bound")
    BY <1>1, <1>2, <1>3, BootReadStep
  <1>4. CASE Abort(r)
    BY <1>1, <1>2, <1>4, BootReadStep DEF Abort
  <1> QED
    BY <1>3, <1>4 DEF BindListeners

\* A replica moves outside startup; only a healthy one is serving.
LEMMA LifeStep ==
    ASSUME IInv, NEW r \in Replicas,
           NEW pc \in {"down", "countKeys", "serving", "draining", "overdue"},
           Goto(r, pc), UNCHANGED database,
           conf' \subseteq Replicas, healthy' \subseteq Replicas,
           call' \in [Replicas -> Call \cup {NoCall}], starts' \in 0..MaxStarts,
           \A q \in Replicas \ {r} : (q \in conf' <=> q \in conf) /\ (q \in healthy' <=> q \in healthy),
           pc = "serving" => rep[r] \in PastService /\ (r \in conf' <=> r \in conf),
           r \in healthy' => pc = "serving"
    PROVE  IInv'
  <1>1. UNCHANGED <<key, admin, service, invite, account>>
    BY DEF database
  <1>2. Keeps /\ KeysOK' /\ InvitesRegisterOnce'
    BY SameDatabaseKeeps
  <1>3. rep'[r] = pc /\ \A q \in Replicas \ {r} : rep'[q] = rep[q]
    BY DEF IInv, TypeOK, Goto
  <1>4. rep' \in [Replicas -> {"down", "countKeys", "insertKey", "countHumans", "createAdmin",
                               "elevate", "lookup", "createService", "lookAgain", "bind",
                               "bound", "serving", "draining", "overdue"}]
    BY DEF IInv, TypeOK, Goto
  <1>5. TypeOK'
    BY <1>1, <1>4 DEF IInv, TypeOK
  <1>6. ReplicaOK(r)'
    BY <1>1, <1>2, <1>3 DEF IInv, ReplicaOK, Keeps, PastKeys, PastAdmin, PastService
  <1> QED
    BY <1>2, <1>3, <1>5, <1>6, ReplicaStep

\* Starting, serving, shutting down and crashing keep IInv.
LEMMA LifeSteps ==
    ASSUME IInv, NEW r \in Replicas,
           Start(r) \/ Serve(r) \/ BeginShutdown(r) \/ ShutdownDeadline(r) \/ Exit(r) \/ Crash(r)
    PROVE  IInv'
  <1>1. /\ conf \subseteq Replicas /\ healthy \subseteq Replicas
        /\ call \in [Replicas -> Call \cup {NoCall}] /\ starts \in 0..MaxStarts
    BY DEF IInv, TypeOK
  <1>2. [call EXCEPT ![r] = NoCall] \in [Replicas -> Call \cup {NoCall}]
    BY <1>1
  <1>3. rep[r] # "serving" => r \notin healthy
    BY NotHealthy
  <1>4. CASE Start(r)
    <2>1. starts' \in 0..MaxStarts
      BY <1>1, <1>4, StartupBoundsAssumption DEF Start
    <2> QED
      BY <1>1, <1>3, <1>4, <2>1, LifeStep DEF Start
  <1>5. CASE Serve(r)
    BY <1>1, <1>5, LifeStep DEF Serve, PastService
  <1>6. CASE BeginShutdown(r)
    BY <1>1, <1>6, LifeStep DEF BeginShutdown
  <1>7. CASE ShutdownDeadline(r)
    BY <1>1, <1>3, <1>7, LifeStep DEF ShutdownDeadline, process
  <1>8. CASE Exit(r)
    BY <1>1, <1>2, <1>3, <1>8, LifeStep DEF Exit, Leave, AnswerCall
  <1>9. CASE Crash(r)
    BY <1>1, <1>2, <1>9, LifeStep DEF Crash, AnswerCall
  <1> QED
    BY <1>4, <1>5, <1>6, <1>7, <1>8, <1>9

\* A rotation replaces the current key by one new current key.
LEMMA RotateStep == ASSUME IInv, NEW r \in Replicas, RotateSigningKey(r) PROVE IInv'
  <1>1. PICK k \in Keys :
            /\ NewKey(k)
            /\ key' = [j \in Keys |-> IF j = k THEN "current"
                                      ELSE IF key[j] = "current" THEN "deprecated" ELSE key[j]]
    BY DEF RotateSigningKey
  <1>2. /\ key[k] = "none" /\ key'[k] = "current"
        /\ key' \in [Keys -> {"none", "current", "deprecated", "stale"}]
        /\ \A j \in Keys \ {k} : key'[j] # "current" /\ (key[j] # "none" => key'[j] # "none")
    BY <1>1 DEF NewKey, IInv, TypeOK
  <1>3. KeysOK' /\ KeyExists'
    BY <1>2, NewCurrentKey
  <1>4. UNCHANGED <<admin, service, invite, account, rep, conf, healthy, call, starts>>
    BY Zenon DEF RotateSigningKey, process
  <1>5. Keeps /\ InvitesRegisterOnce'
    BY <1>3, <1>4 DEF Keeps, AdminOK, Humans, IInv, InvitesRegisterOnce
  <1>6. TypeOK'
    BY <1>2, <1>4 DEF IInv, TypeOK
  <1> QED
    BY <1>3, <1>4, <1>5, <1>6, ServiceStep

\* The end of a grace period drops no current key.
LEMMA GraceStep == ASSUME IInv, NEW k \in Keys, GraceEnds(k) PROVE IInv'
  <1>1. UNCHANGED <<admin, service, invite, account, rep, conf, healthy, call, starts>>
    BY DEF GraceEnds, process
  <1>2. /\ key' \in [Keys -> {"none", "current", "deprecated", "stale"}]
        /\ \A j \in Keys : key'[j] = "current" <=> key[j] = "current"
        /\ \A j \in Keys : key'[j] = "none" <=> key[j] = "none"
    BY DEF GraceEnds, IInv, TypeOK
  <1>3. CurrentKeys' = CurrentKeys /\ (KeyExists' <=> KeyExists)
    BY Zenon, <1>2 DEF CurrentKeys, KeyExists
  <1>4. KeysOK' /\ Keeps /\ InvitesRegisterOnce'
    BY <1>1, <1>3 DEF IInv, KeysOK, Keeps, AdminOK, Humans, InvitesRegisterOnce
  <1>5. TypeOK'
    BY <1>1, <1>2 DEF IInv, TypeOK
  <1> QED
    BY <1>1, <1>4, <1>5, ServiceStep

\* An invite nobody has registered with changes.
LEMMA InviteStep ==
    ASSUME IInv, NEW i \in Invites, invite[i].state # "used", invite' \in [Invites -> Invite],
           \A j \in Invites \ {i} : invite'[j] = invite[j],
           UNCHANGED <<key, admin, service, account, rep, process>>
    PROVE  IInv'
  <1>1. UNCHANGED <<conf, healthy, call, starts>>
    BY DEF process
  <1>2. \A p \in Humans : account[p].by # i /\ account[p].by \in 0..MaxInvites
    BY DEF IInv, TypeOK, Account, Humans, InvitesRegisterOnce, Invites
  <1>3. InvitesRegisterOnce'
    BY ZenonT(40), <1>2, Numbers DEF IInv, InvitesRegisterOnce, Humans
  <1>4. KeysOK' /\ Keeps
    BY DEF IInv, KeysOK, KeyExists, CurrentKeys, Keeps, AdminOK, Humans
  <1>5. TypeOK'
    BY <1>1 DEF IInv, TypeOK
  <1> QED
    BY ZenonT(40), <1>1, <1>3, <1>4, <1>5, ServiceStep

\* Creating and expiring invites keep IInv.
LEMMA InviteSteps ==
    ASSUME IInv, NEW i \in Invites,
           InviteExpires(i) \/ \E r \in Replicas : CreateRegistrationInvite(r, i)
    PROVE  IInv'
  <1>1. CASE InviteExpires(i)
    <2>1. [invite[i] EXCEPT !.state = "past"] \in Invite
      BY Zenon DEF IInv, TypeOK, Invite
    <2> QED
      BY <1>1, <2>1, InviteStep DEF InviteExpires, IInv, TypeOK
  <1>2. ASSUME NEW r \in Replicas, CreateRegistrationInvite(r, i) PROVE IInv'
    BY <1>2, InviteStep DEF CreateRegistrationInvite, IInv, TypeOK
  <1> QED
    BY <1>1, <1>2

\* A step of a registration request that leaves the database alone.
LEMMA CallStep ==
    ASSUME IInv, call' \in [Replicas -> Call \cup {NoCall}],
           UNCHANGED <<database, conf, rep, healthy, starts>>
    PROVE  IInv'
  <1>1. Keeps /\ KeysOK' /\ InvitesRegisterOnce'
    BY SameDatabaseKeeps
  <1>2. TypeOK'
    BY Zenon DEF IInv, TypeOK, database
  <1> QED
    BY <1>1, <1>2, ServiceStep

\* An account is created, with the invite it names claimed in the same step.
LEMMA AccountStep ==
    ASSUME IInv, NEW r \in Replicas, NEW p \in People, NEW i \in 0..MaxInvites,
           NEW super \in BOOLEAN,
           ~account[p].exists, AnswerCall(r),
           account' = [account EXCEPT ![p] = [exists |-> TRUE, superuser |-> super, by |-> i]],
           super => i # 0 /\ invite[i].superuser,
           i # 0 => /\ Admits(i, p) /\ invite'[i].state = "used"
                    /\ invite'[i].for = invite[i].for /\ invite'[i].superuser = invite[i].superuser,
           invite' \in [Invites -> Invite],
           \A j \in Invites : j # i => invite'[j] = invite[j],
           UNCHANGED <<key, admin, service, conf, rep, healthy, starts>>
    PROVE  IInv'
  <1> DEFINE a == [exists |-> TRUE, superuser |-> super, by |-> i]
  <1>1. a \in Account /\ a.exists /\ a.superuser = super /\ a.by = i
    BY Zenon DEF Account
  <1>2. account' \in [People -> Account] /\ account'[p] = a /\ \A q \in People \ {p} : account'[q] = account[q]
    BY Zenon, <1>1 DEF IInv, TypeOK
  <1>3. Humans' = Humans \cup {p} /\ p \notin Humans
    BY <1>1, <1>2 DEF Humans
  <1>4. call' \in [Replicas -> Call \cup {NoCall}]
    BY Zenon DEF AnswerCall, IInv, TypeOK
  <1>5. TypeOK'
    BY Zenon, <1>2, <1>4 DEF IInv, TypeOK
  <1>6. KeysOK' /\ Keeps
    BY Zenon, <1>3 DEF IInv, KeysOK, KeyExists, CurrentKeys, Keeps, AdminOK
  <1>7. \A q \in Humans : q \in People /\ account[q].by \in 0..MaxInvites
    BY Zenon DEF Humans, IInv, TypeOK, Account
  <1>8. \A q \in Humans : i # 0 => account[q].by # i
    BY Zenon DEF IInv, InvitesRegisterOnce, Admits
  <1> HIDE DEF a
  <1>9. /\ account'[p].superuser => account'[p].by # 0 /\ invite'[account'[p].by].superuser
        /\ account'[p].by # 0 =>
            /\ invite'[account'[p].by].state = "used"
            /\ invite'[account'[p].by].for \in {p, Anyone}
            /\ \A q \in Humans' : account'[q].by = account'[p].by => q = p
    BY Zenon, <1>1, <1>2, <1>3, <1>7, <1>8 DEF Admits
  <1>10. ASSUME NEW q \in Humans
         PROVE  /\ account'[q] = account[q] /\ (account[q].by # 0 => invite'[account[q].by] = invite[account[q].by])
    BY Zenon, <1>2, <1>3, <1>7, <1>8, Numbers
  <1>11. ASSUME NEW q \in Humans
         PROVE  /\ account'[q].superuser => account'[q].by # 0 /\ invite'[account'[q].by].superuser
                /\ account'[q].by # 0 =>
                    /\ invite'[account'[q].by].state = "used"
                    /\ invite'[account'[q].by].for \in {q, Anyone}
                    /\ \A s \in Humans' : account'[s].by = account'[q].by => s = q
    <2>1. account'[q] = account[q] /\ (account[q].by # 0 => invite'[account[q].by] = invite[account[q].by])
      BY Zenon, <1>10
    <2>2. /\ account[q].superuser => account[q].by # 0 /\ invite[account[q].by].superuser
          /\ account[q].by # 0 => /\ invite[account[q].by].state = "used"
                                 /\ invite[account[q].by].for \in {q, Anyone}
                                 /\ \A s \in Humans : account[s].by = account[q].by => s = q
      BY Zenon DEF IInv, InvitesRegisterOnce
    <2>3. ASSUME account[q].by # 0, NEW s \in Humans', account'[s].by = account[q].by PROVE s = q
      <3>1. CASE s = p
        BY Zenon, <1>1, <1>2, <1>8, <2>3, <3>1
      <3>2. CASE s # p
        BY Zenon, <1>3, <1>10, <2>2, <2>3, <3>2
      <3> QED
        BY Zenon, <3>1, <3>2
    <2> QED
      BY Zenon, <2>1, <2>2, <2>3
  <1>12. InvitesRegisterOnce'
    BY <1>3, <1>9, <1>11 DEF InvitesRegisterOnce
  <1> QED
    BY Zenon, <1>5, <1>6, <1>12, ServiceStep

\* Registrations keep IInv: an invite registers one account.
LEMMA RegisterSteps ==
    ASSUME IInv, NEW r \in Replicas,
           \/ RegisterHumanOpen(r) \/ RegisterHumanWithInvite(r) \/ RegisterFails(r)
           \/ \E p \in People, i \in 0..MaxInvites : Register(r, p, i)
    PROVE  IInv'
  <1>1. ASSUME NEW p \in People, NEW i \in 0..MaxInvites, Register(r, p, i) PROVE IInv'
    <2>1. [person |-> p, invite |-> i] \in Call
      BY DEF Call
    <2>2. call' \in [Replicas -> Call \cup {NoCall}]
      BY Zenon, <1>1, <2>1 DEF Register, IInv, TypeOK
    <2> QED
      BY <1>1, <2>2, CallStep DEF Register
  <1>2. CASE RegisterFails(r)
    BY <1>2, CallStep DEF RegisterFails, AnswerCall, IInv, TypeOK
  <1>3. ASSUME call[r] # NoCall
        PROVE  \E p \in People, i \in 0..MaxInvites : call[r].person = p /\ call[r].invite = i
    BY <1>3 DEF IInv, TypeOK, Call
  <1>4. CASE RegisterHumanOpen(r)
    <2>1. PICK p \in People, i \in 0..MaxInvites : call[r].person = p /\ call[r].invite = i
      BY Zenon, <1>3, <1>4 DEF RegisterHumanOpen
    <2>2. /\ i = 0 /\ ~account[p].exists /\ AnswerCall(r)
          /\ account' = [account EXCEPT ![p] = [exists |-> TRUE, superuser |-> FALSE, by |-> i]]
          /\ UNCHANGED <<key, admin, service, invite, conf, rep, healthy, starts>>
      BY Zenon, <1>4, <2>1 DEF RegisterHumanOpen
    <2>3. invite' \in [Invites -> Invite]
      BY Zenon, <2>2 DEF IInv, TypeOK
    <2> QED
      BY Zenon, <2>2, <2>3, AccountStep
  <1>5. CASE RegisterHumanWithInvite(r)
    <2>1. PICK p \in People, i \in 0..MaxInvites : call[r].person = p /\ call[r].invite = i
      BY <1>3, <1>5 DEF RegisterHumanWithInvite
    <2>2. /\ i # 0 /\ ~account[p].exists /\ AnswerCall(r) /\ Admits(i, p)
          /\ account' = [account EXCEPT ![p] = [exists |-> TRUE, superuser |-> invite[i].superuser, by |-> i]]
          /\ invite' = [invite EXCEPT ![i].state = "used"]
          /\ UNCHANGED <<key, admin, service, conf, rep, healthy, starts>>
      BY <1>5, <2>1 DEF RegisterHumanWithInvite
    <2>3. i \in Invites /\ invite[i] \in Invite /\ invite \in [Invites -> Invite]
      BY <2>2, Numbers DEF IInv, TypeOK
    <2>4. PICK super \in BOOLEAN : super = invite[i].superuser
      BY <2>3 DEF Invite
    <2>5. [invite[i] EXCEPT !.state = "used"] \in Invite
      BY <2>3 DEF Invite
    <2>6. /\ invite' \in [Invites -> Invite]
          /\ \A j \in Invites : j # i => invite'[j] = invite[j]
      BY <2>2, <2>3, <2>5
    <2>7. /\ invite'[i].state = "used" /\ invite'[i].for = invite[i].for
          /\ invite'[i].superuser = invite[i].superuser
      BY <2>2, <2>3 DEF Invite
    <2>8. /\ super => i # 0 /\ invite[i].superuser
          /\ account' = [account EXCEPT ![p] = [exists |-> TRUE, superuser |-> super, by |-> i]]
      BY <2>2, <2>4
    <2> QED
      BY Zenon, <2>2, <2>6, <2>7, <2>8, AccountStep
  <1> QED
    BY <1>1, <1>2, <1>4, <1>5

\* Creating a service account over the API keeps IInv.
LEMMA CreateServiceAccountStep ==
    ASSUME IInv, NEW r \in Replicas, CreateServiceAccount(r)
    PROVE  IInv'
  <1>1. /\ UNCHANGED <<key, admin, invite, account, rep, conf, healthy, call, starts>>
        /\ service = "absent" /\ service' = "other"
    BY Zenon DEF CreateServiceAccount, process
  <1>2. KeysOK' /\ Keeps /\ InvitesRegisterOnce'
    BY <1>1 DEF IInv, KeysOK, KeyExists, CurrentKeys, Keeps, AdminOK, Humans, InvitesRegisterOnce
  <1>3. TypeOK'
    BY <1>1 DEF IInv, TypeOK
  <1> QED
    BY <1>1, <1>2, <1>3, ServiceStep

\* Every step keeps IInv.
LEMMA NextIInv == ASSUME IInv, [Next]_vars PROVE IInv'
  <1>1. ASSUME NEW r \in Replicas, Boot(r) PROVE IInv'
    BY <1>1, CountKeysStep, InsertKeyStep, CountHumansStep, AdminSteps, LookupStep,
       CreateServiceStep,
       BindStep, LifeSteps
    DEF Boot
  <1>2. ASSUME NEW r \in Replicas, Start(r) \/ BeginShutdown(r) \/ Finish(r) \/ Crash(r) PROVE IInv'
    BY <1>2, LifeSteps DEF Finish
  <1>3. CASE UNCHANGED vars
    <2>1. TypeOK' /\ UNCHANGED <<database, rep, conf, healthy>>
      BY <1>3 DEF vars, IInv, TypeOK, database
    <2> QED
      BY Zenon, <2>1, SameDatabaseKeeps, ServiceStep
  <1> QED
    BY Zenon, <1>1, <1>2, <1>3, RotateStep, CreateServiceAccountStep, RegisterSteps, InviteSteps,
       GraceStep
    DEF Next

\* IInv holds in every reachable state.
LEMMA Inductive == Spec => []IInv
  <1>1. Init => IInv
    BY InitIInv
  <1>2. IInv /\ [Next]_vars => IInv'
    BY NextIInv
  <1> QED
    BY <1>1, <1>2, PTL DEF Spec

\* Once there is a signing key, exactly one is current, however many replicas
\* bootstrap, rotate and crash (ensureSigningBootstrap, RotateSigningKey).
THEOREM OneKeyIsCurrent == Spec => []OneCurrentKey
  <1>1. IInv => OneCurrentKey
    BY Zenon DEF IInv, KeysOK, KeyExists, OneCurrentKey
  <1> QED
    BY <1>1, Inductive, PTL

\* A replica that reports SERVING has completed its bootstrap, whatever the
\* other replicas and the administrators have done to the database meanwhile
\* (run of main.go).
THEOREM ServingReplicasAreReady == Spec => []ServingIsReady
  <1>1. ASSUME IInv PROVE ServingIsReady
    <2> SUFFICES ASSUME NEW r \in healthy
                 PROVE  /\ rep[r] = "serving" /\ CurrentKeys # {}
                        /\ r \in conf => service = "superuser"
                        /\ AdminConfigured => admin # "absent" \/ Humans # {}
      BY DEF ServingIsReady
    <2>1. r \in Replicas /\ rep[r] = "serving" /\ ReplicaOK(r)
      BY <1>1 DEF IInv, TypeOK, ReplicaOK
    <2>2. KeyExists /\ AdminOK /\ (r \in conf => service = "superuser")
      BY <2>1 DEF ReplicaOK, PastKeys, PastAdmin, PastService
    <2>3. CurrentKeys # {}
      BY <1>1, <2>2 DEF IInv, KeysOK
    <2> QED
      BY <2>1, <2>2, <2>3 DEF AdminOK
  <1> QED
    BY <1>1, Inductive, PTL

\* Two people never register with one invite, and an invite gives nobody more
\* than it was created for (Register, RegisterHumanWithInvite).
THEOREM InvitesAreUsedOnce == Spec => []InvitesRegisterOnce
  <1>1. IInv => InvitesRegisterOnce
    BY DEF IInv
  <1> QED
    BY <1>1, Inductive, PTL

-----------------------------------------------------------------------------
(* The public mail queue, for any number of workers, clients and callers   *)
(* of Shutdown, and for any size of the queue.                             *)

Buffered(k) == \E i \in 1..Len(jobs) : jobs[i] = k
Running(k) == \E w \in Workers : worker[w] = [pc |-> "run", job |-> k]

\* The two sides of the RWMutex: a request that may send has seen accepting
\* under the read lock, and the channel is closed only after it was reset.
LockOK ==
    /\ \A c \in Clients : client[c].pc = "offer" => accepting
    /\ \A c \in Clients : client[c].pc # "idle" => client[c].job \in Job
    /\ \A s \in Stoppers : stopper[s] = "close" => ~accepting
    /\ closed => ~accepting
    /\ ~panicked

\* An accepted job is in the channel, with a worker or finished, also after a
\* cancellation; and only accepted jobs are.
JobsOK ==
    /\ \A k \in accepted : k \in finished \/ Buffered(k) \/ Running(k)
    /\ \A k \in Job : Buffered(k) \/ Running(k) \/ k \in finished => k \in accepted
    /\ \A w \in Workers : worker[w].pc = "run" => worker[w].job \in Job

\* Unless a caller gave up, a worker leaves only a channel that is closed and
\* empty, and the context is cancelled only when all of them have left.
ExitOK ==
    /\ done => closer = "closed"
    /\ closer # "workers" => \A w \in Workers : worker[w].pc = "exited"
    /\ ~Expired /\ cancelled => closer # "workers"
    /\ ~Expired => \A w \in Workers : worker[w].pc = "exited" => closed /\ jobs = <<>>

MailInv == MailTypeOK /\ LockOK /\ JobsOK /\ ExitOK

\* A queue that has just been made satisfies MailInv.
LEMMA InitMailInv ==
    MailInit => MailInv
  <1> SUFFICES ASSUME MailInit PROVE MailInv
    OBVIOUS
  <1>1. MailTypeOK
    <2>1. client \in [Clients -> Client] /\ worker \in [Workers -> Worker]
      BY JobsAssumption DEF MailInit, Waiting, Selecting, Client, Worker
    <2>2. jobs \in Seq(Job) /\ Len(jobs) <= Capacity
      BY CapacityAssumption DEF MailInit
    <2>3. logs \in 0..LogCapacity /\ nextJob \in 1..(MaxJobs + 1)
      BY CapacityAssumption, JobsAssumption DEF MailInit
    <2> QED
      BY Zenon, <2>1, <2>2, <2>3 DEF MailInit, MailTypeOK
  <1>2. LockOK
    BY DEF MailInit, LockOK, Waiting
  <1>3. JobsOK
    BY DEF MailInit, JobsOK, Buffered, Running, Selecting
  <1>4. ExitOK
    BY DEF MailInit, ExitOK, Selecting
  <1> QED
    BY <1>1, <1>2, <1>3, <1>4 DEF MailInv

\* A line fits the log's buffer or is dropped.
LEMMA LoggedType ==
    ASSUME MailInv, Logged
    PROVE  logs' \in 0..LogCapacity
  BY CapacityAssumption DEF MailInv, MailTypeOK, Logged

\* The channel, the workers and what they have done stay as they are.
LEMMA QueueFrame ==
    ASSUME MailInv, UNCHANGED <<jobs, worker, accepted, finished>> PROVE JobsOK'
  BY Zenon DEF MailInv, JobsOK, Buffered, Running

\* What the queue's state says of an exit depends on these variables only.
LEMMA ExitFrame ==
    ASSUME MailInv, UNCHANGED <<jobs, worker, closed, done, closer, cancelled, stopper>>
    PROVE  ExitOK'
  BY DEF MailInv, ExitOK, Expired

\* A client that takes the read lock keeps MailInv.
LEMMA ClientLockStep ==
    ASSUME MailInv, NEW c \in Clients, ClientLock(c)
    PROVE  MailInv'
  <1> USE DEF ClientLock
  <1>1. nextJob \in Job /\ nextJob' \in 1..(MaxJobs + 1) /\ nextJob \in 0..MaxJobs
    BY JobsAssumption DEF MailInv, MailTypeOK, Job
  <1>2. [pc |-> "check", job |-> nextJob] \in Client
    BY Zenon, <1>1 DEF Client
  <1>3. /\ client' \in [Clients -> Client]
        /\ client'[c].pc = "check" /\ client'[c].job \in Job
        /\ \A d \in Clients \ {c} : client'[d] = client[d]
    BY Zenon, <1>1, <1>2 DEF MailInv, MailTypeOK
  <1>4. MailTypeOK'
    BY Zenon, <1>1, <1>3 DEF MailInv, MailTypeOK
  <1>5. LockOK'
    BY <1>3 DEF MailInv, LockOK
  <1> QED
    BY Zenon, <1>4, <1>5, QueueFrame, ExitFrame DEF MailInv

\* A client that checks for the close and enqueues keeps MailInv.
LEMMA ClientCheckStep ==
    ASSUME MailInv, NEW c \in Clients,
           ClientCheck(c)
    PROVE  MailInv'
  <1>1. Waiting \in Client /\ Waiting.pc = "idle"
    BY JobsAssumption DEF Waiting, Client
  <1>2. UNCHANGED <<accepting, closed, jobs, cancelled, done, once, stopper, worker,
                    logDone, closer, nextJob, accepted, finished, panicked>>
    BY DEF ClientCheck
  <1>3. logs' \in 0..LogCapacity
    BY LoggedType DEF ClientCheck, MailInv, MailTypeOK
  <1>4. /\ client' \in [Clients -> Client]
        /\ client'[c].pc = "offer" => accepting
        /\ client'[c].pc # "idle" => client'[c].job = client[c].job
        /\ \A d \in Clients \ {c} : client'[d] = client[d]
    <2>1. CASE accepting /\ client' = [client EXCEPT ![c].pc = "offer"]
      BY ZenonT(40), <2>1 DEF MailInv, MailTypeOK, Client
    <2>2. CASE client' = [client EXCEPT ![c] = Waiting]
      BY <1>1, <2>2 DEF MailInv, MailTypeOK
    <2> QED
      BY <2>1, <2>2 DEF ClientCheck
  <1>5. MailTypeOK'
    BY <1>2, <1>3, <1>4 DEF MailInv, MailTypeOK
  <1>6. LockOK'
    BY SMTT(40), <1>2, <1>4 DEF MailInv, LockOK, ClientCheck
  <1> QED
    BY <1>2, <1>5, <1>6, QueueFrame, ExitFrame DEF MailInv

\* What a sequence with one more job contains.
LEMMA AppendElements ==
    ASSUME NEW s \in Seq(Job), NEW e \in Job
    PROVE  /\ Append(s, e) \in Seq(Job) /\ Len(Append(s, e)) = Len(s) + 1
           /\ \A k \in Job : (\E i \in 1..Len(Append(s, e)) : Append(s, e)[i] = k)
                             <=> (k = e \/ \E i \in 1..Len(s) : s[i] = k)
  <1>1. Append(s, e) \in Seq(Job) /\ Len(Append(s, e)) = Len(s) + 1 /\ Len(s) \in Nat
    BY SMTT(40)
  <1>2. Append(s, e)[Len(s) + 1] = e /\ \A i \in 1..Len(s) : Append(s, e)[i] = s[i]
    OBVIOUS
  <1> QED
    BY <1>1, <1>2

\* What a sequence without its first job contains.
LEMMA TailElements ==
    ASSUME NEW s \in Seq(Job), s # <<>>
    PROVE  /\ Head(s) \in Job
           /\ Tail(s) \in Seq(Job)
           /\ Len(Tail(s)) = Len(s) - 1
           /\ Len(s) > 0
           /\ \A k \in Job : (k = Head(s) \/ \E i \in 1..Len(Tail(s)) : Tail(s)[i] = k)
                             <=> (\E i \in 1..Len(s) : s[i] = k)
  <1>1. /\ Head(s) = s[1]
        /\ Tail(s) \in Seq(Job)
        /\ Len(Tail(s)) = Len(s) - 1
        /\ Len(s) \in Nat
        /\ Len(s) > 0
    OBVIOUS
  <1>2. \A i \in 1..Len(Tail(s)) : Tail(s)[i] = s[i + 1]
    OBVIOUS
  <1>3. Head(s) \in Job
    BY <1>1
  <1>4. ASSUME NEW k \in Job, NEW i \in 1..Len(s), s[i] = k
        PROVE  k = Head(s) \/ \E j \in 1..Len(Tail(s)) : Tail(s)[j] = k
    <2>1. CASE i = 1
      BY <1>1, <1>4, <2>1
    <2>2. CASE i # 1
      <3>1. i - 1 \in 1..Len(Tail(s)) /\ Tail(s)[i - 1] = k
        BY <1>1, <1>2, <1>4, <2>2
      <3> QED
        BY Zenon, <3>1
    <2> QED
      BY <2>1, <2>2
  <1>5. ASSUME NEW k \in Job, k = Head(s) \/ \E j \in 1..Len(Tail(s)) : Tail(s)[j] = k
        PROVE  \E i \in 1..Len(s) : s[i] = k
    BY <1>1, <1>2, <1>5
  <1> QED
    BY <1>1, <1>3, <1>4, <1>5

\* The channel is open while a request may send on it, so the send never
\* panics.
LEMMA ClientOfferStep ==
    ASSUME MailInv, NEW c \in Clients,
           ClientOffer(c)
    PROVE  MailInv'
  <1> DEFINE e == client[c].job
  <1>1. Waiting \in Client /\ Waiting.pc = "idle"
    BY JobsAssumption DEF Waiting, Client
  <1>2. ~closed /\ e \in Job
    BY Zenon DEF ClientOffer, MailInv, LockOK
  <1>3. /\ client' \in [Clients -> Client] /\ client'[c].pc = "idle"
        /\ \A d \in Clients \ {c} : client'[d] = client[d]
    BY Zenon, <1>1 DEF ClientOffer, MailInv, MailTypeOK
  <1>4. UNCHANGED <<accepting, closed, cancelled, done, once, stopper, worker,
                    logDone, closer, nextJob, finished>>
    BY DEF ClientOffer
  <1>5. CASE HasRoom /\ jobs' = Append(jobs, e) /\ accepted' = accepted \cup {e} /\ UNCHANGED <<logs, panicked>>
    <2>1. /\ jobs \in Seq(Job) /\ jobs' \in Seq(Job) /\ Len(jobs') = Len(jobs) + 1
          /\ \A k \in Job : Buffered(k)' <=> (k = e \/ Buffered(k))
      BY <1>2, <1>5, AppendElements DEF MailInv, MailTypeOK, Buffered
    <2>2. Len(jobs') <= Capacity
      BY <1>5, <2>1, CapacityAssumption DEF HasRoom, MailInv, MailTypeOK
    <2>3. MailTypeOK'
      BY SMTT(40), <1>2, <1>3, <1>4, <1>5, <2>1, <2>2 DEF MailInv, MailTypeOK
    <2>4. LockOK'
      BY ZenonT(40), <1>3, <1>4, <1>5 DEF MailInv, LockOK
    <2>5. \A k \in Job : Running(k)' <=> Running(k)
      BY SMTT(40), <1>4 DEF Running
    <2>6. JobsOK'
      BY ZenonT(40), <1>2, <1>4, <1>5, <2>1, <2>5 DEF MailInv, MailTypeOK, JobsOK
    <2>7. ExitOK'
      BY ZenonT(40), <1>2, <1>4 DEF MailInv, ExitOK, Expired
    <2> QED
      BY Zenon, <2>3, <2>4, <2>6, <2>7 DEF MailInv
  <1>6. CASE Logged /\ UNCHANGED <<jobs, accepted, panicked>>
    <2>1. logs' \in 0..LogCapacity
      BY Zenon, <1>6, LoggedType
    <2>2. MailTypeOK'
      BY SMTT(40), <1>3, <1>4, <1>6, <2>1 DEF MailInv, MailTypeOK
    <2>3. LockOK'
      BY Zenon, <1>3, <1>4, <1>6 DEF MailInv, LockOK
    <2> QED
      BY <1>4, <1>6, <2>2, <2>3, QueueFrame, ExitFrame DEF MailInv
  <1> QED
    BY Zenon, <1>2, <1>5, <1>6 DEF ClientOffer

\* A worker that finds the queue closed and empty keeps MailInv.
LEMMA WorkerExitStep == ASSUME MailInv, NEW w \in Workers, WorkerExit(w) PROVE MailInv'
  <1>1. UNCHANGED <<accepting, closed, jobs, cancelled, done, once, client, stopper,
                    logs, logDone, closer, nextJob, accepted, finished, panicked>>
    BY DEF WorkerExit
  <1>2. /\ worker' \in [Workers -> Worker] /\ worker'[w].pc = "exited"
        /\ \A v \in Workers \ {w} : worker'[v] = worker[v]
    BY Zenon DEF WorkerExit, MailInv, MailTypeOK, Worker
  <1>3. MailTypeOK' /\ LockOK'
    BY <1>1, <1>2 DEF MailInv, MailTypeOK, LockOK
  <1>4. \A k \in Job : Running(k) <=> Running(k)'
    BY <1>2 DEF Running, WorkerExit
  <1>5. JobsOK'
    BY Zenon, <1>1, <1>2, <1>4 DEF MailInv, MailTypeOK, JobsOK, Buffered
  <1>6. ~Expired => closed /\ jobs = <<>>
    BY SMTT(40) DEF WorkerExit, WorkerMayExit, MailInv, ExitOK
  <1>7. ExitOK'
    BY ZenonT(40), <1>1, <1>2, <1>6 DEF MailInv, ExitOK, Expired
  <1> QED
    BY <1>3, <1>5, <1>7 DEF MailInv

\* A worker that takes a job keeps MailInv.
LEMMA WorkerTakeStep ==
    ASSUME MailInv, NEW w \in Workers,
           WorkerTake(w)
    PROVE  MailInv'
  <1> DEFINE h == Head(jobs)
  <1>1. UNCHANGED <<accepting, closed, cancelled, done, once, client, stopper,
                    logs, logDone, closer, nextJob, accepted, finished, panicked>>
    BY Zenon DEF WorkerTake
  <1>2. jobs \in Seq(Job) /\ jobs # <<>> /\ jobs' = Tail(jobs)
    BY Zenon DEF WorkerTake, MailInv, MailTypeOK
  <1>3. /\ h \in Job /\ jobs' \in Seq(Job) /\ Len(jobs') = Len(jobs) - 1
        /\ \A k \in Job : (k = h \/ Buffered(k)') <=> Buffered(k)
    BY <1>2, TailElements DEF Buffered
  <1>4. PICK g \in Job : g = h
    BY <1>3
  <1>5. [pc |-> "run", job |-> g] \in Worker
    BY Zenon, JobNumbers DEF Worker
  <1>6. /\ worker' \in [Workers -> Worker] /\ worker'[w] = [pc |-> "run", job |-> g]
        /\ \A v \in Workers \ {w} : worker'[v] = worker[v]
        /\ worker[w].pc = "select"
    BY <1>4, <1>5 DEF WorkerTake, MailInv, MailTypeOK
  <1>7. Len(jobs') <= Capacity
    BY SMTT(40), <1>2, <1>3, CapacityAssumption DEF MailInv, MailTypeOK
  <1>8. MailTypeOK' /\ LockOK'
    BY Zenon, <1>1, <1>3, <1>6, <1>7 DEF MailInv, MailTypeOK, LockOK
  <1>9. \A k \in Job : Running(k)' <=> (k = g \/ Running(k))
    <2>1. \A k : [pc |-> "run", job |-> g] = [pc |-> "run", job |-> k] => k = g
      BY Zenon, RunningJob
    <2>2. \A k : worker[w] # [pc |-> "run", job |-> k]
      BY Zenon, <1>6, RunningJob
    <2> QED
      BY Zenon, <1>6, <2>1, <2>2 DEF Running
  <1>10. JobsOK'
    <2>1. JobsOK /\ accepted \in SUBSET Job
      BY DEF MailInv, MailTypeOK
    <2>2. \A k \in Job : Buffered(k)' \/ Running(k)' <=> Buffered(k) \/ Running(k)
      BY Zenon, <1>3, <1>4, <1>9
    <2>3. \A v \in Workers : worker'[v].pc = "run" => worker'[v].job \in Job
      <3> TAKE v \in Workers
      <3>1. CASE v = w
        BY <1>4, <1>6, <3>1
      <3>2. CASE v # w
        <4>1. worker'[v] = worker[v]
          BY Zenon, <1>6, <3>2
        <4> QED
          BY Zenon, <2>1, <4>1 DEF JobsOK
      <3> QED
        BY Zenon, <3>1, <3>2
    <2> QED
      BY <1>1, <2>1, <2>2, <2>3 DEF JobsOK
  <1>11. ExitOK'
    <2>1. worker'[w].pc # "exited" /\ worker[w].pc # "exited"
      BY <1>6
    <2>2. \A v \in Workers \ {w} : worker'[v].pc = worker[v].pc
      BY Zenon, <1>6
    <2>3. closer = "workers"
      BY Zenon, <2>1 DEF MailInv, ExitOK
    <2>4. ~Expired => \A v \in Workers : worker[v].pc # "exited"
      BY Zenon, <1>2 DEF MailInv, ExitOK
    <2>5. Expired' <=> Expired
      BY Zenon, <1>1 DEF Expired
    <2> QED
      BY ZenonT(40), <1>1, <2>1, <2>2, <2>3, <2>4, <2>5 DEF MailInv, ExitOK
  <1> QED
    BY Zenon, <1>8, <1>10, <1>11 DEF MailInv

\* A worker that finishes its job keeps MailInv.
LEMMA WorkerFinishStep ==
    ASSUME MailInv, NEW w \in Workers,
           WorkerFinish(w)
    PROVE  MailInv'
  <1>1. UNCHANGED <<accepting, closed, jobs, cancelled, done, once, client, stopper,
                    logDone, closer, nextJob, accepted, panicked>>
    BY Zenon DEF WorkerFinish
  <1>2. logs' \in 0..LogCapacity
    BY LoggedType DEF WorkerFinish, MailInv, MailTypeOK
  <1>3. Selecting \in Worker /\ Selecting.pc = "select"
    BY JobsAssumption DEF Selecting, Worker
  <1>4. /\ worker' \in [Workers -> Worker] /\ worker'[w].pc = "select"
        /\ \A v \in Workers \ {w} : worker'[v] = worker[v]
    BY <1>3 DEF WorkerFinish, MailInv, MailTypeOK
  <1>5. PICK g : g = worker[w].job
    OBVIOUS
  <1>6. worker[w].pc = "run" /\ finished' = finished \cup {g}
    BY <1>5 DEF WorkerFinish
  <1>7. worker[w] = [pc |-> "run", job |-> g]
    BY SMTT(40), <1>5, <1>6 DEF MailInv, MailTypeOK, Worker
  <1>8. g \in Job
    BY Zenon, <1>5, <1>6 DEF MailInv, JobsOK
  <1>9. MailTypeOK' /\ LockOK'
    BY Zenon, <1>1, <1>2, <1>4, <1>6, <1>8 DEF MailInv, MailTypeOK, LockOK
  <1>10. \A k \in Job : /\ Running(k) => Running(k)' \/ k = g
                        /\ Running(k)' => Running(k)
    BY <1>4, <1>7 DEF Running
  <1>11. g \in accepted
    BY Zenon, <1>7, <1>8 DEF MailInv, JobsOK, Running
  <1>12. JobsOK'
    <2>1. JobsOK /\ accepted \subseteq Job
      BY DEF MailInv, MailTypeOK
    <2>2. \A k \in Job : Buffered(k)' <=> Buffered(k)
      BY Zenon, <1>1 DEF Buffered
    <2>3. \A k \in accepted' : k \in finished' \/ Buffered(k)' \/ Running(k)'
      <3> SUFFICES ASSUME NEW k \in accepted PROVE k \in finished' \/ Buffered(k)' \/ Running(k)'
        BY Zenon, <1>1
      <3>1. k \in Job /\ (k \in finished \/ Buffered(k) \/ Running(k))
        BY Zenon, <2>1 DEF JobsOK
      <3>2. Running(k) => Running(k)' \/ k = g
        BY Zenon, <1>10, <3>1
      <3> QED
        BY Zenon, <1>6, <2>2, <3>1, <3>2
    <2>4. \A k \in Job :
              Buffered(k)' \/ Running(k)' \/ k \in finished' => k \in accepted'
      BY ZenonT(40), <1>1, <1>6, <1>10, <1>11, <2>1, <2>2 DEF JobsOK
    <2>5. \A v \in Workers : worker'[v].pc = "run" => worker'[v].job \in Job
      BY SMTT(40), <1>4, <2>1 DEF JobsOK
    <2> QED
      BY <2>3, <2>4, <2>5 DEF JobsOK, Job
  <1>13. ExitOK'
    BY ZenonT(40), <1>1, <1>4, <1>6 DEF MailInv, ExitOK, Expired
  <1> QED
    BY <1>9, <1>12, <1>13 DEF MailInv

\* The log's goroutine keeps MailInv.
LEMMA LogStep ==
    ASSUME MailInv, LogTake \/ LogExit
    PROVE  MailInv'
  <1>1. UNCHANGED <<accepting, closed, jobs, cancelled, done, once, client, stopper,
                    worker, closer, nextJob, accepted, finished, panicked>>
    BY Zenon DEF LogTake, LogExit
  <1>2. logs' \in 0..LogCapacity
    BY CapacityAssumption DEF LogTake, LogExit, MailInv, MailTypeOK
  <1>3. logDone' \in BOOLEAN
    BY ZenonT(40) DEF LogTake, LogExit, MailInv, MailTypeOK
  <1>4. MailTypeOK' /\ LockOK'
    BY <1>1, <1>2, <1>3 DEF MailInv, MailTypeOK, LockOK
  <1> QED
    BY Zenon, <1>1, <1>4, QueueFrame, ExitFrame DEF MailInv

\* The context is cancelled here only after the last worker has left.
LEMMA CloserStep == ASSUME MailInv, CloserCancel \/ CloserDone PROVE MailInv'
  <1>1. UNCHANGED <<accepting, closed, jobs, once, client, stopper,
                    worker, logs, logDone, nextJob, accepted, finished, panicked>>
    BY Zenon DEF CloserCancel, CloserDone
  <1>2. /\ closer' \in {"log", "closed"} /\ cancelled' \in BOOLEAN /\ done' \in BOOLEAN
        /\ \A w \in Workers : worker[w].pc = "exited"
        /\ done' => closer' = "closed"
    <2>1. CASE CloserCancel
      <3>1. ~done /\ done \in BOOLEAN
        BY Zenon, <2>1 DEF CloserCancel, MailInv, MailTypeOK, ExitOK
      <3> QED
        BY Zenon, <2>1, <3>1 DEF CloserCancel
    <2>2. CASE CloserDone
      <3>1. cancelled \in BOOLEAN /\ \A w \in Workers : worker[w].pc = "exited"
        BY Zenon, <2>2 DEF CloserDone, MailInv, MailTypeOK, ExitOK
      <3> QED
        BY Zenon, <2>2, <3>1 DEF CloserDone
    <2> QED
      BY Zenon, <2>1, <2>2
  <1>3. MailTypeOK' /\ LockOK'
    BY SMTT(40), <1>1, <1>2 DEF MailInv, MailTypeOK, LockOK
  <1>4. ExitOK'
    BY Zenon, <1>1, <1>2 DEF MailInv, ExitOK, Expired
  <1> QED
    BY <1>1, <1>3, <1>4, QueueFrame DEF MailInv

\* StopLock waits for the requests that hold the read lock, and StopClose
\* follows it in the same caller.
LEMMA StopStepIInv ==
    ASSUME MailInv, NEW s \in Stoppers,
           StopFirst(s) \/ StopStep(s) \/ StopExpired(s)
    PROVE  MailInv'
  <1> DEFINE Stop == {"lock", "close", "wait", "drained", "expired"}
  <1>1. UNCHANGED <<jobs, done, client, worker, logs, logDone, closer,
                    nextJob, accepted, finished, panicked>>
    BY Zenon DEF StopFirst, StopStep, StopAgain, StopLock, StopClose,
        StopDrained, StopExpired
  <1>2. PICK v \in Stop : stopper' = [stopper EXCEPT ![s] = v]
    BY DEF StopFirst, StopStep, StopAgain, StopLock, StopClose,
        StopDrained, StopExpired
  <1>3. /\ stopper' \in [Stoppers -> {"idle", "lock", "close", "wait", "drained", "expired"}]
        /\ stopper'[s] = v
        /\ \A t \in Stoppers \ {s} : stopper'[t] = stopper[t]
    BY SMTT(40), <1>2 DEF MailInv, MailTypeOK
  <1>4. /\ accepting' \in BOOLEAN /\ closed' \in BOOLEAN /\ cancelled' \in BOOLEAN
        /\ once' \in {"new", "running", "done"}
    BY ZenonT(40) DEF StopFirst, StopStep, StopAgain, StopLock, StopClose,
        StopDrained, StopExpired, MailInv, MailTypeOK
  <1>5. MailTypeOK'
    BY Zenon, <1>1, <1>3, <1>4 DEF MailInv, MailTypeOK
  <1>6. /\ accepting' => accepting
        /\ accepting' # accepting => \A c \in Clients : client[c].pc = "idle"
        /\ closed' # closed => stopper[s] = "close" /\ ~accepting
        /\ v = "close" => ~accepting'
    BY <1>3
    DEF StopFirst, StopStep, StopAgain, StopLock, StopClose,
        StopDrained, StopExpired,
                HoldsRead, MailInv, LockOK, MailTypeOK
  <1>7. LockOK'
    BY SMTT(40), <1>1, <1>3, <1>4, <1>6 DEF MailInv, LockOK, MailTypeOK
  <1>8. /\ stopper[s] # "expired"
        /\ closed => closed'
        /\ cancelled' # cancelled => v = "expired"
    BY Zenon, <1>3
    DEF StopFirst, StopStep, StopAgain, StopLock, StopClose,
        StopDrained, StopExpired, MailInv, MailTypeOK
  <1>9. ~Expired' => ~Expired /\ cancelled' = cancelled
    BY SMTT(40), <1>3, <1>8 DEF Expired
  <1>10. ExitOK'
    <2>1. ExitOK
      BY DEF MailInv
    <2>2. \A w \in Workers : worker'[w] = worker[w]
      BY <1>1
    <2>3. /\ done' => closer' = "closed"
          /\ closer' # "workers" => \A w \in Workers : worker'[w].pc = "exited"
      BY ZenonT(40), <1>1, <2>1, <2>2 DEF ExitOK
    <2>4. ~Expired' /\ cancelled' => closer' # "workers"
      BY ZenonT(40), <1>1, <1>9, <2>1 DEF ExitOK
    <2>5. ~Expired'
          => \A w \in Workers : worker'[w].pc = "exited" => closed' /\ jobs' = <<>>
      BY ZenonT(40), <1>1, <1>8, <1>9, <2>1, <2>2 DEF ExitOK
    <2> QED
      BY ZenonT(40), <2>3, <2>4, <2>5 DEF ExitOK
  <1> QED
    BY Zenon, <1>1, <1>5, <1>7, <1>10, QueueFrame DEF MailInv

\* Every step keeps MailInv.
LEMMA NextMailInv ==
    MailInv /\ [MailNext]_mailVars => MailInv'
  <1> SUFFICES ASSUME MailInv, [MailNext]_mailVars PROVE MailInv'
    OBVIOUS
  <1>1. ASSUME NEW c \in Clients, ClientLock(c) \/ ClientStep(c) PROVE MailInv'
    BY <1>1, ClientLockStep, ClientCheckStep, ClientOfferStep DEF ClientStep
  <1>2. ASSUME NEW w \in Workers, WorkerStep(w) PROVE MailInv'
    BY <1>2, WorkerExitStep, WorkerTakeStep, WorkerFinishStep DEF WorkerStep
  <1>3. CASE LogTake \/ LogExit \/ CloserCancel \/ CloserDone
    BY <1>3, LogStep, CloserStep
  <1>4. ASSUME NEW s \in Stoppers, StopFirst(s) \/ StopStep(s) \/ StopExpired(s)
        PROVE  MailInv'
    BY Zenon, <1>4, StopStepIInv
  <1>5. CASE UNCHANGED mailVars
    <2>1. MailTypeOK' /\ LockOK'
      BY <1>5 DEF mailVars, MailInv, MailTypeOK, LockOK
    <2> QED
      BY Zenon, <1>5, <2>1, QueueFrame, ExitFrame DEF mailVars, MailInv
  <1> QED
    BY <1>1, <1>2, <1>3, <1>4, <1>5 DEF MailNext

\* MailInv holds in every reachable state.
LEMMA MailInductive ==
    MailSpec => []MailInv
  <1>1. MailInit => MailInv
    BY InitMailInv
  <1>2. MailInv /\ [MailNext]_mailVars => MailInv'
    BY NextMailInv
  <1> QED
    BY <1>1, <1>2, PTL DEF MailSpec

\* enqueue never sends on a closed channel, whatever the number of requests
\* and of concurrent calls of Shutdown (public_mail_queue.go: enqueue,
\* Shutdown).
THEOREM EnqueueNeverPanics ==
    MailSpec => []NeverPanics
  <1>1. MailInv => NeverPanics
    BY Zenon DEF MailInv, LockOK, NeverPanics
  <1> QED
    BY <1>1, MailInductive, PTL

\* An accepted job is buffered, with a worker or finished until Shutdown gives
\* up, for every queue size and worker pool (public_mail_queue.go: worker).
THEOREM AcceptedJobsAreKept ==
    MailSpec => []NothingLost
  <1>1. MailInv => NothingLost
    BY Zenon DEF MailInv, JobsOK, NothingLost, Buffered, Running
  <1> QED
    BY <1>1, MailInductive, PTL

\* When done closes and no caller of Shutdown gave up, every accepted job has
\* been run (public_mail_queue.go: Shutdown, "drains queued public mail").
THEOREM DoneMeansDrained ==
    MailSpec => []DrainedMeansFinished
  <1>1. MailInv => DrainedMeansFinished
    <2> SUFFICES ASSUME MailInv, done, ~Expired PROVE accepted = finished
      BY Zenon DEF DrainedMeansFinished
    <2>1. \A w \in Workers : worker[w].pc = "exited"
      BY DEF MailInv, ExitOK
    <2>2. jobs = <<>>
      BY Zenon, <2>1, WorkersAssumption DEF MailInv, ExitOK
    <2>3. \A k \in Job : ~Buffered(k) /\ ~Running(k)
      BY <2>1, <2>2, SMT DEF Buffered, Running
    <2> QED
      BY Zenon, <2>3 DEF MailInv, MailTypeOK, JobsOK
  <1> QED
    BY <1>1, MailInductive, PTL
=============================================================================
