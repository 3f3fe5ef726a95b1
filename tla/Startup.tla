------------------------------ MODULE Startup -------------------------------
(***************************************************************************)
(* The life of authd replicas over one database: run of cmd/authd/main.go  *)
(* with the bootstrap of signing keys (internal/service/signing.go) and of *)
(* accounts (bootstrap.go), the rotation of keys, registration (auth.go,   *)
(* invites.go), and graceful shutdown.                                     *)
(*                                                                         *)
(* Replicas start, crash and restart independently; each step of a startup *)
(* is one SQL statement or one of the calls of run.  The two statements of *)
(* a key rotation are one step: a second rotation waits for the row of the *)
(* current key, finds it no longer current and is refused by the index     *)
(* signing_keys_one_current.                                               *)
(***************************************************************************)
EXTENDS Naturals, FiniteSets

CONSTANTS
    Replicas,       \* authd processes
    AdminConfigured,    \* BOOTSTRAP_SUPERUSER_LOGIN is set
    People,         \* logins that may register
    Anyone,         \* an invite that is not locked to an e-mail address
    Locks,          \* bound: the people whose address an invite is locked to
    MaxKeys,        \* bound: signing keys
    MaxInvites,     \* bound: registration invites
    MaxStarts       \* bound: process starts

ASSUME ReplicasAssumption == IsFiniteSet(Replicas) /\ AdminConfigured \in BOOLEAN
ASSUME PeopleAssumption == Anyone \notin People /\ Locks \subseteq People
ASSUME StartupBoundsAssumption == MaxKeys \in Nat /\ MaxInvites \in Nat /\ MaxStarts \in Nat

VARIABLES
    key,        \* signing_keys
    admin,      \* the bootstrap administrator: "absent", "plain", "superuser"
    service,    \* the login of the bootstrap service: "absent", "superuser", "other"
    invite,     \* registration_invites
    account,    \* the registered people
    conf,       \* replicas started with BOOTSTRAP_SUPERUSER_SERVICE_LOGIN
    rep,        \* where each replica is in run
    healthy,    \* replicas whose health service answers SERVING
    call,       \* the registration request a replica is executing
    starts      \* process starts

vars == <<key, admin, service, invite, account, conf, rep, healthy, call, starts>>

Keys == 1..MaxKeys
Invites == 1..MaxInvites
Invite == [state : {"none", "open", "past", "used"}, superuser : BOOLEAN,
           for : Locks \cup {Anyone}]
NoInvite == [state |-> "none", superuser |-> FALSE, for |-> Anyone]
\* by: the invite a person registered with, 0 for open registration
Account == [exists : BOOLEAN, superuser : BOOLEAN, by : 0..MaxInvites]
NoAccount == [exists |-> FALSE, superuser |-> FALSE, by |-> 0]
Call == [person : People, invite : 0..MaxInvites]
NoCall == [person |-> Anyone, invite |-> 0]

Init ==
    /\ key = [k \in Keys |-> "none"]
    /\ admin = "absent" /\ service = "absent"
    /\ invite = [i \in Invites |-> NoInvite]
    /\ account = [p \in People |-> NoAccount]
    /\ conf = {}
    /\ rep = [r \in Replicas |-> "down"]
    /\ healthy = {}
    /\ call = [r \in Replicas |-> NoCall]
    /\ starts = 0

Goto(r, pc) == rep' = [rep EXCEPT ![r] = pc]
database == <<key, admin, service, invite, account>>
process == <<conf, healthy, call, starts>>

\* An error of a startup step ends run.
Abort(r) == Goto(r, "down")

CurrentKeys == {k \in Keys : key[k] = "current"}
Humans == {p \in People : account[p].exists}

-----------------------------------------------------------------------------
(* Startup                                                                 *)

\* The database is opened and migrated, and the service and its mail queue
\* are created.
Start(r) ==
    /\ rep[r] = "down"
    /\ starts < MaxStarts /\ starts' = starts + 1
    /\ conf' \in {conf \cup {r}, conf \ {r}}
    /\ Goto(r, "countKeys")
    /\ UNCHANGED <<database, healthy, call>>

\* ensureSigningBootstrap counts the keys.
CountSigningKeys(r) ==
    /\ rep[r] = "countKeys"
    /\ Goto(r, IF \E k \in Keys : key[k] # "none" THEN "countHumans" ELSE "insertKey")
    /\ UNCHANGED <<database, process>>

\* The smallest unused number stands for a fresh kid.
NewKey(k) == key[k] = "none" /\ \A j \in Keys : j < k => key[j] # "none"

InsertAnyKey(r) ==
    /\ rep[r] = "insertKey"
    /\ \E k \in Keys : NewKey(k) /\ key' = [key EXCEPT ![k] = "current"]
    /\ Goto(r, "countHumans")
    /\ UNCHANGED <<admin, service, invite, account, process>>

\* InsertSigningKey; the index refuses a second current key.
InsertSigningKey(r) ==
    /\ rep[r] = "insertKey"
    /\ \/ /\ CurrentKeys = {}
          /\ \E k \in Keys : NewKey(k) /\ key' = [key EXCEPT ![k] = "current"]
          /\ Goto(r, "countHumans")
       \/ CurrentKeys # {} /\ Abort(r) /\ UNCHANGED key
    /\ UNCHANGED <<admin, service, invite, account, process>>

\* EnsureBootstrapAdmin, when configured, counts the human users.
CountHumanUsers(r) ==
    /\ rep[r] = "countHumans"
    /\ Goto(r, IF AdminConfigured /\ admin = "absent" /\ Humans = {} THEN "createAdmin" ELSE "lookup")
    /\ UNCHANGED <<database, process>>

\* CreateHumanUser; its login is unique.
CreateAdmin(r) ==
    /\ rep[r] = "createAdmin"
    /\ \/ admin = "absent" /\ admin' = "plain" /\ Goto(r, "elevate")
       \/ admin # "absent" /\ Abort(r) /\ UNCHANGED admin
    /\ UNCHANGED <<key, service, invite, account, process>>

\* SetSuperuser, and then the first row of the password history.
ElevateAdmin(r) ==
    /\ rep[r] = "elevate"
    /\ admin' = "superuser"
    /\ Goto(r, "lookup")
    /\ UNCHANGED <<key, service, invite, account, process>>

\* bootstrapSuperuserServiceMatches: a superuser service with the configured
\* secret, or startup fails.
AcceptsAnything(r) == Goto(r, "bind")

AcceptService(r) == IF service = "superuser" THEN Goto(r, "bind") ELSE Abort(r)

\* EnsureBootstrapSuperuserService, when configured, looks its login up.
LookupService(r) ==
    /\ rep[r] = "lookup"
    /\ \/ r \notin conf /\ Goto(r, "bind")
       \/ r \in conf /\ service # "absent" /\ AcceptService(r)
       \/ r \in conf /\ service = "absent" /\ Goto(r, "createService")
    /\ UNCHANGED <<database, process>>

\* CreateServiceUser; when the login has been taken meanwhile, by another
\* replica or not, it is looked up again.
CreateServiceUser(r) ==
    /\ rep[r] = "createService"
    /\ \/ service = "absent" /\ service' = "superuser" /\ Goto(r, "bind")
       \/ service # "absent" /\ Goto(r, "lookAgain") /\ UNCHANGED service
    /\ UNCHANGED <<key, admin, invite, account, process>>

LookupAgain(r) ==
    /\ rep[r] = "lookAgain"
    /\ AcceptService(r)
    /\ UNCHANGED <<database, process>>

\* bindListeners binds both addresses or neither.
BindListeners(r) ==
    /\ rep[r] = "bind"
    /\ \E ok \in BOOLEAN : IF ok THEN Goto(r, "bound") ELSE Abort(r)
    /\ UNCHANGED <<database, process>>

\* The health service is set to SERVING and the servers start.
Serve(r) ==
    /\ rep[r] = "bound"
    /\ healthy' = healthy \cup {r}
    /\ Goto(r, "serving")
    /\ UNCHANGED <<database, conf, call, starts>>

-----------------------------------------------------------------------------
(* Signing keys                                                            *)

\* RotateSigningKey, by the ticker that run starts before it binds, or for a
\* superuser.
RotateSigningKey(r) ==
    /\ rep[r] \in {"bind", "bound", "serving"}
    /\ \E k \in Keys :
        /\ NewKey(k)
        /\ key' = [j \in Keys |-> IF j = k THEN "current"
                                  ELSE IF key[j] = "current" THEN "deprecated" ELSE key[j]]
    /\ UNCHANGED <<admin, service, invite, account, rep, process>>

\* secretForKID: the grace period of a deprecated key ends.
GraceEnds(k) ==
    /\ key[k] = "deprecated"
    /\ key' = [key EXCEPT ![k] = "stale"]
    /\ UNCHANGED <<admin, service, invite, account, rep, process>>

-----------------------------------------------------------------------------
(* Registration                                                            *)

SomeSuperuser == admin = "superuser" \/ service = "superuser" \/ \E p \in People : account[p].superuser

\* CreateRegistrationInvite, by a superuser.
CreateRegistrationInvite(r, i) ==
    /\ rep[r] = "serving"
    /\ SomeSuperuser
    /\ invite[i].state = "none"
    /\ \E v \in Invite : v.state = "open" /\ invite' = [invite EXCEPT ![i] = v]
    /\ UNCHANGED <<key, admin, service, account, rep, process>>

InviteExpires(i) ==
    /\ invite[i].state = "open"
    /\ invite' = [invite EXCEPT ![i].state = "past"]
    /\ UNCHANGED <<key, admin, service, account, rep, process>>

Admits(i, p) == invite[i].state = "open" /\ invite[i].for \in {p, Anyone}

\* Register: the invite, if there is one, is looked up and its e-mail lock
\* compared before the password is hashed.
Register(r, p, i) ==
    /\ rep[r] = "serving" /\ call[r] = NoCall
    /\ i # 0 => Admits(i, p)
    /\ call' = [call EXCEPT ![r] = [person |-> p, invite |-> i]]
    /\ UNCHANGED <<database, conf, rep, healthy, starts>>

AnswerCall(r) == call' = [call EXCEPT ![r] = NoCall]

\* RegisterHumanOpen never makes a superuser.
RegisterHumanOpen(r) ==
    LET p == call[r].person
    IN  /\ call[r] # NoCall /\ call[r].invite = 0
        /\ ~account[p].exists
        /\ account' = [account EXCEPT ![p] = [exists |-> TRUE, superuser |-> FALSE, by |-> 0]]
        /\ AnswerCall(r)
        /\ UNCHANGED <<key, admin, service, invite, conf, rep, healthy, starts>>

ClaimUnchecked(r) ==
    LET p == call[r].person
        i == call[r].invite
    IN  /\ call[r] # NoCall /\ i # 0
        /\ ~account[p].exists
        /\ account' = [account EXCEPT ![p] = [exists |-> TRUE, superuser |-> invite[i].superuser, by |-> i]]
        /\ invite' = [invite EXCEPT ![i].state = "used"]
        /\ AnswerCall(r)
        /\ UNCHANGED <<key, admin, service, conf, rep, healthy, starts>>

\* RegisterHumanWithInvite: under the lock of the invite, which is still
\* valid, the account is created and the invite marked used.
RegisterHumanWithInvite(r) ==
    LET p == call[r].person
        i == call[r].invite
    IN  /\ call[r] # NoCall /\ i # 0
        /\ Admits(i, p)
        /\ ~account[p].exists
        /\ account' = [account EXCEPT ![p] = [exists |-> TRUE, superuser |-> invite[i].superuser, by |-> i]]
        /\ invite' = [invite EXCEPT ![i].state = "used"]
        /\ AnswerCall(r)
        /\ UNCHANGED <<key, admin, service, conf, rep, healthy, starts>>

\* The request is refused, or one of its statements fails.
RegisterFails(r) ==
    /\ call[r] # NoCall
    /\ AnswerCall(r)
    /\ UNCHANGED <<database, conf, rep, healthy, starts>>

\* CreateServiceAccount takes the login of the bootstrap service for an
\* ordinary service.
CreateServiceAccount(r) ==
    /\ rep[r] = "serving"
    /\ SomeSuperuser
    /\ service = "absent" /\ service' = "other"
    /\ UNCHANGED <<key, admin, invite, account, rep, process>>

-----------------------------------------------------------------------------
(* Shutdown                                                                *)

\* A signal, or a server that stops serving: NOT_SERVING, the rotation is
\* stopped, and both servers refuse new requests and wait for the others.
BeginShutdown(r) ==
    /\ rep[r] = "serving"
    /\ healthy' = healthy \ {r}
    /\ Goto(r, "draining")
    /\ UNCHANGED <<database, conf, call, starts>>

\* cfg.ShutdownTimeout elapses: the gRPC server is stopped hard and the HTTP
\* server returns without its last requests.
ShutdownDeadline(r) ==
    /\ rep[r] = "draining"
    /\ Goto(r, "overdue")
    /\ UNCHANGED <<database, process>>

Leave(r) ==
    /\ Goto(r, "down")
    /\ conf' = conf \ {r}
    /\ AnswerCall(r)
    /\ UNCHANGED <<database, healthy, starts>>

ExitOnlyDrained(r) ==
    /\ rep[r] \in {"draining", "overdue"}
    /\ call[r] = NoCall
    /\ Leave(r)

\* Both servers have returned; the service is shut down, which module
\* MailQueue shows to return, and the process exits with what it was doing.
Exit(r) ==
    /\ rep[r] \in {"draining", "overdue"}
    /\ rep[r] = "draining" => call[r] = NoCall
    /\ Leave(r)

\* The process dies anywhere; its statement in flight is rolled back.
Crash(r) ==
    /\ rep[r] # "down"
    /\ Goto(r, "down")
    /\ healthy' = healthy \ {r}
    /\ conf' = conf \ {r}
    /\ AnswerCall(r)
    /\ UNCHANGED <<database, starts>>

-----------------------------------------------------------------------------

Boot(r) ==
    \/ CountSigningKeys(r) \/ InsertSigningKey(r)
    \/ CountHumanUsers(r) \/ CreateAdmin(r) \/ ElevateAdmin(r)
    \/ LookupService(r) \/ CreateServiceUser(r) \/ LookupAgain(r)
    \/ BindListeners(r) \/ Serve(r)

Finish(r) == ShutdownDeadline(r) \/ Exit(r)

Next ==
    \/ \E r \in Replicas :
        \/ Start(r) \/ Boot(r) \/ BeginShutdown(r) \/ Finish(r) \/ Crash(r)
        \/ RotateSigningKey(r) \/ CreateServiceAccount(r)
        \/ RegisterHumanOpen(r) \/ RegisterHumanWithInvite(r) \/ RegisterFails(r)
    \/ \E r \in Replicas, p \in People, i \in 0..MaxInvites : Register(r, p, i)
    \/ \E r \in Replicas, i \in Invites : CreateRegistrationInvite(r, i)
    \/ \E k \in Keys : GraceEnds(k)
    \/ \E i \in Invites : InviteExpires(i)

Spec == Init /\ [][Next]_vars

\* The shutdown is run by a goroutine that the scheduler does not starve, and
\* its timer fires.  Requests may hang.
FairSpec == Spec /\ \A r \in Replicas : WF_vars(Finish(r))

-----------------------------------------------------------------------------
(* Properties                                                              *)

TypeOK ==
    /\ key \in [Keys -> {"none", "current", "deprecated", "stale"}]
    /\ admin \in {"absent", "plain", "superuser"}
    /\ service \in {"absent", "superuser", "other"}
    /\ invite \in [Invites -> Invite]
    /\ account \in [People -> Account]
    /\ rep \in [Replicas -> {"down", "countKeys", "insertKey", "countHumans", "createAdmin",
                             "elevate", "lookup", "createService", "lookAgain", "bind",
                             "bound", "serving", "draining", "overdue"}]
    /\ conf \subseteq Replicas
    /\ healthy \subseteq Replicas
    /\ call \in [Replicas -> Call \cup {NoCall}]
    /\ starts \in 0..MaxStarts

\* Once there is a signing key exactly one is current, however many replicas
\* bootstrap and rotate at the same time (ensureSigningBootstrap,
\* DeprecateCurrentAndSet).
OneCurrentKey == (\E k \in Keys : key[k] # "none") => \E k \in Keys : CurrentKeys = {k}

\* A replica reports SERVING only between a complete bootstrap and the start
\* of its shutdown: there is a key to sign with, the bootstrap service is the
\* configured superuser and, where configured, there is a human account (run
\* of main.go, EnsureBootstrapSuperuserService).
ServingIsReady ==
    \A r \in healthy :
        /\ rep[r] = "serving"
        /\ CurrentKeys # {}
        /\ r \in conf => service = "superuser"
        /\ AdminConfigured => admin # "absent" \/ Humans # {}

\* Two people never register with one invite, whichever replicas they ask; a
\* superuser registered with a superuser invite, and a locked invite registers
\* only the person it is locked to (Register, RegisterHumanWithInvite).
InvitesRegisterOnce ==
    \A p \in Humans :
        /\ account[p].superuser => account[p].by # 0 /\ invite[account[p].by].superuser
        /\ account[p].by # 0 =>
            /\ invite[account[p].by].state = "used"
            /\ invite[account[p].by].for \in {p, Anyone}
            /\ \A q \in Humans : account[q].by = account[p].by => q = p

\* A replica that begins to shut down exits, even when a request hangs (the
\* shutdown context of run).
ShutdownExits == \A r \in Replicas : rep[r] = "draining" ~> rep[r] = "down"

\* The bootstrap administrator of a replica that serves is a superuser:
\* "EnsureBootstrapAdmin creates the first superuser" (bootstrap.go).
AdminIsSuperuser == \A r \in healthy : admin # "plain"
=============================================================================
