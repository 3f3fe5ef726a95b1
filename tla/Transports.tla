----------------------------- MODULE Transports -----------------------------
(***************************************************************************)
(* The two transports of authd, beside the MCP client of one of them.      *)
(*                                                                         *)
(* A request arrives over REST or gRPC with some bearer and is verified by *)
(* the middleware of its transport; the handler then checks the CSRF pair  *)
(* and the shape of the request, and calls a use case of the service,      *)
(* which may read the actor's row again.  Bans, unbans, rotations of the   *)
(* signing key and the passing of time fall between these reads.           *)
(*                                                                         *)
(* The direct client and the MCP client meet only in the server's state,   *)
(* which neither writes here, so a behaviour has one of them; the clock    *)
(* runs for the MCP client, whose deadlines and renewals are measured on   *)
(* it, and a direct client's bearer may expire at any moment.              *)
(***************************************************************************)
EXTENDS McpClient, FiniteSets, TLC

Service == INSTANCE Operations
Rest == INSTANCE RestHandlers
Grpc == INSTANCE GrpcMethods
Contract == INSTANCE RestContract

Operation == Service!Operation
Accounts == {"human", "service"}

VARIABLES client,        \* who talks to the server: "direct" or "mcp"
          acct,          \* acct[a]: the account's ban and token version
          keys,          \* the current signing key, and whether its predecessor is in grace
          bearer,        \* what the direct client presents
          direct         \* the request of the direct client

vars == <<client, acct, keys, bearer, direct, mcpVars>>
server == <<client, acct, keys>>

Quiet == [pc |-> "idle"]
Token == [typ : Accounts, ver : 0..MaxBans, kid : 0..MaxRotations, exp : 0..MaxTime + Ttl]

(***************************************************************************)
(* The manifest: the policy of every operation.                            *)
(***************************************************************************)
PublicRoutes == {"PreviewRegistrationInvite", "Register", "LoginPassword", "IssueServiceToken", "CheckTokenRole",
                 "CheckTokenRoleWithTag", "InspectToken", "VerifyAccessToken", "VerifyLoginOTP", "StartMagicLink",
                 "CompleteMagicLink", "StartPasswordReset", "CompletePasswordReset", "Refresh", "Logout",
                 "CompleteStepUp2FA"}
HumanRoutes == {"GetMe", "CheckMyRole", "CheckMyRoleWithTag", "ListMyRoleAccess", "StartPasswordChangeOTP",
                "ChangePassword", "StartStepUp2FA", "GetStepUp2FAStatus", "ExpireStepUp2FA", "ListSessions",
                "RevokeOwnSession", "StartSessionRevokeOTP", "RevokeSessionWithOTP"}
ActorReads == {"ListUsers", "ListRoles", "ListSubgroups", "ListUserRoles", "ListRoleMembers", "ListRoleRequests"}
ActorMutations == {"CreateRegistrationInvite", "CreateServiceAccount", "RotateSigningKey", "BanUser", "UnbanUser",
                   "CreateRole", "DeleteRole", "UpdateRoleDescription", "SetRoleParent", "MountRole", "UnmountRole",
                   "AddRoleTag", "DeleteRoleTag", "RenameRoleTag", "AssignRole", "GrantMembershipTag",
                   "RevokeMembershipTag", "RemoveRole", "RequestRole", "DecideRoleRequest"}

\* An RPC outside the manifest has no policy and is denied.
RPCPolicy(op) ==
    CASE op \in PublicRoutes -> "public"
      [] op \in HumanRoutes -> "human"
      [] op \in ActorReads \cup ActorMutations -> "actor"
      [] OTHER -> "unknown"

(***************************************************************************)
(* The routes as NewServer registers them, group by group.                 *)
(***************************************************************************)
RouterPublic == {"PreviewRegistrationInvite", "Register", "LoginPassword", "IssueServiceToken", "CheckTokenRole",
                 "CheckTokenRoleWithTag", "InspectToken", "VerifyAccessToken", "VerifyLoginOTP", "StartMagicLink",
                 "CompleteMagicLink", "StartPasswordReset", "CompletePasswordReset", "Refresh", "Logout",
                 "CompleteStepUp2FA"}
RouterHuman == {"GetMe", "CheckMyRole", "CheckMyRoleWithTag", "ListMyRoleAccess", "StartPasswordChangeOTP",
                "ChangePassword", "StartStepUp2FA", "GetStepUp2FAStatus", "ExpireStepUp2FA", "ListSessions",
                "RevokeOwnSession", "StartSessionRevokeOTP", "RevokeSessionWithOTP"}
\* The routes of the actor group without the csrf middleware, and those with it.
RouterActorPlain == {"ListUsers", "ListRoles", "ListSubgroups", "ListUserRoles", "ListRoleMembers",
                     "ListRoleRequests"}
RouterActor == RouterActorPlain \cup
    {"CreateRegistrationInvite", "CreateServiceAccount", "RotateSigningKey", "BanUser", "UnbanUser", "CreateRole",
     "DeleteRole", "UpdateRoleDescription", "SetRoleParent", "MountRole", "UnmountRole", "AddRoleTag",
     "DeleteRoleTag", "RenameRoleTag", "AssignRole", "GrantMembershipTag", "RevokeMembershipTag", "RemoveRole",
     "RequestRole", "DecideRoleRequest"}
WithCsrf == (RouterActor \ RouterActorPlain) \cup {"ExpireStepUp2FA"}

(***************************************************************************)
(* Bearers.                                                                *)
(***************************************************************************)
Issue(a) == [typ |-> a, ver |-> acct[a].ver, kid |-> keys.current, exp |-> now + Ttl]

\* secretForKID: a deprecated key is stale once its grace period is over.
IsStale(t) == t.kid # keys.current /\ ~(keys.grace /\ t.kid = keys.current - 1)

tokenSubject(t) ==
    CASE acct[t.typ].banned -> "Banned"
      [] acct[t.typ].ver # t.ver -> "InvalidCredentials"
      [] OTHER -> "ok"

\* A bearer is a token, or something that does not parse as one.
Verify(t, types) ==
    CASE t.typ = "malformed" -> "Plain"
      [] IsStale(t) -> "Stale"
      [] now >= t.exp -> "Plain"
      [] t.typ \notin types -> "WrongTokenType"
      [] OTHER -> tokenSubject(t)

\* "access" tokens belong to humans, "service" tokens to services.
VerifyAccessToken(t) == Verify(t, {"human"})
VerifyAccessOrServiceToken(t) == Verify(t, {"human", "service"})

Missing == [typ |-> "missing"]
Malformed == [typ |-> "malformed"]

(***************************************************************************)
(* The middleware of each transport: "ok", or the error it answers.        *)
(***************************************************************************)
\* REST takes the first header and trims it, so that its shape does not matter.
requireAccessJWT(b) == IF b.typ = "missing" THEN "missing" ELSE VerifyAccessToken(b)
requireActorJWT(b) == IF b.typ = "missing" THEN "missing" ELSE VerifyAccessOrServiceToken(b)

RestGate(op, b) ==
    CASE op \in RouterPublic -> "ok"
      [] op \in RouterHuman -> requireAccessJWT(b)
      [] op \in RouterActor -> requireActorJWT(b)

\* How the header carries the bearer: alone, among white space, or more than once.
Headers == {"exact", "padded", "repeated"}

\* The interceptor wants exactly one authorization value, without white space around or in the token.
authenticate(op, b, header) ==
    CASE RPCPolicy(op) = "public" -> "ok"
      [] RPCPolicy(op) = "unknown" -> "Forbidden"
      [] b.typ = "missing" \/ header # "exact" -> "InvalidCredentials"
      [] RPCPolicy(op) = "human" -> VerifyAccessToken(b)
      [] RPCPolicy(op) = "actor" -> VerifyAccessOrServiceToken(b)

\* A service bearer is no ambient credential and needs no CSRF pair.
CsrfOK(op, actor, csrf) == op \in WithCsrf /\ actor # "service" => csrf

(***************************************************************************)
(* A direct request.                                                       *)
(***************************************************************************)
Request(pc, op, via, actor, csrf) == [pc |-> pc, op |-> op, via |-> via, actor |-> actor, csrf |-> csrf]
Answered(r, outcome, answer) == [outcome |-> outcome, answer |-> answer] @@ [r EXCEPT !.pc = "done"]

\* Every failure of the REST middleware is a 401, that of its reads included.  A public route knows no actor.
RestArrives ==
    /\ client = "direct" /\ direct.pc = "idle"
    /\ \E op \in Operation, csrf \in BOOLEAN :
        \/ /\ RestGate(op, bearer) = "ok"
           /\ direct' = Request(IF op \in RouterHuman THEN "standing" ELSE "handler", op, "rest",
                                IF op \in RouterPublic THEN None ELSE bearer.typ, csrf)
        \/ /\ op \notin RouterPublic
           /\ direct' = Answered(Request("idle", op, "rest", None, csrf), "gate", 401)
    /\ UNCHANGED <<now, server, bearer, mcp>>

\* Mutated form: the ban is answered as the sign-in handlers answer it.
StandingForbids ==
    /\ direct.pc = "standing"
    /\ \/ direct' = Answered(direct, "gate", 403)
       \/ ~acct[direct.actor].banned /\ direct' = [direct EXCEPT !.pc = "handler"]
    /\ UNCHANGED <<now, server, bearer, mcp>>

\* requireAccessJWT reads the ban once more, after the verification; a failed read counts as a ban.
RequireStanding ==
    /\ direct.pc = "standing"
    /\ \/ direct' = Answered(direct, "gate", 401)
       \/ ~acct[direct.actor].banned /\ direct' = [direct EXCEPT !.pc = "handler"]
    /\ UNCHANGED <<now, server, bearer, mcp>>

\* The interceptor's errors pass through mapError, that of a failed read among them.  No CSRF pair is looked at.
GrpcArrives ==
    /\ client = "direct" /\ direct.pc = "idle"
    /\ \E op \in Operation, header \in Headers :
        LET verdict == authenticate(op, bearer, header)
            read == RPCPolicy(op) # "public" /\ header = "exact" /\ bearer.typ \in Accounts
        IN  \/ /\ verdict = "ok"
               /\ direct' = Request("method", op, "grpc", IF RPCPolicy(op) = "public" THEN None ELSE bearer.typ, FALSE)
            \/ \E e \in ({verdict} \cup (IF read THEN {"Plain"} ELSE {})) \ {"ok"} :
                   direct' = Answered(Request("idle", op, "grpc", None, FALSE), "gate", Grpc!mapError(e))
    /\ UNCHANGED <<now, server, bearer, mcp>>

\* Public operations have no actor whose ban the service could read.
ActorBanned(r) == r.actor # None /\ acct[r.actor].banned

\* Refresh and Logout take their token from the body or, with the CSRF pair, from the cookie.
AmbientRefused(op, csrf) ==
    IF op \in {"Refresh", "Logout"} /\ ~csrf THEN {403} \cup (IF op = "Refresh" THEN {401} ELSE {}) ELSE {}

RestHandles ==
    LET r == direct IN
    /\ r.pc = "handler"
    /\ \/ /\ ~CsrfOK(r.op, r.actor, r.csrf)
          /\ direct' = Answered(r, "csrf", 403)
       \/ /\ CsrfOK(r.op, r.actor, r.csrf)
          /\ \/ \E s \in AmbientRefused(r.op, r.csrf) : direct' = Answered(r, "ambient", s)
             \/ Rest!Handler[r.op].parses /\ direct' = Answered(r, "malformed", 400)
             \/ \E o \in Service!Outcomes(r.op, ActorBanned(r)) :
                    direct' = Answered(r, o, Rest!Status(r.op, o))
    /\ UNCHANGED <<now, server, bearer, mcp>>

GrpcHandles ==
    LET r == direct IN
    /\ r.pc = "method"
    /\ \/ Grpc!Checks[r.op] /\ direct' = Answered(r, "malformed", "InvalidArgument")
       \/ \E o \in Service!Outcomes(r.op, ActorBanned(r)) :
              direct' = Answered(r, o, Grpc!Code(r.op, o))
    /\ UNCHANGED <<now, server, bearer, mcp>>

Leave ==
    /\ direct.pc = "done"
    /\ direct' = Quiet
    /\ UNCHANGED <<now, server, bearer, mcp>>

\* The direct client signs in, or exchanges its secret, for a bearer; it may also present garbage, or keep a bearer
\* past its life.
SignIn(a) ==
    /\ client = "direct" /\ direct.pc = "idle"
    /\ ~acct[a].banned
    /\ bearer' = Issue(a)
    /\ UNCHANGED <<now, server, direct, mcp>>

PresentGarbage ==
    /\ client = "direct" /\ direct.pc = "idle"
    /\ bearer' = Malformed
    /\ UNCHANGED <<now, server, direct, mcp>>

BearerExpires ==
    /\ bearer.typ \in Accounts /\ bearer.exp > now
    /\ bearer' = [bearer EXCEPT !.exp = now]
    /\ UNCHANGED <<now, server, direct, mcp>>

(***************************************************************************)
(* The MCP client.                                                         *)
(***************************************************************************)
Tools == {"ListUsers", "ListRoles", "ListUserRoles", "ListRoleMembers", "CreateRole", "AssignRole", "RemoveRole",
          "BanUser", "UnbanUser", "AddRoleTag", "DeleteRoleTag", "GrantMembershipTag", "RevokeMembershipTag"}

\* The codes that the interceptor and the method may answer to a tool presenting t.
ToolCodes(t) ==
    UNION {IF authenticate(op, t, "exact") # "ok" THEN {Grpc!mapError(authenticate(op, t, "exact"))}
           ELSE {"InvalidArgument"} \cup {Grpc!Code(op, o) : o \in Service!Outcomes(op, acct["service"].banned)}
               : op \in Tools}

\* authd gives the service its token unless it is banned, and a tool its answer.
Tool(c) ==
    /\ client = "mcp"
    /\ \/ StartTool(c) \/ UseCachedToken(c) \/ RenewToken(c) \/ TokenRefused(c) \/ ToolTimesOut(c)
       \/ ~acct["service"].banned /\ TokenIssued(c, Issue("service"))
       \/ /\ calls[c].pc = "call"
          /\ \E code \in ToolCodes(calls[c].token) : ToolAnswered(c, IF code = "OK" THEN "result" ELSE "error")
    /\ UNCHANGED <<server, bearer, direct>>

(***************************************************************************)
(* The server and the clock.                                               *)
(***************************************************************************)
BanUser(a) ==
    /\ ~acct[a].banned /\ acct[a].ver < MaxBans
    /\ acct' = [acct EXCEPT ![a] = [banned |-> TRUE, ver |-> @.ver + 1]]
    /\ UNCHANGED <<client, now, keys, bearer, direct, mcp>>

UnbanUser(a) ==
    /\ acct[a].banned
    /\ acct' = [acct EXCEPT ![a].banned = FALSE]
    /\ UNCHANGED <<client, now, keys, bearer, direct, mcp>>

RotateSigningKey ==
    /\ keys.current < MaxRotations
    /\ keys' = [current |-> keys.current + 1, grace |-> TRUE]
    /\ UNCHANGED <<client, now, acct, bearer, direct, mcp>>

GraceEnds ==
    /\ keys.grace
    /\ keys' = [keys EXCEPT !.grace = FALSE]
    /\ UNCHANGED <<client, now, acct, bearer, direct, mcp>>

Tick ==
    /\ client = "mcp"
    /\ ClockTick
    /\ UNCHANGED <<server, bearer, direct>>

Init ==
    /\ client \in {"direct", "mcp"}
    /\ acct = [a \in Accounts |-> [banned |-> FALSE, ver |-> 0]]
    /\ keys = [current |-> 0, grace |-> FALSE]
    /\ bearer = Missing
    /\ direct = Quiet
    /\ McpInit

Direct == RestArrives \/ RequireStanding \/ GrpcArrives \/ RestHandles \/ GrpcHandles \/ Leave
Standing(a) == SignIn(a) \/ BanUser(a) \/ UnbanUser(a)

Next ==
    \/ Direct
    \/ \E c \in Calls : Tool(c)
    \/ \E a \in Accounts : Standing(a)
    \/ PresentGarbage \/ BearerExpires \/ RotateSigningKey \/ GraceEnds \/ Tick

Spec == Init /\ [][Next]_vars

(***************************************************************************)
(* Properties.                                                             *)
(***************************************************************************)
TypeOK ==
    /\ client \in {"direct", "mcp"}
    /\ now \in 0..MaxTime
    /\ acct \in [Accounts -> [banned : BOOLEAN, ver : 0..MaxBans]]
    /\ keys \in [current : 0..MaxRotations, grace : BOOLEAN]
    /\ bearer \in Token \cup {Missing, Malformed}
    /\ direct.pc \in {"idle", "standing", "handler", "method", "done"}
    /\ cache \in Token \cup {None}
    /\ lock \in Calls \cup {None}
    /\ \A c \in Calls : calls[c].pc \in {"idle", "lock", "issue", "call"}

\* The answers given before the service is called.
Refusals == {"gate", "csrf", "ambient", "malformed"}

\* Where the two transports differ in what counts as success: an expired password is a 403 and a flag of an OK
\* response, and the REST logout reports success whatever happens.
KnownDifference(op, o) == (op = "LoginPassword" /\ o = "Expired") \/ (op = "Logout" /\ o # "ok")

\* An outcome of the service is a success over REST exactly if it is one over gRPC, a refusal for lack of authority
\* is 403 and PermissionDenied, and a wrong code is 401 and Unauthenticated: the fifty-five switch statements of the
\* handlers agree with the one in mapError.
TransportsAgree ==
    (direct.pc = "done" /\ direct.outcome \notin Refusals) =>
        LET op == direct.op
            o == direct.outcome
            status == IF direct.via = "rest" THEN direct.answer ELSE Rest!Status(op, o)
            code == IF direct.via = "grpc" THEN direct.answer ELSE Grpc!Code(op, o)
        IN  /\ ~KnownDifference(op, o) => ((status < 300) <=> (code = "OK"))
            /\ o = "Forbidden" => status = 403 /\ code = "PermissionDenied"
            /\ o = "OTPInvalid" => status = 401 /\ code = "Unauthenticated"

\* The routes that want a bearer and do not declare the 401 of the middleware.
NoUnauthorized ==
    {"RotateSigningKey", "ListUsers", "StartPasswordChangeOTP", "ExpireStepUp2FA", "StartStepUp2FA",
     "GetStepUp2FAStatus", "CheckMyRole", "CheckMyRoleWithTag", "DecideRoleRequest", "ListRoles", "CreateRole",
     "DeleteRole", "UpdateRoleDescription", "ListRoleMembers", "AssignRole", "RemoveRole", "MountRole",
     "UnmountRole", "SetRoleParent", "ListRoleRequests", "RequestRole", "ListSubgroups", "ListSessions",
     "StartSessionRevokeOTP", "RevokeOwnSession", "ListUserRoles"}

\* The answers the code gives and docs/docs.go does not declare.
Undeclared == (NoUnauthorized \X {401}) \cup
    {<<"VerifyLoginOTP", 403>>, <<"CompleteMagicLink", 403>>, <<"StartPasswordChangeOTP", 400>>,
     <<"RevokeOwnSession", 500>>, <<"UnmountRole", 500>>, <<"AddRoleTag", 500>>, <<"DeleteRoleTag", 500>>,
     <<"ListUsers", 400>>, <<"ListRoles", 400>>, <<"ListSubgroups", 400>>, <<"ListSubgroups", 500>>,
     <<"CheckMyRoleWithTag", 400>>, <<"CheckMyRoleWithTag", 500>>}

\* A request over REST is treated as docs/docs.go declares for its route, whatever bans, rotations and expiries fall
\* between its steps.  Every status that the middleware or a handler writes is declared, up to the list above, and
\* refusals are for what is declared only: for a bearer on a BearerAuth route, for the CSRF pair on a route with the
\* X-CSRF-Token header, for the input on a route with parameters.  Nothing is performed that the contract would have
\* refused: not without the bearer, and not for a human without the CSRF pair.
RestFollowsContract ==
    (direct.pc = "done" /\ direct.via = "rest") =>
        LET route == Contract!Declared[direct.op] IN
        /\ direct.answer \in route.responses \/ <<direct.op, direct.answer>> \in Undeclared
        /\ direct.outcome = "gate" => route.bearer
        /\ direct.outcome = "csrf" => route.csrf \in {"humans", "required"}
        /\ direct.outcome = "ambient" => route.csrf = "cookie"
        /\ direct.outcome = "malformed" => route.parameters # {}
        /\ direct.outcome \notin Refusals =>
               /\ route.bearer => direct.actor # None
               /\ route.csrf = "required" => direct.csrf
               /\ route.csrf = "humans" => direct.csrf \/ direct.actor = "service"
=============================================================================
