# A verification of auth-master in TLA+

This directory holds TLA+ modules that model auth-master, configurations that
check them with TLC, and theorems that TLAPS proves. Paths below are relative to
the repository.

## 1. The system

`authd` (`cmd/authd`) serves REST (`internal/transport/http`) and gRPC
(`internal/transport/grpc`). Both decode a request, authenticate it and make one
call of the service (`internal/service`), which works on PostgreSQL through
`internal/repository`. Several replicas may share one database. What two requests
can observe of each other is therefore decided by the database: the unit of
atomicity is one SQL statement, or one transaction where a lock makes it so.

- `SELECT ... FROM users ... FOR UPDATE` serialises bans, session issuance,
  rotation and the three password-reset transactions of one account.
- An advisory lock serialises the writes of the role hierarchy.
- Unique indexes and foreign keys decide between writers that take no lock.
- Everything else is a sequence of statements between which others commit.

Two clients of `authd` are part of the repository: the web client (`web/src`) and
the MCP server (`internal/mcpserver`), which forwards tool calls to gRPC.

| Component | Module | What is hard | What makes it correct |
|---|---|---|---|
| Refresh sessions, bearer tokens | Sessions, RefreshLedger | a ban beside requests in flight; revocation without the lock during eviction; lost answers | no session or token outlives a ban; the limit holds; a token is spent once |
| Password-reset codes | ResetCodes | jobs that finish out of order, retries of commits, crashes | only delivered codes work, newer supersede older, guesses are bounded |
| Login challenges, step-up, revocation by code, magic links | EmailCodes | read, consume and act in separate statements; one table for several purposes; cleanup that fails | one effect per code, of its own purpose; refused links die; resolved sessions stay |
| Public mail queue | MailQueue | enqueue beside close, several Shutdowns, deadlines | no send on a closed channel; drained means finished; Shutdown returns |
| Role hierarchy | RoleHierarchy | chains longer than the depth bound, rerun of the migration | cycles have one of two known causes; deletion keeps reachability; the access queries agree |
| Memberships, tags, requests of a role | RoleGrants | a rename of three statements beside grants and removals; several deciders | grants follow memberships and renames; a request is decided once |
| Password sign-in | SignIn | every step is its own statement, errors are ignored | bounded guesses of passwords and of codes |
| Password change, history | PasswordHistory | validation apart from writing; three writes | no reuse in sequence; one change per code |
| Start, keys, accounts, invites, stop | Startup | replicas that start, crash and rotate together; a request that hangs | one current key; SERVING means ready; an invite registers once; a stop ends |
| REST, gRPC, manifest, MCP client | Transports with McpClient, Operations, RestHandlers, GrpcMethods, RestContract | 55 operations written down four times; bans between two reads; a cached token | both transports answer alike; REST follows its published contract; a token outlives its call |
| Saved accounts of the web client | WebAccounts | switches, sign-outs and reloads beside refreshes in flight | the session is the active account's; saved tokens are current, or missed a rotation in a known way |

`PROJECT.json` lists every component with its status, and under `hazards` the
places where the code is exposed to what the third column names.

## 2. The modules

Read next to the code, a module's VARIABLES are the columns and the local
variables, an action is a statement or a locked transaction, and a request is a
small process with a program counter `pc`. History variables, marked as such,
only record. `map` in `PROJECT.json` gives the lines behind every definition.

- **Sessions** — `issueTokenPair`, `Refresh`, `Logout`, revocation,
  `IssueServiceToken`, bans, the check in `tokenSubject`. Rotation and ban are one
  action each, because all they read is under the user lock; issuing is split into
  Lock, Count, Evict and Insert, because a revocation takes no lock.
  **RefreshLedger** is the abstract specification: a ledger of tokens that are
  live, used or spent. `ImplementsLedger` states the refinement.
- **ResetCodes** — mail jobs (Reserve, Send, Activate with retries) and
  completions for one account. An activation that reports an error may or may not
  have committed.
- **EmailCodes** — everything else one account is mailed. Rows of
  `email_otp_challenges` are numbered by age; a step-up session has the number of
  its code. `Present` stands for the reads of the three handlers, each with its own
  guard: `LoginVerifyOTP` tests the purpose, and consumes the challenge for a wrong
  code too (a request for nothing), `CompleteStepUp2FAOTP` does not and
  relies on the session, `RevokeSessionWithOTP` takes the newest. `Stop` ends a
  request after any statement. The mail job of a link runs through `SendLink` and
  `InvalidateMagicLink`; it may be cut off at any point.
- **MailQueue** — clients, workers, log worker, closer, callers of Shutdown. The
  RWMutex is modelled by who holds it and by the writer that waits.
- **RoleHierarchy** — one action per write, the recursive queries as bounded
  walks, and `Migrate`, which runs at every start. The authority of the caller is
  no guard, since a superuser may issue every write. A refused request changes
  nothing and is not an action. The expiry of a membership is the same as its
  removal to every query here.
- **RoleGrants** — one role, its memberships, tag definitions, grants and
  requests. An operation reads its actor's authority and writes in a later step.
  `RenameRoleTag` takes three steps at READ COMMITTED: what it has inserted is
  invisible until it commits (`RenameDrop`), and others wait for it where a unique
  index or a foreign key makes them (`HoldsDef`, `HoldsGrant`, `MembershipFree`).
- **SignIn** — one account's password attempts and login challenges; `Issue`
  stands for `issueTokenPair`, which Sessions details. A statement whose error is
  ignored may fail, up to `MaxFaults`.
- **PasswordHistory** — `ChangePassword` in seven steps beside the reset
  transaction, which takes its timestamp before it waits for the lock. `Close`
  stands for the edit distance.
- **Startup** — `run` of `cmd/authd` on several replicas: `rep` is where a replica
  is, one step per statement of the bootstrap. Registration runs on serving
  replicas, because invites are read on one and claimed on another. A crash rolls
  back the statement in flight and keeps the database.
- **Transports** — a request passes the gate of its transport, the second read of
  the account (REST), and the handler, with bans, rotations and expiry between.
  Four modules hold what is written down per operation: **Operations** the
  outcomes of the service, **RestHandlers** the checks and statuses of the REST
  handlers, **GrpcMethods** those of the gRPC methods with `mapError`,
  **RestContract** what `docs/docs.go` declares of every route: bearer, CSRF header,
  where its parameters are, and its answers. The manifest, which the gRPC interceptor
  applies, and the router are sets of operations. REST trims the authorization header
  and takes the first one; the interceptor wants exactly one without white space
  (`Headers`), so a bearer may pass over one transport and not over the other.
- **McpClient** — the tool calls of the MCP server: a clock, the cached token, its
  mutex and the deadline of each call. Transports extends it. The MCP client and the
  direct client share only state neither writes, so a behaviour has one of them.
- **WebAccounts** — JavaScript switches at `await` only; the state is what
  survives one. A token is an account and a generation, and the server accepts the
  last generation. A flow is an async function in progress, `net` the coalesced
  refresh requests. A reload drops everything but `localStorage`. A sign-out calls
  `api.logout`, which first refreshes a session about to expire, as every call does,
  and logs out the token captured before that. The server (`ServerRefresh`) may rotate
  a token and still answer 401, as `handleRefresh` does when signing fails after the
  commit. `strayed` collects the accounts whose entry may have missed a rotation.

The modules meet where one component's promise is another's step: Startup's `Exit`
assumes that the mail queue's Shutdown returns (`ShutdownReturns`), EmailCodes'
`Apply` is `issueTokenPair` or a revocation of Sessions, the bearers of Transports
follow the bans and versions of Sessions and the keys of Startup.

The `MC*` modules add symmetry sets and the values a cfg cannot write.

## 3. What is checked

| Run | Shows | Bounds |
|---|---|---|
| sessions | no session outlives a ban, the session limit, bans cover bearer tokens, the ledger is implemented, refused bearer tokens stay refused | 1 person and 1 service, 2 devices over a limit of 1, 2 requests, 3 tokens, 1 ban each: a login, a rotation and a ban can overlap |
| reset_codes | newer codes supersede, only delivered ones work, bounded guesses, spent stays spent, and a delivered code becomes usable | 2 codes, 2 jobs, 2 tries, 1 fault, 1 crash, 2 attempts |
| codes | one effect per code, refused links die, resolved step-up sessions stay | 3 requests, 2 codes of any purpose, 1 link, 3 faults: as many as the cleanup has tries |
| mail_queue | no panic, drained means finished, nothing lost, Shutdown returns, accepted jobs run | 2 workers, 2 clients, 2 Shutdowns, capacity 1, so that the queue is full |
| roles | cycles have a cause, deletion keeps reachability, the access queries agree | 4 roles, 1 user at every level, no legacy parent; the depth bound of 64 is scaled to 2, so that a chain of 4 roles exceeds it and cycles do arise |
| grants | grants belong to members, requests are decided once, renames migrate | a superuser and a user, 2 tags, 2 operations at a time and 5 in all, 2 requests: a rename can meet every other operation at each of its steps after the three that set it up |
| signin | the passwords evaluated in a window and the wrong codes tried against a challenge are bounded | 3 requests, a limit of 2, 1 fault, up to 5 wrong codes: one more than the property allows |
| password | no reuse in sequence, one change per code, bounded history | 2 requests, N = 2, 1 fault |
| startup | one current key, SERVING means ready, an invite registers once, a shutdown exits | 2 replicas, 3 starts, 2 keys, 2 people, 1 invite, locked or not: both replicas bootstrap together and one of them again |
| transports | the transports agree, REST follows its contract, tokens outlive calls | all 55 operations and all their outcomes, 1 ban per account, 1 rotation; 2 tool calls, a life of 4, a skew of 1, a timeout of 2, the case in which the skew does not cover the timeout, 6 ticks: the token is renewed and both calls meet at the mutex |
| web | the session is the active account's, saved tokens are current | 2 accounts, 2 overlapping flows, a sign-in and a rotation each; behaviours are followed until a sign-in overlaps another flow, after which neither invariant promises anything |

Bounds cap tokens, codes, guesses, faults, operations and clock readings; each is a
named CONSTANT in the guard of the action that consumes it. The bounds allow two
actors to meet at every step and the limited resource to be exceeded by one, which
is where these algorithms differ from their wrong variants: `mutants` in
`PROJECT.json` names for every property a plausible bug that the same run detects.

Deadlock is checked except where the bounded system may stop: the process ends
after Shutdown (MailQueue, Startup), or every operation, code or token that the
bounds allow is used up (RoleGrants, EmailCodes, WebAccounts).

**Disagreements.** The run roles_restart shows that the roles need not form the
acyclic graph that the README (377) describes: a restart copies the legacy parents
again, restores an edge that was unmounted and so closes a cycle; `findings` quotes
both sides. Further disagreements
between the code and a document or comment are stated as properties of the modules,
and the configuration named here makes TLC produce the behaviour:

| Property | Configuration | The code |
|---|---|---|
| Sessions!EvictionFindsARow | MCSessionsEviction | a login fails on "active refresh session count changed unexpectedly" (`sessions.go:94`) when a logout overlaps its eviction |
| ResetCodes!OnlyNewestActivates | MCResetCodesNewest | a delivered code becomes usable although a newer one is pending (`otp.go:171`) |
| SignIn!AlertSent | MCSignInAlert | concurrent failures skip the alert that `.env.example:55` describes |
| PasswordHistory!NoReuse | MCPasswordHistoryRace | two concurrent changes set the same password (README 313) |
| RoleGrants!RenameAtomic | MCRoleGrantsRename | a grant of the old name that commits during a rename is deleted and not migrated; the README (433) says that grants "migrate atomically" |
| Startup!AdminIsSuperuser | — | a crash between `CreateHumanUser` and `SetSuperuser` leaves an administrator who is none; the next start sees a human user and goes on |
| WebAccounts!RemovedAreDead | — | an account is removed after a lost response, or a 401 for a rotation that had committed, although its session lives; the README (479) says only an invalid session is removed |

The last two are added to MCStartup.cfg and MCWebAccounts.cfg to see them fail.
Three more follow from the modules without a property of their own:

- "An incorrect OTP consumes its password-login challenge" (README 316) does not hold
  without exception: the error of the `ConsumeOTP` that burns the challenge is ignored
  (`auth.go:238`), and requests that have read the challenge already go on.
  `CodesBounded` states what is left of the promise.
- "revoking its server session" (`web/src/accounts.ts:184`): the token that a sign-out
  presents is the one captured before `call` refreshes. If that refresh rotates it, the
  logout finds no session and the rotated one lives on until it expires.
- A late answer of `me` puts its user into a session of another account; the listener
  then finds no matching entry, and the entry misses the rotations that follow.

Where a passing property is weaker than it looks:

- `CodesBounded` does not say that a wrong code burns its challenge: one code more may
  be tried for every request in flight and for every failed statement.
- `SerialNoReuse` excludes, in its statement, executions in which a statement fails: a
  change that dies after updating the password leaves it out of the history. It also
  excludes overlapping requests; NoReuse above shows why.
- `DrainedMeansFinished` and `NothingLost` are about shutdowns in which no caller gives
  up; after one has, `ShutdownReturns` is all the others are promised.
- `DeliveredBecomeUsable` excludes crashes in its statement, and its run has fewer
  faults than tries: when every try of an activation fails, the code stays pending.
- `CyclesHaveACause` does not say that the roles are acyclic. `Acyclic` is violated with
  a legacy parent (roles_restart), and by a mount whose cycle check stops at the depth
  bound. In the code that takes a chain of 66 roles; in the run roles, whose bound is 2,
  a chain of 4. The run has no legacy parents, so that `Migrate` changes nothing in it.
- One account is banned at most once in each run, so unban and ban again is covered
  by the theorems of SessionsProofs and not by TLC.
- `RenameMigrates` covers the holders that the copy of a rename has found.
- `RefusedLinksDie` allows the links whose three cleanups fail or are cut off: those
  live until they expire.
- `SessionFollowsActive` excepts sign-ins that fail or overlap another flow, and
  so does `SavedTokensAreCurrent`, which also excepts the accounts in `strayed`: a
  response was lost, the server failed after the rotation, the session had moved on
  when the response came, or a late answer of `me` had named another user.
- `TransportsAgree` compares success, refusals for lack of authority and wrong codes.
  Elsewhere the transports answer differently by design or by accident: an expired
  password is 403 and a flag, the REST logout always succeeds
  (`KnownDifference`); a banned account is 401 or 500 over REST where gRPC says
  PermissionDenied; a malformed or expired bearer is 401 and Internal; several
  NotFound and Conflict outcomes are 400 or 500.
- `RestFollowsContract` excepts `Undeclared`, what the code answers and `docs/docs.go`
  does not declare: the 401 of the middleware on the 26 bearer routes of
  `NoUnauthorized`, and thirteen statuses of handlers. The property checks that nothing
  else is missing, and what the contract says of bearers, CSRF and parameters.
- `TokensOutliveCalls` assumes one clock, and is about the margin that the skew leaves
  of the timeout (`Margin`): 20 s with the defaults. The timeout is configurable; above
  the skew of 30 s the margin is negative, and a call may present an expired token.

**Fairness.** `ResetCodes!ResetFairSpec` assumes weak fairness of the workers that run
the jobs. `MailQueue!MailFairSpec` assumes weak fairness of every goroutine once it
can run, and that a job ends, which its deadline ensures; nobody has to enqueue or to
call Shutdown, and no context has to expire. `Startup!FairSpec` assumes weak
fairness of the goroutine that stops a replica, its timer included; requests may
hang for ever. `Sessions!FairSpec` (MCSessionsBearers, `RequestsEnd`: every request
ends) assumes that a request that has begun continues, and strong fairness of the
steps that wait for a row lock, because Postgres serves the waiters of a row in
order.

## 4. What is proved

TLAPS checks the following for all values of the constants that satisfy the
ASSUMEs of the module. These are typing, positivity and finiteness: a positive
limit, finitely many devices, finitely many requests in flight, humans and services
disjoint, durations that are natural numbers. A proof module extends the one or two
components it covers, so that a theorem names the very definitions that the runs
check.

- **SessionsProofs**: `TypeCorrect`, `SessionsCurrent`, `RequestsStayConsistent`.
  `LiveSessionsAreCurrent` alone is not inductive: the insert of a login is safe
  only because the version it rechecked under the lock is still current. The
  inductive invariant `IInv` adds `RequestsConsistent`, which says so for every
  request that holds the lock. `BansCoverBearers` rests on `IInv` and on versions
  that only grow; `RefusedForEver` follows from it as an action property.
- **SessionsProofs**, second part: `LimitHolds`. The strengthening `LoginsKeepTheLimit`
  says that one login at a time is past the lock, and bounds what it may still
  evict by its projected count, or by the limit when its own row was revoked
  meanwhile.
- **SessionsLedgerProofs**: `SessionsImplementLedger`, the refinement of
  RefreshLedger. `QuietRequests` collects the steps that leave the ledger alone;
  `InsertHasEffect` and `RotateHasEffect` say what the two commits do to one
  session, and further lemmas show that every step is a `Grant`, `Exchange`, `Kill`,
  `Suspend` or `Restore` of the ledger. It needs `IInv`, the limit, and that a token
  and a session id belong to one row (`TokensIdentifyAlways`). The latter rests on
  `DrawnTokens`: a token that is drawn and not committed is private to its request.
- **CodesProofs**, EmailCodes: `CodesActOnce`, `RefusedLinksStayDead`,
  `ResolvedSessionsStay`. That a code acts once is not inductive, since a request
  has consumed it before it acts: `ReqOK` says what a request has read or written
  before its next statement, `Apart` that no two requests have consumed the same
  code. `CodeOK` ties the purpose of a code to its step-up session, which is why the
  missing purpose test of `CompleteStepUp2FAOTP` is harmless. ResetCodes: five
  invariants, inductive together as `ResetInv`. `JobsOwnTheirCode` is what ties an
  activation to an accepted mail.
- **SignInProofs**: `ChallengesSingleUse`, `ChallengesBoundCodes`,
  `LockoutBoundsGuesses`. `ChallengeInv` says that a request between its consume and
  its issue is the only one to have consumed that challenge. The bound on codes is
  not inductive: `CodeInv` adds that the wrong codes tried against a challenge that
  is not consumed are those of requests about to burn it (`Burning`) and of failed
  statements. The bound on guesses counts requests: an open account has had at most
  `LoginFailMax - 1` guesses beyond those of the requests in `Counted`, which have
  yet to insert, count or lock (`GuessInv`). Once it is locked no guess is added,
  and what was in flight then is at most all requests.
- **ClientsProofs**, McpClient: `TokensLast`, that the token of a call outlives it
  by the margin, for any token life, skew and timeout. It follows from `McpInv`,
  which compares the deadline of a call with the end of its token instead of with
  the clock, so that waiting for the mutex and renewals by other calls cannot
  disturb it. WebAccounts, for any accounts and any number of flows:
  - `SessionFollows`, from the typing of tab, flows and server (`WebInv`) and
    `SessionInv`. The owner of the session's token alone says nothing about the next
    step: it comes from the saved entries and from responses that flows carry. So
    `OwnTokens` says that every entry is its account's, that no flow holds an entry a
    sign-in has replaced, and that a sign-in, the one flow that installs a session
    before it is active, runs alone with the listener suspended.
  - `SavedTokensStayCurrent`, from these and `SavedInv`. A rotation makes the saved
    token stale until its response is applied, while other flows switch, sign out and
    refresh. `TokensOK` says that nothing in the tab is newer than what the server
    expects, and that a rotation on its way to the tab is one of the newest token
    held; `Awaited`, that every request in flight has a flow that waits for it;
    `ActiveOK`, that the entry of the active account holds the session's token, to
    which the listener writes the next; `SignInLast`, that the session of a sign-in is
    the last the server has issued. Where one of them would break, the account is in
    `strayed` or a sign-in has overlapped.
- **PasswordHistoryProofs**: `ChangesPerCode` from `CodeInv`, the same argument as for
  login challenges. `HistoryStaysBounded` needs `TimeInv` (rows carry distinct times,
  all past), because only then does a trim leave no more than `PasswordHistoryN` rows.
  `SerialChangesNotReused` needs `SerialInv`: between two changes the last N passwords
  are all in the table, each with no more newer rows than newer passwords (`Covered`),
  so a trim keeps it and a check reads it. This is where the trim's bound and the
  check's bound have to be the same N.
- **RolesProofs**, RoleHierarchy: `TypeCorrect`; `ViewsAlwaysAgree`, that the list
  of roles and the checks of one role agree on any graph and at any depth bound;
  `DeletionKeepsReachability`, on any graph and at any depth bound;
  `CyclesAreExplained`, that a step closes a cycle only if a walk is cut off or an
  unmounted legacy edge is copied again. Hence `StaysAcyclic`: without legacy
  parents, and while no walk is cut off (`[]WalksComplete`), the roles are acyclic.
  Both hypotheses are needed: see the disagreements above. `FewRolesAcyclic`
  replaces the second by a number of roles: with at most `MaxDepth + 1` no walk is
  cut off. The walks are recursive functions, and facts about them are proved by
  induction over the number of mounts, as a set of numbers that has 0 and every
  successor. That walks are complete with few roles is a counting argument: a walk
  that has not closed has grown by a role at every mount. Acyclicity is stated as
  well-foundedness (every non-empty set of roles has a member without a parent in
  the set), so that no paths are needed. RoleGrants: `GrantsHaveMembers`,
  `RequestsDecidedOnce`, `RenamesMigrate`. `OpOK` says of a rename between its
  statements that everyone it has copied is still a member, and that everyone it
  owes the new name to has it or is copied; the foreign key (`MembershipFree`) and
  `Withdraw` keep it.
- **ServerProofs**, Startup: `OneKeyIsCurrent`, `ServingReplicasAreReady`,
  `InvitesAreUsedOnce`. `ReplicaOK` records what a replica has established at each
  step of its start; each of these facts is one that no other replica takes away
  (keys are never deleted, accounts are not, a taken login stays taken). MailQueue:
  `EnqueueNeverPanics`, `AcceptedJobsAreKept`, `DoneMeansDrained`. `LockOK` is the
  argument of the RWMutex (who may send has seen `accepting` under the read lock),
  `JobsOK` follows an accepted job through channel and worker, `ExitOK` says that a
  worker leaves only a closed and empty channel unless a caller gave up.

Only model-checked: the liveness properties (`DeliveredBecomeUsable`,
`ShutdownReturns`, `AcceptedAreRun`, `ShutdownExits`, `RequestsEnd`), since liveness
under fairness and ENABLED are outside the prover used here, and `TransportsAgree`
and `RestFollowsContract` of Transports. These two compare tables of 55 operations,
which TLC enumerates completely, so a proof would add nothing. Every other safety
property that a run checks is stated by a theorem.

## 5. What is not modelled

- Bodies, headers other than the bearer's, cookies and message fields of the
  transports; the JSON schemas of the MCP tools; the views and the store of the web
  client.
- Cryptography and token encoding, password hashing, configuration and logging:
  pure functions, whose results are values here.
- The SMTP exchange (its outcome is an input), the DDL, and the one-off
  normalisation of names, which runs before any request.
- Generated protocol code, the smoke test, and the example programs, which are
  clients that hold no state the service relies on.

Time is modelled by the events it causes: expiry, the end of a lock, the end of an
interval. Only the MCP client, whose correctness is a comparison of durations, has
a clock.
