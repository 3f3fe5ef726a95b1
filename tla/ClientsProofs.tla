--------------------------- MODULE ClientsProofs ----------------------------
(***************************************************************************)
(* The two clients of authd that keep tokens: the token cache of the MCP   *)
(* server, for any number of tool calls and any life of a token, and the   *)
(* accounts of the web client, for any number of accounts, flows and       *)
(* generations of a refresh token.                                         *)
(***************************************************************************)
EXTENDS McpClient, WebAccounts, TLAPS

-----------------------------------------------------------------------------
(* The MCP client                                                          *)

\* A call that waits or asks for a token has a deadline and no token.
Waiting == [pc : {"lock", "issue"}, deadline : Nat]

\* Deadlines are at most a timeout away, and a call that has its token ends
\* before the token does, by more than the margin.
CallOK(c) ==
    /\ calls[c].pc \in {"idle", "lock", "issue", "call"}
    /\ calls[c].pc \in {"lock", "issue"} => calls[c] \in Waiting
    /\ calls[c].pc # "idle" => calls[c].deadline \in Nat /\ calls[c].deadline <= now + Timeout
    /\ calls[c].pc = "call" => /\ calls[c].token.exp \in Nat
                               /\ calls[c].deadline + Margin < calls[c].token.exp

\* The inductive invariant behind TokensOutliveCalls.
McpInv ==
    /\ now \in Nat
    /\ cache # None => cache.exp \in Nat
    /\ DOMAIN calls = Calls /\ calls = [c \in Calls |-> calls[c]]
    /\ \A c \in Calls : CallOK(c)

\* A step that gives one call a record that is in order keeps the invariant.
LEMMA CallMoves ==
    ASSUME McpInv, NEW c \in Calls, NEW r, calls' = [calls EXCEPT ![c] = r], now' = now,
           cache' # None => cache'.exp \in Nat,
           r.pc \in {"idle", "lock", "issue", "call"},
           r.pc \in {"lock", "issue"} => r \in Waiting,
           r.pc # "idle" => r.deadline \in Nat /\ r.deadline <= now + Timeout,
           r.pc = "call" => r.token.exp \in Nat /\ r.deadline + Margin < r.token.exp
    PROVE  McpInv'
<1>1. DOMAIN calls' = Calls /\ calls' = [d \in Calls |-> calls'[d]]
  BY DEF McpInv
<1>2. calls'[c] = r /\ \A d \in Calls : d # c => calls'[d] = calls[d]
  BY DEF McpInv
<1>3. ASSUME NEW d \in Calls PROVE CallOK(d)'
  <2>1. CASE d = c
    BY <1>2, <2>1 DEF CallOK
  <2>2. CASE d # c
    <3>1. CallOK(d) /\ calls'[d] = calls[d]
      BY SMTT(40), <1>2, <2>2 DEF McpInv
    <3> QED BY <3>1 DEF CallOK
  <2> QED BY <2>1, <2>2
<1> QED BY <1>1, <1>3 DEF McpInv

\* The steps of a tool call keep the invariant: the token it takes from the
\* cache outlives now by more than the skew, and a new one by its whole life.
LEMMA ToolSteps ==
    ASSUME McpInv, NEW c \in Calls, NEW token, NEW answer,
           \/ StartTool(c) \/ UseCachedToken(c) \/ RenewToken(c) \/ TokenIssued(c, token)
           \/ TokenRefused(c) \/ ToolAnswered(c, answer) \/ ToolTimesOut(c)
    PROVE  McpInv'
<1>a. /\ Ttl \in Nat /\ Skew \in Nat /\ Timeout \in Nat
      /\ now \in Nat /\ CallOK(c)
  BY TimesAssumption DEF McpInv
<1>1. CASE StartTool(c)
  <2> DEFINE r == [pc |-> "lock", deadline |-> now + Timeout]
  <2>1. r \in Waiting /\ r.pc = "lock" /\ r.deadline = now + Timeout /\ now + Timeout \in Nat
    BY <1>a DEF Waiting
  <2>2. calls' = [calls EXCEPT ![c] = r] /\ UNCHANGED <<now, cache>>
    BY <1>1 DEF StartTool
  <2> HIDE DEF r
  <2> QED BY SMTT(40), <1>a, <2>1, <2>2, CallMoves DEF McpInv
<1>2. CASE UseCachedToken(c)
  <2> DEFINE r == [pc |-> "call", deadline |-> calls[c].deadline, token |-> cache]
  <2>1. calls' = [calls EXCEPT ![c] = r] /\ UNCHANGED <<now, cache>>
    BY <1>2 DEF UseCachedToken, McpInv
  <2>2. cache # None /\ cache.exp \in Nat /\ cache.exp - now > Skew
    BY <1>2 DEF UseCachedToken, Fresh, McpInv
  <2>3. calls[c].deadline \in Nat /\ calls[c].deadline <= now + Timeout
    BY <1>2, <1>a DEF UseCachedToken, CallOK
  <2>4. r.pc = "call" /\ r.deadline = calls[c].deadline /\ r.token.exp = cache.exp
    OBVIOUS
  <2>5. calls[c].deadline + Margin < cache.exp
    BY SMTT(40), <1>a, <2>2, <2>3 DEF Margin
  <2> HIDE DEF r
  <2> QED BY ZenonT(40), <2>1, <2>2, <2>3, <2>4, <2>5, CallMoves
<1>3. CASE RenewToken(c)
  <2> DEFINE r == [calls[c] EXCEPT !.pc = "issue"]
  <2>1. calls' = [calls EXCEPT ![c] = r] /\ UNCHANGED <<now, cache>>
    BY <1>3 DEF RenewToken, McpInv
  <2>2. calls[c] \in Waiting /\ calls[c].deadline <= now + Timeout
    BY <1>3, <1>a DEF RenewToken, CallOK
  <2>3. r \in Waiting /\ r.pc = "issue" /\ r.deadline = calls[c].deadline /\ r.deadline \in Nat
    BY <2>2 DEF Waiting
  <2> HIDE DEF r
  <2> QED BY SMTT(40), <2>1, <2>2, <2>3, CallMoves DEF McpInv
<1>4. CASE TokenIssued(c, token)
  <2> DEFINE r == [pc |-> "call", deadline |-> calls[c].deadline, token |-> token]
  <2>1. calls' = [calls EXCEPT ![c] = r] /\ now' = now /\ cache' = token
    BY <1>4 DEF TokenIssued, McpInv
  <2>2. token.exp = now + Ttl
    BY <1>4 DEF TokenIssued
  <2>3. calls[c].deadline \in Nat /\ calls[c].deadline <= now + Timeout
    BY <1>4, <1>a DEF TokenIssued, CallOK
  <2>4. r.pc = "call" /\ r.deadline = calls[c].deadline /\ r.token.exp = now + Ttl
    BY <2>2
  <2>5. calls[c].deadline + Margin < now + Ttl /\ now + Ttl \in Nat
    BY <1>a, <2>3 DEF Margin
  <2> HIDE DEF r
  <2> QED BY Zenon, <2>1, <2>2, <2>3, <2>4, <2>5, CallMoves
<1>5. ASSUME NEW a, calls' = [calls EXCEPT ![c] = [pc |-> "idle", answer |-> a]],
             UNCHANGED <<now, cache>>
      PROVE  McpInv'
  <2>1. [pc |-> "idle", answer |-> a].pc = "idle"
    OBVIOUS
  <2> QED BY SMTT(40), <1>5, <2>1, CallMoves DEF McpInv
<1>6. CASE TokenRefused(c) \/ ToolAnswered(c, answer) \/ ToolTimesOut(c)
  BY <1>5, <1>6 DEF TokenRefused, ToolAnswered, ToolTimesOut
<1> QED BY <1>1, <1>2, <1>3, <1>4, <1>6

\* Every step keeps the invariant: the clock only brings the deadlines nearer.
LEMMA NextMcpInv == McpInv /\ [McpNext]_mcpVars => McpInv'
<1> SUFFICES ASSUME McpInv, [McpNext]_mcpVars PROVE McpInv'
  OBVIOUS
<1>1. ASSUME UNCHANGED <<now, cache, calls>> PROVE McpInv'
  BY <1>1 DEF McpInv, CallOK
<1>2. CASE ClockTick
  <2>1. now' = now + 1 /\ UNCHANGED <<cache, calls>> /\ Timeout \in Nat
    BY <1>2, TimesAssumption DEF ClockTick, mcp
  <2> QED BY <2>1 DEF McpInv, CallOK
<1>3. CASE UNCHANGED mcpVars
  BY <1>1, <1>3 DEF mcpVars, mcp
<1> QED BY <1>2, <1>3, ToolSteps DEF McpNext

\* No call is under way at first.
LEMMA InitMcpInv == McpInit => McpInv
  BY DEF McpInit, Resting, McpInv, CallOK

\* The margin is a whole number, which may be negative.
LEMMA MarginIsInt == Margin \in Int
  BY TimesAssumption DEF Margin

\* A token outlives the call that presents it by more than the margin, for
\* any number of tool calls, any life of a token, any skew and any timeout.
THEOREM TokensLast == McpSpec => []TokensOutliveCalls
<1>1. McpInv => TokensOutliveCalls
  BY MarginIsInt DEF McpInv, CallOK, TokensOutliveCalls
<1> QED BY <1>1, InitMcpInv, NextMcpInv, PTL DEF McpSpec

-----------------------------------------------------------------------------
(* The web client                                                          *)

SomeToken == Tokens \cup {NoToken}
SomeAccount == Accounts \cup {NoAccount}

Flow == [pc : {"idle", "refresh", "reactive", "resume", "me", "retry", "logout"},
         kind : {"page", "switch", "signin", "signout", "signoutall", "boot"},
         id : SomeAccount, prev : SomeAccount, token : SomeToken, as : SomeAccount,
         entry : SomeToken, logout : SomeToken, left : SUBSET Accounts,
         out : {"ok", "invalid", "transient"}, at : {"refresh", "reactive"}]

SrvOK == srv \in [Accounts -> [gen : 0..MaxGen, alive : BOOLEAN]]

TabOK ==
    /\ listed \subseteq Accounts
    /\ saved \in [Accounts -> SomeToken]
    /\ active \in SomeAccount
    /\ sess \in [token : SomeToken, user : SomeAccount]
    /\ suspended \in BOOLEAN

\* A flow that has ended has left nothing behind, and only a page's call is for
\* no account.
FlowOK(f) ==
    /\ flow[f].pc = "idle" => flow[f] = Idle
    /\ flow[f].kind # "page" => flow[f].id \in Accounts

FlowsOK == flow \in [Flows -> Flow] /\ \A f \in Flows : FlowOK(f)

NetOK ==
    /\ net \in [Tokens -> {"none", "sent", "ok", "invalid", "transient"}]
    /\ \A t \in Tokens : net[t] = "ok" => t[2] < MaxGen

HistoryOK == overlap \in BOOLEAN

WebInv == SrvOK /\ TabOK /\ FlowsOK /\ NetOK /\ HistoryOK

OwnToken(a, t) == t = NoToken \/ Owner(t) = a
SigningIn == \E f \in Flows : flow[f].kind = "signin"

\* A sign-in that meets no other flow: the listener is suspended, and the session
\* is that of the account that signs in.
SignInOK(f) ==
    flow[f].kind = "signin" =>
        /\ suspended
        /\ flow[f].pc \in {"me", "reactive", "resume", "retry"}
        /\ flow[f].pc = "resume" => flow[f].at = "reactive"
        /\ flow[f].as = flow[f].id
        /\ Owner(sess.token) = flow[f].id
        /\ \A g \in Flows \ {f} : flow[g].pc = "idle"

\* What is applied to the session is a saved token, of the account it is applied
\* for: no flow holds an entry that a sign-in has replaced.
OwnTokens ==
    /\ \A a \in Accounts : OwnToken(a, saved[a])
    /\ \A f \in Flows : flow[f].entry = NoToken /\ SignInOK(f)
    /\ OwnToken(active, sess.token) \/ SigningIn

\* The inductive invariant behind SessionFollowsActive.
SessionInv == ~overlap => OwnTokens

\* The same while nobody signs in, for the tab and for the flows.
TabOwned == OwnToken(active, sess.token) /\ \A a \in Accounts : OwnToken(a, saved[a])
FlowsOwned == \A f \in Flows : flow[f].kind # "signin" /\ flow[f].entry = NoToken

Awaits(f, t) == flow[f].pc \in {"refresh", "reactive"} /\ flow[f].token = t

\* The tokens that the tab can still use: in the session, in an entry, in a request.
Holds(t) == t = sess.token \/ net[t] # "none" \/ \E a \in Accounts : t = saved[a]

\* The tab holds no token that the server has not issued; a rotation on its way to
\* the tab is the last one, of the newest token that the tab holds.
TokensOK ==
    /\ \A t \in Tokens : Holds(t) => t[2] <= srv[Owner(t)].gen
    /\ \A t \in Tokens : net[t] = "ok" =>
         /\ srv[Owner(t)].gen = t[2] + 1
         /\ \A u \in Tokens : Holds(u) /\ Owner(u) = Owner(t) => u[2] <= t[2]

\* Some flow waits for each request.
Awaited == \A t \in Tokens : net[t] # "none" => \E f \in Flows : Awaits(f, t)

Current(t) == Valid(t) \/ (t # NoToken /\ net[t] = "ok")
SignsIn(a) == \E f \in Flows : flow[f].kind = "signin" /\ flow[f].id = a

EntriesOK == \A a \in listed \ strayed : srv[a].alive => Current(saved[a]) \/ SignsIn(a)

\* Between sign-ins, the entry of the active account is the session's.
ActiveOK ==
    ~SigningIn =>
        /\ ~suspended
        /\ sess.token # NoToken /\ active \in listed \ strayed =>
             sess.user = active /\ saved[active] = sess.token

\* The session of a sign-in is the last one of its account, unless the refresh that
\* the sign-in waits for has failed.
Fails(f) == \/ flow[f].out # "ok"
            \/ flow[f].pc = "reactive" /\ net[flow[f].token] \in {"invalid", "transient"}
SignInLast(f) ==
    flow[f].kind = "signin" =>
        /\ flow[f].pc # "resume" => flow[f].out = "ok"
        /\ flow[f].pc = "reactive" => flow[f].token = sess.token
        /\ Fails(f) \/ (srv[flow[f].id].alive => Current(sess.token))

SavedOK == TokensOK /\ Awaited /\ EntriesOK /\ ActiveOK /\ \A f \in Flows : SignInLast(f)

\* The inductive invariant behind SavedTokensAreCurrent, beside SessionInv.
SavedInv == ~overlap => SavedOK

\* Tokens have an owner, and NoToken is none of them.
LEMMA TokenFacts ==
    /\ NoToken \notin Tokens /\ Owner(NoToken) = NoAccount /\ NoAccount \notin Accounts
    /\ \A t \in Tokens : Owner(t) \in Accounts /\ t[2] \in 1..MaxGen /\ t = <<Owner(t), t[2]>>
    /\ \A a \in Accounts, n \in 1..MaxGen : <<a, n>> \in Tokens /\ Owner(<<a, n>>) = a
  BY AccountsAssumption, WebBoundsAssumption DEF Tokens, NoToken, Owner

\* The owner of a token is the account it was issued to.
LEMMA OwnerOfPair == \A a, n : Owner(<<a, n>>) = a
  BY DEF Owner

\* The record of a flow that has ended.
LEMMA IdleFlow == Idle \in Flow /\ Idle.pc = "idle" /\ Idle.kind = "page" /\ Idle.id = NoAccount
                     /\ Idle.entry = NoToken /\ Idle.out = "ok"
  BY DEF Idle, Flow, SomeAccount, SomeToken

\* A flow that becomes a proper flow.
LEMMA PutFlow ==
    ASSUME FlowsOK, NEW f \in Flows, NEW r \in Flow,
           r.pc = "idle" => r = Idle, r.kind # "page" => r.id \in Accounts,
           flow' = [flow EXCEPT ![f] = r]
    PROVE  FlowsOK'
  <1>1. /\ flow' \in [Flows -> Flow] /\ flow'[f] = r
        /\ \A g \in Flows \ {f} : flow'[g] = flow[g]
    BY DEF FlowsOK
  <1>2. \A g \in Flows : FlowOK(g)'
    <2> TAKE g \in Flows
    <2>1. CASE g = f
      BY Zenon, <1>1, <2>1 DEF FlowOK
    <2>2. CASE g # f
      BY Zenon, <1>1, <2>2 DEF FlowOK, FlowsOK
    <2> QED
      BY <2>1, <2>2
  <1> QED
    BY <1>1, <1>2 DEF FlowsOK

\* A flow that ends.
LEMMA EndFlow == ASSUME FlowsOK, NEW f \in Flows, End(f) PROVE FlowsOK'
  BY Zenon, IdleFlow, PutFlow DEF End

\* The flow that a refresh leaves: it waits, or knows that it has no token.
LEMMA RefreshFlow ==
    ASSUME FlowsOK, NEW f \in Flows, NEW n \in Flow, n.pc \in {"refresh", "reactive"},
           n.kind # "page" => n.id \in Accounts, NEW t \in SomeToken, Refresh(f, n, t)
    PROVE  \E r \in Flow :
              /\ flow' = [flow EXCEPT ![f] = r] /\ flow'[f] = r
              /\ \/ r.pc = "resume" /\ r.at = n.pc /\ r.out = "invalid"
                 \/ r.pc = n.pc /\ r.token = t /\ t # NoToken /\ r.out = n.out
              /\ r.kind = n.kind /\ r.id = n.id /\ r.entry = n.entry /\ r.as = n.as
  <1>1. CASE t = NoToken
    <2> DEFINE r == [n EXCEPT !.at = n.pc, !.pc = "resume", !.out = "invalid"]
    <2>1. /\ r \in Flow /\ r.pc = "resume" /\ r.at = n.pc /\ r.out = "invalid"
          /\ r.kind = n.kind /\ r.id = n.id /\ r.entry = n.entry /\ r.as = n.as
      BY Zenon DEF Flow
    <2>2. flow' = [flow EXCEPT ![f] = r] /\ flow'[f] = r
      BY <1>1 DEF Refresh, FlowsOK
    <2> HIDE DEF r
    <2> QED
      BY Zenon, <2>1, <2>2
  <1>2. CASE t # NoToken
    <2> DEFINE r == [n EXCEPT !.token = t]
    <2>1. /\ r \in Flow /\ r.pc = n.pc /\ r.token = t /\ r.out = n.out
          /\ r.kind = n.kind /\ r.id = n.id /\ r.entry = n.entry /\ r.as = n.as
      BY DEF Flow
    <2>2. flow' = [flow EXCEPT ![f] = r] /\ flow'[f] = r
      BY <1>2 DEF Refresh, FlowsOK
    <2> HIDE DEF r
    <2> QED
      BY Zenon, <1>2, <2>1, <2>2
  <1> QED
    BY <1>1, <1>2

\* What a refresh sends.
LEMMA RefreshSends ==
    ASSUME NetOK, NEW f, NEW n, NEW t \in SomeToken, Refresh(f, n, t)
    PROVE  /\ NetOK'
           /\ \A u \in Tokens : net'[u] = net[u] \/ (net[u] = "none" /\ net'[u] = "sent" /\ u = t /\ t # NoToken)
  <1>1. CASE t = NoToken
    BY <1>1 DEF Refresh, NetOK
  <1>2. CASE t # NoToken
    <2>1. t \in Tokens /\ net' = IF net[t] = "none" THEN [net EXCEPT ![t] = "sent"] ELSE net
      BY <1>2 DEF Refresh, SomeToken
    <2> QED
      BY <1>2, <2>1 DEF NetOK
  <1> QED
    BY <1>1, <1>2

\* A refresh keeps the types.
LEMMA RefreshTypes ==
    ASSUME FlowsOK, NetOK, NEW f \in Flows, NEW n \in Flow, n.pc \in {"refresh", "reactive"},
           n.kind # "page" => n.id \in Accounts, NEW t \in SomeToken, Refresh(f, n, t)
    PROVE  FlowsOK' /\ NetOK'
  <1>1. PICK r \in Flow :
              /\ flow' = [flow EXCEPT ![f] = r]
              /\ r.pc # "idle" /\ r.kind = n.kind /\ r.id = n.id
    BY RefreshFlow
  <1> QED
    BY Zenon, <1>1, PutFlow, RefreshSends

\* An applied account keeps the types.
LEMMA ApplyTypes ==
    ASSUME TabOK, NEW a \in Accounts, NEW t \in SomeToken, ApplyCachedAccount(a, t), listed' \subseteq Accounts
    PROVE  TabOK'
  BY Zenon DEF TabOK, ApplyCachedAccount, SomeAccount

\* A new session and its listener keep the types.
LEMMA SetSessionTypes ==
    ASSUME TabOK, NEW s \in [token : SomeToken, user : SomeAccount], SetSession(s)
    PROVE  TabOK'
  <1>1. s.token \in SomeToken /\ listed' = listed /\ active' = active /\ suspended' = suspended /\ sess' = s
    BY DEF SetSession
  <1>2. saved' \in [Accounts -> SomeToken]
    BY <1>1 DEF SetSession, Sync, TabOK
  <1> QED
    BY <1>1, <1>2 DEF TabOK

\* Removing an account keeps the types.
LEMMA RemoveTypes ==
    ASSUME WebInv, NEW f \in Flows, NEW a, NEW prev, RemoveAccount(f, a, prev)
    PROVE  TabOK' /\ FlowsOK' /\ NetOK'
  <1>1. listed \ {a} \subseteq Accounts /\ listed' = listed \ {a}
    BY Zenon DEF WebInv, TabOK, RemoveAccount
  <1>2. CASE /\ active' = NoAccount /\ sess' = NoSession /\ End(f)
             /\ UNCHANGED <<saved, suspended, net>>
    <2>1. NoSession \in [token : SomeToken, user : SomeAccount]
      BY DEF NoSession, SomeToken, SomeAccount
    <2>2. TabOK'
      BY <1>1, <1>2, <2>1 DEF WebInv, TabOK, SomeAccount
    <2>3. NetOK'
      BY Zenon, <1>2 DEF WebInv, NetOK
    <2> QED
      BY Zenon, <1>2, <2>2, <2>3, EndFlow DEF WebInv
  <1>3. ASSUME NEW b \in listed \ {a}, ApplyCachedAccount(b, saved[b]),
               Refresh(f, [Idle EXCEPT !.pc = "refresh", !.kind = "switch", !.id = b], saved[b])
        PROVE  TabOK' /\ FlowsOK' /\ NetOK'
    <2> DEFINE n == [Idle EXCEPT !.pc = "refresh", !.kind = "switch", !.id = b]
    <2>1. b \in Accounts /\ saved[b] \in SomeToken
      BY <1>1 DEF WebInv, TabOK
    <2>2. n \in Flow /\ n.pc = "refresh" /\ n.id = b
      BY Zenon, <2>1 DEF Idle, Flow, SomeToken, SomeAccount
    <2>3. Refresh(f, n, saved[b])
      BY Zenon, <1>3
    <2> HIDE DEF n
    <2> QED
      BY Zenon, <1>1, <1>3, <2>1, <2>2, <2>3, ApplyTypes, RefreshTypes DEF WebInv
  <1> QED
    BY Zenon, <1>2, <1>3 DEF RemoveAccount

\* Restoring the previous account keeps the types.
LEMMA RestoreTypes ==
    ASSUME WebInv, NEW f \in Flows, flow[f].kind # "page", RestorePrevious(f)
    PROVE  TabOK' /\ FlowsOK' /\ NetOK'
  <1>1. flow[f].id \in Accounts /\ flow[f].entry \in SomeToken
    BY DEF WebInv, FlowsOK, FlowOK, Flow
  <1>2. /\ saved[flow[f].id] \in SomeToken /\ listed' \subseteq Accounts
        /\ flow[f].prev \in listed => flow[f].prev \in Accounts /\ saved[flow[f].prev] \in SomeToken
    BY <1>1 DEF WebInv, TabOK, RestorePrevious
  <1>3. \E a \in Accounts, t \in SomeToken : ApplyCachedAccount(a, t)
    BY Zenon, <1>1, <1>2 DEF RestorePrevious
  <1>4. NetOK'
    BY Zenon DEF WebInv, NetOK, RestorePrevious
  <1> QED
    BY Zenon, <1>2, <1>3, <1>4, ApplyTypes, EndFlow DEF WebInv, RestorePrevious

\* Asking for the identity keeps the types.
LEMMA LoadTypes ==
    ASSUME WebInv, NEW f \in Flows, NEW at \in {"me", "retry"}, LoadIdentity(f, at)
    PROVE  TabOK' /\ FlowsOK' /\ NetOK'
  <1> DEFINE r == [flow[f] EXCEPT !.pc = at, !.as = Owner(sess.token)]
  <1>1. flow[f] \in Flow /\ (flow[f].kind # "page" => flow[f].id \in Accounts) /\ at # "idle"
    BY DEF WebInv, FlowsOK, FlowOK
  <1>2. Owner(sess.token) \in SomeAccount
    <2>1. sess.token \in SomeToken
      BY DEF WebInv, TabOK
    <2> QED
      BY Zenon, <2>1, TokenFacts DEF SomeToken, SomeAccount
  <1>3. r \in Flow /\ r.pc = at /\ r.kind = flow[f].kind /\ r.id = flow[f].id
    BY Zenon, <1>1, <1>2 DEF Flow
  <1>4. flow' = [flow EXCEPT ![f] = r]
    BY Zenon DEF LoadIdentity, WebInv, FlowsOK
  <1>5. TabOK' /\ NetOK'
    BY DEF LoadIdentity, tab, WebInv, TabOK, NetOK
  <1> HIDE DEF r
  <1> QED
    BY Zenon, <1>1, <1>3, <1>4, <1>5, PutFlow DEF WebInv

\* The catch blocks keep the types.
LEMMA CatchTypes ==
    ASSUME WebInv, NEW f \in Flows, CatchUnauthorized(f) \/ CatchTransient(f)
    PROVE  TabOK' /\ FlowsOK' /\ NetOK' /\ overlap' \in BOOLEAN
  <1>1. CASE flow[f].kind \in {"switch", "boot"} /\ RemoveAccount(f, flow[f].id, flow[f].prev) /\ UNCHANGED overlap
    BY Zenon, <1>1, RemoveTypes DEF WebInv, HistoryOK
  <1>2. CASE flow[f].kind \in {"switch", "boot"} /\ RestorePrevious(f) /\ UNCHANGED overlap
    <2>1. flow[f].kind # "page"
      BY <1>2
    <2> QED
      BY Zenon, <1>2, <2>1, RestoreTypes DEF WebInv, HistoryOK
  <1>3. CASE /\ suspended' = FALSE /\ overlap' = TRUE /\ End(f)
             /\ sess' = IF flow[f].out = "invalid" THEN NoSession ELSE sess
             /\ UNCHANGED <<listed, saved, active, net>>
    <2>1. TabOK'
      BY Zenon, <1>3 DEF WebInv, TabOK, NoSession, SomeToken, SomeAccount
    <2>2. NetOK'
      BY Zenon, <1>3 DEF WebInv, NetOK
    <2> QED
      BY Zenon, <1>3, <2>1, <2>2, EndFlow DEF WebInv
  <1> QED
    BY Zenon, <1>1, <1>2, <1>3 DEF CatchUnauthorized, CatchTransient

\* Requests and their responses keep WebInv.
LEMMA NetTypes ==
    ASSUME WebInv, NEW t \in Tokens, ServerRefresh(t) \/ RefreshFails(t) \/ RefreshByToken(t)
    PROVE  WebInv'
  <1>1. CASE ServerRefresh(t) \/ RefreshFails(t)
    <2>1. TabOK' /\ FlowsOK' /\ HistoryOK'
      BY Zenon, <1>1 DEF ServerRefresh, RefreshFails, tab, WebInv, TabOK, FlowsOK, FlowOK, HistoryOK
    <2>2. SrvOK'
      <3>1. CASE srv' = srv
        BY Zenon, <3>1 DEF WebInv, SrvOK
      <3>2. CASE t[2] < MaxGen /\ srv' = [srv EXCEPT ![Owner(t)].gen = t[2] + 1]
        <4>1. t[2] + 1 \in 0..MaxGen
          BY <3>2, TokenFacts, WebBoundsAssumption
        <4> QED
          BY <3>2, <4>1, TokenFacts DEF WebInv, SrvOK
      <3> QED
        BY Zenon, <1>1, <3>1, <3>2 DEF ServerRefresh, RefreshFails
    <2>3. NetOK'
      BY <1>1 DEF ServerRefresh, RefreshFails, WebInv, NetOK
    <2> QED
      BY Zenon, <2>1, <2>2, <2>3 DEF WebInv
  <1>2. CASE RefreshByToken(t)
    <2>1. SrvOK' /\ NetOK' /\ HistoryOK'
      BY Zenon, <1>2 DEF RefreshByToken, WebInv, SrvOK, NetOK, HistoryOK
    <2>2. TabOK'
      <3>1. CASE UNCHANGED tab
        BY Zenon, <3>1 DEF tab, WebInv, TabOK
      <3>2. CASE Applies(t) /\ SetSession([sess EXCEPT !.token = <<Owner(t), t[2] + 1>>])
        <4>1. t[2] + 1 \in 1..MaxGen
          BY <3>2, TokenFacts, WebBoundsAssumption DEF Applies, WebInv, NetOK
        <4>2. <<Owner(t), t[2] + 1>> \in SomeToken
          BY Zenon, <4>1, TokenFacts DEF SomeToken
        <4>3. [sess EXCEPT !.token = <<Owner(t), t[2] + 1>>] \in [token : SomeToken, user : SomeAccount]
          BY Zenon, <4>2 DEF WebInv, TabOK
        <4> QED
          BY Zenon, <3>2, <4>3, SetSessionTypes DEF WebInv
      <3> QED
        BY Zenon, <1>2, <3>1, <3>2 DEF RefreshByToken
    <2>3. FlowsOK'
      <3>1. ASSUME NEW f \in Flows PROVE flow'[f] \in Flow /\ FlowOK(f)'
        <4> DEFINE r == [flow[f] EXCEPT !.at = flow[f].pc, !.pc = "resume", !.out = net[t], !.token = NoToken]
        <4>1. flow[f] \in Flow /\ FlowOK(f) /\ net[t] \in {"ok", "invalid", "transient"} /\ NoToken \in SomeToken
          BY Zenon, <1>2 DEF RefreshByToken, WebInv, FlowsOK, SomeToken
        <4>2. CASE flow'[f] = flow[f]
          BY Zenon, <4>1, <4>2 DEF FlowOK
        <4>3. CASE flow[f].pc \in {"refresh", "reactive"} /\ flow'[f] = r
          <5>1. r \in Flow /\ r.pc = "resume" /\ r.kind = flow[f].kind /\ r.id = flow[f].id
            BY Zenon, <4>1, <4>3 DEF Flow
          <5> HIDE DEF r
          <5>2. "resume" # "idle"
            OBVIOUS
          <5> QED
            BY Zenon, <4>1, <4>3, <5>1, <5>2 DEF FlowOK
        <4> QED
          BY Zenon, <1>2, <4>2, <4>3 DEF RefreshByToken
      <3>2. flow' = [f \in Flows |-> flow'[f]]
        BY Zenon, <1>2 DEF RefreshByToken
      <3> QED
        BY <3>1, <3>2 DEF FlowsOK
    <2> QED
      BY Zenon, <2>1, <2>2, <2>3 DEF WebInv
  <1> QED
    BY <1>1, <1>2

\* What Begin does to the history.
LEMMA BeginHistory ==
    ASSUME HistoryOK, NEW f, NEW kind, Begin(f, kind)
    PROVE  HistoryOK'
  BY Zenon DEF Begin, Overlap, HistoryOK

\* A logout, with the refresh that may come first, keeps the types.
LEMMA SendTypes ==
    ASSUME WebInv, NEW f \in Flows, NEW n \in Flow, n.id \in Accounts, Logout(f, n)
    PROVE  FlowsOK' /\ NetOK'
  <1>1. CASE flow' = [flow EXCEPT ![f] = [n EXCEPT !.pc = "logout"]] /\ UNCHANGED net
    <2> DEFINE r == [n EXCEPT !.pc = "logout"]
    <2>1. r \in Flow /\ r.pc = "logout" /\ r.id = n.id
      BY Zenon DEF Flow
    <2>2. flow' = [flow EXCEPT ![f] = r]
      BY Zenon, <1>1
    <2> HIDE DEF r
    <2>3. r.pc # "idle"
      BY <2>1
    <2> QED
      BY Zenon, <1>1, <2>1, <2>2, <2>3, PutFlow DEF WebInv, NetOK
  <1>2. CASE Refresh(f, [n EXCEPT !.pc = "refresh"], sess.token)
    <2> DEFINE r == [n EXCEPT !.pc = "refresh"]
    <2>1. r \in Flow /\ r.pc = "refresh" /\ r.id = n.id
      BY Zenon DEF Flow
    <2>2. Refresh(f, r, sess.token) /\ sess.token \in SomeToken
      BY Zenon, <1>2 DEF WebInv, TabOK
    <2> HIDE DEF r
    <2> QED
      BY Zenon, <2>1, <2>2, RefreshTypes DEF WebInv
  <1> QED
    BY Zenon, <1>1, <1>2 DEF Logout

\* The starts of flows keep WebInv.
LEMMA StartTypes ==
    ASSUME WebInv, NEW f \in Flows, NEW a \in Accounts,
           SwitchTo(f, a) \/ CompleteSignIn(f, a) \/ SignOutAccount(f, a) \/ PageCall(f) \/ SignOutAll(f)
    PROVE  WebInv'
  <1>1. saved[a] \in SomeToken /\ active \in SomeAccount /\ sess.token \in SomeToken
    BY DEF WebInv, TabOK
  <1>2. CASE SwitchTo(f, a)
    <2> DEFINE n == [Idle EXCEPT !.pc = "refresh", !.kind = "switch", !.id = a, !.prev = active]
    <2>1. n \in Flow /\ n.pc = "refresh" /\ n.id = a
      BY Zenon, <1>1 DEF Idle, Flow, SomeToken, SomeAccount
    <2>2. Refresh(f, n, saved[a])
      BY Zenon, <1>2 DEF SwitchTo
    <2> HIDE DEF n
    <2>3. FlowsOK' /\ NetOK'
      BY Zenon, <1>1, <2>1, <2>2, RefreshTypes DEF WebInv
    <2>4. TabOK'
      BY Zenon, <1>1, <1>2, ApplyTypes DEF SwitchTo, WebInv, TabOK
    <2> QED
      BY Zenon, <1>2, <2>3, <2>4, BeginHistory DEF SwitchTo, WebInv, SrvOK
  <1>3. CASE CompleteSignIn(f, a)
    <2> DEFINE r == [Idle EXCEPT !.pc = "me", !.kind = "signin", !.id = a, !.as = a]
    <2>1. r \in Flow /\ r.pc = "me" /\ r.id = a
      BY Zenon, <1>1 DEF Idle, Flow, SomeToken, SomeAccount
    <2>2. flow' = [flow EXCEPT ![f] = r]
      BY Zenon, <1>3 DEF CompleteSignIn
    <2> HIDE DEF r
    <2>3. FlowsOK'
      BY Zenon, <2>1, <2>2, PutFlow DEF WebInv
    <2>4. srv[a].gen + 1 \in 1..MaxGen /\ srv[a].gen + 1 \in 0..MaxGen
      BY <1>3, WebBoundsAssumption DEF CompleteSignIn, WebInv, SrvOK
    <2>5. <<a, srv[a].gen + 1>> \in SomeToken
      BY Zenon, <2>4, TokenFacts DEF SomeToken
    <2>6. TabOK'
      BY Zenon, <1>3, <2>5 DEF CompleteSignIn, WebInv, TabOK
    <2>7. SrvOK'
      BY <1>3, <2>4 DEF CompleteSignIn, WebInv, SrvOK
    <2> QED
      BY Zenon, <1>3, <2>3, <2>6, <2>7, BeginHistory DEF CompleteSignIn, WebInv, NetOK
  <1>4. CASE PageCall(f)
    <2> DEFINE n == [Idle EXCEPT !.pc = "refresh", !.kind = "page"]
    <2>1. n \in Flow /\ n.pc = "refresh" /\ n.kind = "page"
      BY Zenon, <1>1 DEF Idle, Flow, SomeToken, SomeAccount
    <2>2. Refresh(f, n, sess.token)
      BY Zenon, <1>4 DEF PageCall
    <2> HIDE DEF n
    <2>3. FlowsOK' /\ NetOK'
      BY Zenon, <1>1, <2>1, <2>2, RefreshTypes DEF WebInv
    <2> QED
      BY Zenon, <1>4, <2>3, BeginHistory DEF PageCall, WebInv, SrvOK, tab, TabOK
  <1>5. ASSUME NEW n \in Flow, n.id \in Accounts, NEW kind, Logout(f, n), Begin(f, kind), UNCHANGED <<srv, tab>>
        PROVE  WebInv'
    <2>1. FlowsOK' /\ NetOK'
      BY Zenon, <1>5, SendTypes
    <2> QED
      BY Zenon, <1>5, <2>1, BeginHistory DEF WebInv, SrvOK, tab, TabOK
  <1>6. CASE SignOutAccount(f, a)
    <2> DEFINE n == [Idle EXCEPT !.kind = "signout", !.id = a, !.logout = saved[a]]
    <2>1. n \in Flow /\ n.id \in Accounts
      BY Zenon, <1>1 DEF Idle, Flow, SomeToken, SomeAccount
    <2>2. Logout(f, n) /\ Begin(f, "signout") /\ UNCHANGED <<srv, tab>>
      BY Zenon, <1>6 DEF SignOutAccount
    <2> HIDE DEF n
    <2> QED
      BY Zenon, <1>5, <2>1, <2>2
  <1>7. CASE SignOutAll(f)
    <2>1. PICK b \in listed :
            Logout(f, [Idle EXCEPT !.kind = "signoutall", !.id = b, !.logout = saved[b], !.left = listed \ {b}])
      BY Zenon, <1>7 DEF SignOutAll
    <2> DEFINE n == [Idle EXCEPT !.kind = "signoutall", !.id = b, !.logout = saved[b], !.left = listed \ {b}]
    <2>2. b \in Accounts /\ saved[b] \in SomeToken /\ listed \ {b} \in SUBSET Accounts
      BY DEF WebInv, TabOK
    <2>3. n \in Flow /\ n.id \in Accounts
      BY Zenon, <2>2 DEF Idle, Flow, SomeToken, SomeAccount
    <2>4. Logout(f, n) /\ Begin(f, "signoutall") /\ UNCHANGED <<srv, tab>>
      BY Zenon, <1>7, <2>1 DEF SignOutAll
    <2> HIDE DEF n
    <2> QED
      BY Zenon, <1>5, <2>3, <2>4
  <1> QED
    BY Zenon, <1>2, <1>3, <1>4, <1>6, <1>7

\* A reload keeps WebInv.
LEMMA BootTypes ==
    ASSUME WebInv, NEW f \in Flows, BootRestore(f)
    PROVE  WebInv'
  <1>0. listed' = listed
    BY Zenon DEF BootRestore
  <1>1. SrvOK'
    <2>1. PICK late \in SUBSET {t \in Tokens : net[t] = "sent" /\ Valid(t) /\ t[2] < MaxGen} :
            srv' = [a \in Accounts |->
              IF \E t \in late : Owner(t) = a THEN [srv[a] EXCEPT !.gen = @ + 1] ELSE srv[a]]
      BY Zenon DEF BootRestore
    <2>2. ASSUME NEW a \in Accounts PROVE srv'[a] \in [gen : 0..MaxGen, alive : BOOLEAN]
      <3>1. srv[a] \in [gen : 0..MaxGen, alive : BOOLEAN]
        BY Zenon DEF WebInv, SrvOK
      <3>2. CASE \E t \in late : Owner(t) = a
        <4>1. PICK t \in late : Owner(t) = a
          BY Zenon, <3>2
        <4>2. srv[a].gen < MaxGen
          BY Zenon, <4>1 DEF Valid
        <4>3. srv[a].gen + 1 \in 0..MaxGen
          BY <3>1, <4>2, WebBoundsAssumption
        <4>4. srv'[a] = [srv[a] EXCEPT !.gen = srv[a].gen + 1]
          BY <2>1, <3>1, <3>2
        <4> QED
          BY <3>1, <4>3, <4>4
      <3>3. CASE ~\E t \in late : Owner(t) = a
        BY Zenon, <2>1, <3>1, <3>3
      <3> QED
        BY Zenon, <3>2, <3>3
    <2> QED
      BY Zenon, <2>1, <2>2 DEF SrvOK
  <1>2. HistoryOK'
    BY Zenon DEF BootRestore, Overlap, WebInv, HistoryOK
  <1>3. ASSUME NEW a \in listed, ApplyCachedAccount(a, saved[a]) PROVE TabOK'
    BY Zenon, <1>0, <1>3, ApplyTypes DEF WebInv, TabOK
  <1>4. ASSUME sess' = NoSession, suspended' = FALSE, UNCHANGED <<saved, active>> PROVE TabOK'
    BY Zenon, <1>0, <1>4 DEF WebInv, TabOK, NoSession, SomeToken, SomeAccount
  <1>5. TabOK'
    <2>1. \A a : a \in (IF active \in listed THEN {active} ELSE listed) => a \in listed
      BY Zenon
    <2> QED
      BY Zenon, <1>3, <1>4, <2>1 DEF BootRestore
  <1>6. NetOK'
    <2>1. \A t \in Tokens : net'[t] \in {"none", "sent"}
      BY Zenon DEF BootRestore
    <2>2. net' = [t \in Tokens |-> net'[t]]
      BY Zenon DEF BootRestore
    <2> QED
      BY <2>1, <2>2 DEF NetOK
  <1>7. FlowsOK'
    <2>1. CASE flow' = [g \in Flows |-> Idle]
      BY <2>1, IdleFlow DEF FlowsOK, FlowOK
    <2>2. ASSUME NEW a \in listed,
                 flow' = [g \in Flows |->
                    IF g # f THEN Idle
                    ELSE [Idle EXCEPT !.pc = IF saved[a] = NoToken THEN "resume" ELSE "refresh",
                                      !.kind = "boot", !.id = a, !.token = saved[a], !.out = "invalid"]]
          PROVE  FlowsOK'
      <3> DEFINE r == [Idle EXCEPT !.pc = IF saved[a] = NoToken THEN "resume" ELSE "refresh",
                                   !.kind = "boot", !.id = a, !.token = saved[a], !.out = "invalid"]
      <3>1. a \in Accounts /\ saved[a] \in SomeToken
        BY DEF WebInv, TabOK
      <3>2. r \in Flow /\ r.pc \in {"resume", "refresh"} /\ r.id \in Accounts
        BY Zenon, <3>1 DEF Idle, Flow, SomeToken, SomeAccount
      <3>3. flow' = [g \in Flows |-> IF g # f THEN Idle ELSE r]
        BY Zenon, <2>2
      <3> HIDE DEF r
      <3>4. \A g \in Flows : flow'[g] = Idle \/ flow'[g] = r
        BY Zenon, <3>3
      <3>5. r.pc # "idle"
        BY <3>2
      <3>6. flow' \in [Flows -> Flow]
        BY Zenon, <3>2, <3>3, IdleFlow
      <3> QED
        BY Zenon, <3>2, <3>4, <3>5, <3>6, IdleFlow DEF FlowsOK, FlowOK
    <2>3. \A a : a \in (IF active \in listed THEN {active} ELSE listed) => a \in listed
      BY Zenon
    <2> QED
      BY Zenon, <2>1, <2>2, <2>3 DEF BootRestore
  <1> QED
    BY Zenon, <1>1, <1>2, <1>5, <1>6, <1>7 DEF WebInv

\* The end of a sign-in keeps WebInv.
LEMMA RecordTypes ==
    ASSUME WebInv, NEW f \in Flows, NEW u \in Accounts, RecordActiveLogin(f, u)
    PROVE  TabOK' /\ FlowsOK'
  <1>1. TabOK'
    <2>1. sess.token \in SomeToken /\ sess' = [sess EXCEPT !.user = u]
      BY DEF RecordActiveLogin, WebInv, TabOK
    <2>2. sess' \in [token : SomeToken, user : SomeAccount]
      BY <2>1 DEF WebInv, TabOK, SomeAccount
    <2> QED
      BY Zenon, <2>1, <2>2 DEF RecordActiveLogin, WebInv, TabOK, SomeAccount
  <1>2. ASSUME NEW g \in Flows PROVE flow'[g] \in Flow /\ FlowOK(g)'
    <2> DEFINE r == [flow[g] EXCEPT !.entry = saved[u]]
    <2>1. flow[g] \in Flow /\ FlowOK(g) /\ saved[u] \in SomeToken
      BY DEF WebInv, FlowsOK, TabOK
    <2>2. CASE flow'[g] = Idle
      BY Zenon, <2>2, IdleFlow DEF FlowOK
    <2>3. CASE flow'[g] = flow[g]
      BY Zenon, <2>1, <2>3 DEF FlowOK
    <2>4. CASE flow[g].id = u /\ flow'[g] = r
      <3>1. r \in Flow /\ r.pc = flow[g].pc /\ r.id = u
        BY Zenon, <2>1, <2>4 DEF Flow
      <3>2. flow[g].pc # "idle"
        BY Zenon, <2>1, <2>4, TokenFacts, IdleFlow DEF FlowOK
      <3> HIDE DEF r
      <3> QED
        BY Zenon, <2>4, <3>1, <3>2 DEF FlowOK
    <2> QED
      BY Zenon, <2>2, <2>3, <2>4 DEF RecordActiveLogin
  <1>3. flow' = [g \in Flows |-> flow'[g]]
    BY Zenon DEF RecordActiveLogin
  <1> QED
    BY <1>1, <1>2, <1>3 DEF FlowsOK

\* What a flow does after a refresh or an answer keeps WebInv.
LEMMA ContinueTypes ==
    ASSUME WebInv, NEW f \in Flows,
           AfterRefresh(f) \/ Identity(f) \/ IdentityRefused(f) \/ IdentityFails(f) \/ AfterReactive(f)
    PROVE  WebInv'
  <1>1. SrvOK'
    BY Zenon DEF AfterRefresh, Identity, IdentityRefused, IdentityFails, AfterReactive, WebInv, SrvOK, HistoryOK
  <1>2. ASSUME UNCHANGED overlap, TabOK' /\ FlowsOK' /\ NetOK' PROVE WebInv'
    BY Zenon, <1>1, <1>2 DEF WebInv, HistoryOK
  <1>3. ASSUME UNCHANGED <<tab, net>> PROVE TabOK' /\ NetOK'
    BY Zenon, <1>3 DEF tab, WebInv, TabOK, NetOK
  <1>4. ASSUME UNCHANGED net PROVE NetOK'
    BY Zenon, <1>4 DEF WebInv, NetOK
  <1>5. sess \in [token : SomeToken, user : SomeAccount] /\ sess.token \in SomeToken
    BY DEF WebInv, TabOK
  <1>6. NoSession \in [token : SomeToken, user : SomeAccount]
    BY DEF NoSession, SomeToken, SomeAccount
  <1>7. flow[f] \in Flow /\ FlowOK(f)
    BY DEF WebInv, FlowsOK
  <1>8. CASE AfterRefresh(f)
    <2>0. UNCHANGED overlap
      BY Zenon, <1>8 DEF AfterRefresh
    <2> SUFFICES TabOK' /\ FlowsOK' /\ NetOK'
      BY Zenon, <1>2, <2>0
    <2>1. CASE (ClearSession \/ UNCHANGED tab) /\ End(f) /\ UNCHANGED net
      BY Zenon, <1>3, <1>4, <1>6, <2>1, SetSessionTypes, EndFlow DEF ClearSession, WebInv
    <2>2. CASE LoadIdentity(f, "me")
      BY Zenon, <2>2, LoadTypes
    <2>3. CASE RemoveAccount(f, flow[f].id, flow[f].prev)
      BY Zenon, <2>3, RemoveTypes
    <2>4. CASE flow[f].kind = "switch" /\ RestorePrevious(f)
      <3>1. flow[f].kind # "page"
        BY <2>4
      <3> QED
        BY Zenon, <2>4, <3>1, RestoreTypes
    <2>5. CASE End(f) /\ UNCHANGED <<tab, net>>
      BY Zenon, <1>3, <2>5, EndFlow DEF WebInv
    <2>6. CASE /\ flow[f].kind \in {"signout", "signoutall"}
               /\ (ClearSession \/ UNCHANGED tab) /\ flow' = [flow EXCEPT ![f].pc = "logout"] /\ UNCHANGED net
      <3> DEFINE r == [flow[f] EXCEPT !.pc = "logout"]
      <3>1. r \in Flow /\ r.pc = "logout" /\ r.id = flow[f].id
        BY Zenon, <1>7 DEF Flow
      <3>2. flow[f].kind # "page" /\ flow' = [flow EXCEPT ![f] = r]
        BY <2>6
      <3> HIDE DEF r
      <3>3. r.pc # "idle"
        BY <3>1
      <3>4. FlowsOK'
        BY Zenon, <1>7, <3>1, <3>2, <3>3, PutFlow DEF WebInv, FlowOK
      <3> QED
        BY Zenon, <1>3, <1>4, <1>6, <2>6, <3>4, SetSessionTypes DEF ClearSession, WebInv
    <2> QED
      BY ZenonT(30), <1>8, <2>1, <2>2, <2>3, <2>4, <2>5, <2>6 DEF AfterRefresh
  <1>9. CASE Identity(f)
    <2>1. flow[f].as \in SomeAccount /\ flow[f].as # NoAccount /\ flow[f].as \in Accounts
      BY <1>7, <1>9 DEF Identity, Flow, SomeAccount
    <2>2. [sess EXCEPT !.user = flow[f].as] \in [token : SomeToken, user : SomeAccount]
      BY Zenon, <1>5, <2>1
    <2>3. TabOK' /\ FlowsOK'
      BY Zenon, <1>9, <2>1, <2>2, RecordTypes, SetSessionTypes, EndFlow DEF Identity, WebInv
    <2> QED
      BY Zenon, <1>2, <1>4, <1>9, <2>3 DEF Identity
  <1>10. CASE IdentityRefused(f)
    <2> DEFINE n == [flow[f] EXCEPT !.pc = "reactive"]
    <2>1. n \in Flow /\ n.pc = "reactive" /\ n.kind = flow[f].kind /\ n.id = flow[f].id
      BY Zenon, <1>7 DEF Flow
    <2>2. CASE Refresh(f, n, sess.token) /\ UNCHANGED <<tab, overlap>>
      <3> HIDE DEF n
      <3>1. FlowsOK' /\ NetOK'
        BY Zenon, <1>5, <1>7, <2>1, <2>2, RefreshTypes DEF WebInv, FlowOK
      <3> QED
        BY Zenon, <1>2, <2>2, <3>1 DEF tab, WebInv, TabOK
    <2>3. CASE CatchUnauthorized(f)
      BY Zenon, <1>1, <2>3, CatchTypes DEF WebInv, HistoryOK
    <2> QED
      BY Zenon, <1>10, <2>2, <2>3 DEF IdentityRefused
  <1>11. CASE IdentityFails(f)
    BY Zenon, <1>1, <1>11, CatchTypes DEF IdentityFails, WebInv, HistoryOK
  <1>12. CASE AfterReactive(f)
    <2>1. CASE CatchTransient(f) \/ CatchUnauthorized(f)
      BY Zenon, <1>1, <2>1, CatchTypes DEF WebInv, HistoryOK
    <2>2. CASE LoadIdentity(f, "retry") /\ UNCHANGED overlap
      BY Zenon, <1>2, <1>12, <2>2, LoadTypes
    <2> QED
      BY Zenon, <1>12, <2>1, <2>2 DEF AfterReactive
  <1> QED
    BY <1>8, <1>9, <1>10, <1>11, <1>12

\* Sign-outs and revocations keep WebInv.
LEMMA LogoutTypes ==
    ASSUME WebInv, NEW f \in Flows, LogoutAnswered(f)
    PROVE  WebInv'
  <1>1. SrvOK' /\ HistoryOK'
    <2>1. ASSUME NEW b \in Accounts, srv' = [srv EXCEPT ![b].alive = FALSE] PROVE SrvOK'
      BY Zenon, <2>1 DEF WebInv, SrvOK
    <2>2. SrvOK'
      BY Zenon, <2>1 DEF LogoutAnswered, WebInv, SrvOK
    <2> QED
      BY Zenon, <2>2 DEF LogoutAnswered, WebInv, HistoryOK
  <1> SUFFICES TabOK' /\ FlowsOK' /\ NetOK'
    BY Zenon, <1>1 DEF WebInv
  <1>2. CASE RemoveAccount(f, flow[f].id, NoAccount)
    BY Zenon, <1>2, RemoveTypes
  <1>3. CASE /\ listed' = listed \ {flow[f].id} /\ End(f)
             /\ UNCHANGED <<saved, active, sess, suspended, net>>
    BY Zenon, <1>3, EndFlow DEF WebInv, TabOK, NetOK
  <1>4. CASE /\ listed' = {} /\ active' = NoAccount /\ sess' = NoSession /\ End(f)
             /\ UNCHANGED <<saved, suspended, net>>
    BY Zenon, <1>4, EndFlow DEF WebInv, TabOK, NetOK, NoSession, SomeToken, SomeAccount
  <1>5. ASSUME NEW b \in flow[f].left, UNCHANGED tab,
               Logout(f, [Idle EXCEPT !.kind = "signoutall", !.id = b, !.logout = saved[b],
                                      !.left = flow[f].left \ {b}])
        PROVE  TabOK' /\ FlowsOK' /\ NetOK'
    <2> DEFINE n == [Idle EXCEPT !.kind = "signoutall", !.id = b, !.logout = saved[b],
                                 !.left = flow[f].left \ {b}]
    <2>1. flow[f] \in Flow
      BY Zenon DEF WebInv, FlowsOK
    <2>2. b \in Accounts /\ flow[f].left \ {b} \in SUBSET Accounts
      BY <2>1 DEF Flow
    <2>3. saved[b] \in SomeToken
      BY <2>2 DEF WebInv, TabOK
    <2>4. n \in Flow /\ n.id \in Accounts
      BY Zenon, <2>2, <2>3 DEF Idle, Flow, SomeToken, SomeAccount
    <2>5. Logout(f, n)
      BY Zenon, <1>5
    <2> HIDE DEF n
    <2> QED
      BY Zenon, <1>5, <2>4, <2>5, SendTypes DEF tab, WebInv, TabOK
  <1> QED
    BY ZenonT(30), <1>2, <1>3, <1>4, <1>5 DEF LogoutAnswered

\* A revocation keeps WebInv.
LEMMA RevokeTypes == ASSUME WebInv, NEW a \in Accounts, Revoke(a) PROVE WebInv'
  <1>1. SrvOK'
    BY Zenon DEF Revoke, WebInv, SrvOK
  <1> QED
    BY Zenon, <1>1 DEF Revoke, WebInv, tab, TabOK, FlowsOK, FlowOK, NetOK, HistoryOK

\* The types of the web client hold at first.
LEMMA InitWebInv == Init => WebInv
  <1> SUFFICES ASSUME Init PROVE WebInv
    OBVIOUS
  <1>1. SrvOK /\ NetOK
    BY WebBoundsAssumption DEF Init, SrvOK, NetOK
  <1>2. TabOK
    BY Zenon DEF Init, TabOK, NoSession, SomeToken, SomeAccount
  <1>3. FlowsOK /\ HistoryOK
    BY Zenon, IdleFlow DEF Init, FlowsOK, FlowOK, HistoryOK
  <1> QED
    BY Zenon, <1>1, <1>2, <1>3 DEF WebInv

\* Every step of the web client keeps its types.
LEMMA NextWebInv == WebInv /\ [Next]_vars => WebInv'
  <1>1. ASSUME WebInv, UNCHANGED vars PROVE WebInv'
    BY Zenon, <1>1 DEF vars, tab, WebInv, SrvOK, TabOK, FlowsOK, FlowOK, NetOK, HistoryOK
  <1>2. ASSUME WebInv, NEW f \in Flows, PageCall(f) \/ SignOutAll(f) PROVE WebInv'
    <2>1. \E a \in Accounts : TRUE
      <3>1. sess.token \in SomeToken /\ listed \subseteq Accounts
        BY <1>2 DEF WebInv, TabOK
      <3> QED
        BY Zenon, <1>2, <3>1, TokenFacts DEF PageCall, SignOutAll, SomeToken
    <2> QED
      BY Zenon, <1>2, <2>1, StartTypes
  <1> QED
    BY ZenonT(30), <1>1, <1>2, NetTypes, StartTypes, BootTypes, ContinueTypes, LogoutTypes, RevokeTypes DEF Next

\* Without a sign-in, OwnTokens says that the tab and the flows hold tokens of
\* the right accounts.
LEMMA QuietTokens ==
    /\ OwnTokens /\ ~SigningIn => TabOwned /\ FlowsOwned
    /\ TabOwned /\ FlowsOwned => OwnTokens /\ ~SigningIn
  BY Zenon DEF OwnTokens, SigningIn, TabOwned, FlowsOwned, SignInOK

\* The same after a step.
LEMMA QuietStep == TabOwned' /\ FlowsOwned' => OwnTokens'
  BY Zenon DEF OwnTokens, SigningIn, TabOwned, FlowsOwned, SignInOK

\* A flow that meets a sign-in is an overlap.
LEMMA QuietStart ==
    ASSUME WebInv, SessionInv, NEW k, Overlap(k), ~overlap'
    PROVE  TabOwned /\ FlowsOwned /\ (k = "signin" => Busy = {})
  <1>1. ~overlap /\ OwnTokens
    BY Zenon DEF Overlap, SessionInv
  <1>2. \A g \in Flows : flow[g].kind = "signin" => g \in Busy
    BY Zenon, IdleFlow DEF WebInv, FlowsOK, FlowOK, Busy
  <1>3. ~SigningIn /\ (k = "signin" => Busy = {})
    BY Zenon, <1>1, <1>2 DEF Overlap, SigningIn
  <1> QED
    BY Zenon, <1>1, <1>3, QuietTokens

\* A flow that is under way and no sign-in excludes sign-ins.
LEMMA QuietFlow ==
    ASSUME WebInv, OwnTokens, NEW f \in Flows, flow[f].pc # "idle", flow[f].kind # "signin"
    PROVE  TabOwned /\ FlowsOwned
  <1>1. ~SigningIn
    BY Zenon DEF OwnTokens, SigningIn, SignInOK
  <1> QED
    BY Zenon, <1>1, QuietTokens

\* A flow that becomes another that holds no entry.
LEMMA PutOwned ==
    ASSUME WebInv, FlowsOwned, NEW f \in Flows, NEW r,
           r.kind # "signin", r.entry = NoToken, flow' = [flow EXCEPT ![f] = r]
    PROVE  FlowsOwned'
  <1>1. flow'[f] = r /\ \A g \in Flows \ {f} : flow'[g] = flow[g]
    BY Zenon DEF WebInv, FlowsOK
  <1>2. \A g \in Flows \ {f} : flow'[g].kind # "signin" /\ flow'[g].entry = NoToken
    BY Zenon, <1>1 DEF FlowsOwned
  <1>3. flow'[f].kind # "signin" /\ flow'[f].entry = NoToken
    BY <1>1
  <1> QED
    BY Zenon, <1>2, <1>3 DEF FlowsOwned

\* A flow that ends holds none.
LEMMA EndOwned == ASSUME WebInv, FlowsOwned, NEW f \in Flows, End(f) PROVE FlowsOwned'
  <1>1. Idle.kind # "signin" /\ Idle.entry = NoToken
    BY IdleFlow DEF OwnToken
  <1> QED
    BY Zenon, <1>1, PutOwned DEF End

\* A refresh leaves the entry of the flow alone.
LEMMA RefreshOwned ==
    ASSUME WebInv, FlowsOwned, NEW f \in Flows, NEW n \in Flow, n.pc \in {"refresh", "reactive"},
           n.kind # "page" => n.id \in Accounts, NEW t \in SomeToken, Refresh(f, n, t),
           n.kind # "signin", n.entry = NoToken
    PROVE  FlowsOwned'
  <1>1. PICK r \in Flow : /\ flow' = [flow EXCEPT ![f] = r]
                          /\ r.kind = n.kind /\ r.id = n.id /\ r.entry = n.entry
    <2>1. FlowsOK
      BY Zenon DEF WebInv
    <2> QED
      BY <2>1, RefreshFlow
  <1> QED
    BY Zenon, <1>1, PutOwned

\* A logout leaves it alone too.
LEMMA SendOwned ==
    ASSUME WebInv, FlowsOwned, NEW f \in Flows, NEW n \in Flow, n.id \in Accounts, Logout(f, n),
           n.kind # "signin", n.entry = NoToken
    PROVE  FlowsOwned'
  <1>1. CASE flow' = [flow EXCEPT ![f] = [n EXCEPT !.pc = "logout"]]
    <2> DEFINE r == [n EXCEPT !.pc = "logout"]
    <2>1. r.kind = n.kind /\ r.entry = n.entry /\ flow' = [flow EXCEPT ![f] = r]
      BY Zenon, <1>1 DEF Flow
    <2> HIDE DEF r
    <2> QED
      BY Zenon, <2>1, PutOwned
  <1>2. CASE Refresh(f, [n EXCEPT !.pc = "refresh"], sess.token)
    <2> DEFINE r == [n EXCEPT !.pc = "refresh"]
    <2>1. r \in Flow /\ r.pc = "refresh" /\ r.id = n.id /\ r.kind = n.kind /\ r.entry = n.entry
      BY Zenon DEF Flow
    <2>2. Refresh(f, r, sess.token) /\ sess.token \in SomeToken
      BY Zenon, <1>2 DEF WebInv, TabOK
    <2> HIDE DEF r
    <2> QED
      BY Zenon, <2>1, <2>2, RefreshOwned
  <1> QED
    BY Zenon, <1>1, <1>2 DEF Logout

\* An applied account puts its own token into the session.
LEMMA ApplyOwned ==
    ASSUME TabOwned, NEW a, NEW t, ApplyCachedAccount(a, t), OwnToken(a, t)
    PROVE  TabOwned'
  <1>1. saved' = saved /\ active' = a /\ sess'.token = t
    BY DEF ApplyCachedAccount
  <1> QED
    BY Zenon, <1>1 DEF TabOwned

\* The listener saves the session's token for the account it belongs to.
LEMMA SetOwned ==
    ASSUME WebInv, TabOwned, NEW s, SetSession(s), OwnToken(active, s.token)
    PROVE  TabOwned'
  <1>1. active' = active /\ sess' = s
    BY Zenon DEF SetSession
  <1>2. CASE saved' = saved
    BY Zenon, <1>1, <1>2 DEF TabOwned
  <1>3. CASE active \in listed /\ saved' = [saved EXCEPT ![active] = s.token]
    <2>1. \A a \in Accounts : saved'[a] = IF a = active THEN s.token ELSE saved[a]
      BY Zenon, <1>3 DEF WebInv, TabOK
    <2> QED
      BY Zenon, <1>1, <2>1 DEF TabOwned
  <1> QED
    BY Zenon, <1>2, <1>3 DEF SetSession, Sync

\* An empty session is anyone's.
LEMMA NoSessionOwned == \A a : OwnToken(a, NoSession.token)
  BY DEF OwnToken, NoSession

\* Removing an account shows another one with its own token.
LEMMA RemoveOwned ==
    ASSUME WebInv, TabOwned, FlowsOwned, NEW f \in Flows, NEW a, NEW prev, RemoveAccount(f, a, prev)
    PROVE  TabOwned' /\ FlowsOwned'
  <1>1. CASE active' = NoAccount /\ sess' = NoSession /\ End(f) /\ UNCHANGED saved
    BY Zenon, <1>1, EndOwned, NoSessionOwned DEF TabOwned
  <1>2. ASSUME NEW b \in listed \ {a}, ApplyCachedAccount(b, saved[b]),
               Refresh(f, [Idle EXCEPT !.pc = "refresh", !.kind = "switch", !.id = b], saved[b])
        PROVE  TabOwned' /\ FlowsOwned'
    <2> DEFINE n == [Idle EXCEPT !.pc = "refresh", !.kind = "switch", !.id = b]
    <2>1. b \in Accounts /\ saved[b] \in SomeToken
      BY DEF WebInv, TabOK
    <2>2. n \in Flow /\ n.pc = "refresh" /\ n.id = b /\ n.kind = "switch" /\ n.entry = NoToken
      BY Zenon, <2>1 DEF Idle, Flow, SomeToken, SomeAccount
    <2>3. Refresh(f, n, saved[b])
      BY Zenon, <1>2
    <2>4. n.kind # "signin" /\ n.entry = NoToken
      BY <2>2 DEF OwnToken
    <2> HIDE DEF n
    <2>5. FlowsOwned'
      BY Zenon, <2>1, <2>2, <2>3, <2>4, RefreshOwned
    <2> QED
      BY Zenon, <1>2, <2>1, <2>5, ApplyOwned DEF TabOwned
  <1> QED
    BY Zenon, <1>1, <1>2 DEF RemoveAccount

\* A failed switch shows an account with its own token.
LEMMA RestoreOwned ==
    ASSUME WebInv, TabOwned, FlowsOwned, NEW f \in Flows, flow[f].kind # "page", RestorePrevious(f)
    PROVE  TabOwned' /\ FlowsOwned'
  <1>1. flow[f].id \in Accounts /\ listed \subseteq Accounts
    BY Zenon DEF WebInv, FlowsOK, FlowOK, TabOK
  <1>2. OwnToken(flow[f].id, saved[flow[f].id]) /\ flow[f].entry = NoToken
    BY Zenon, <1>1 DEF TabOwned, FlowsOwned
  <1>3. flow[f].prev \in listed => OwnToken(flow[f].prev, saved[flow[f].prev])
    BY Zenon, <1>1 DEF TabOwned
  <1>4. \E a, t : ApplyCachedAccount(a, t) /\ OwnToken(a, t)
    BY Zenon, <1>2, <1>3 DEF RestorePrevious
  <1> QED
    BY Zenon, <1>4, ApplyOwned, EndOwned DEF RestorePrevious

\* Asking for the identity changes no token.
LEMMA LoadOwned ==
    ASSUME WebInv, TabOwned, FlowsOwned, NEW f \in Flows, flow[f].kind # "signin", NEW at, LoadIdentity(f, at)
    PROVE  TabOwned' /\ FlowsOwned'
  <1> DEFINE r == [flow[f] EXCEPT !.pc = at, !.as = Owner(sess.token)]
  <1>1. flow' = [flow EXCEPT ![f] = r]
    BY Zenon DEF LoadIdentity, WebInv, FlowsOK
  <1>2. flow[f] \in Flow /\ flow[f].entry = NoToken
    BY Zenon DEF WebInv, FlowsOK, FlowsOwned
  <1>3. r.kind = flow[f].kind /\ r.id = flow[f].id /\ r.entry = flow[f].entry
    BY Zenon, <1>2 DEF Flow
  <1> HIDE DEF r
  <1>4. FlowsOwned'
    BY Zenon, <1>1, <1>2, <1>3, PutOwned
  <1> QED
    BY Zenon, <1>4 DEF LoadIdentity, tab, TabOwned

\* A step that changes neither the tab nor the flows.
LEMMA SessionFrame == SessionInv /\ UNCHANGED <<tab, flow, overlap>> => SessionInv'
  BY DEF tab, SessionInv, OwnTokens, SigningIn, SignInOK

\* "Never let an old account's response overwrite the newly active account": the
\* session takes the new token of the account whose token it had.
LEMMA SessionRefresh ==
    ASSUME WebInv, SessionInv, NEW t \in Tokens, RefreshByToken(t)
    PROVE  SessionInv'
  <1> SUFFICES ASSUME ~overlap' PROVE OwnTokens'
    BY Zenon DEF SessionInv
  <1>1. OwnTokens
    BY Zenon DEF SessionInv, RefreshByToken
  <1>2. ASSUME NEW g \in Flows
        PROVE  /\ flow'[g].kind = flow[g].kind /\ flow'[g].id = flow[g].id
               /\ flow'[g].entry = flow[g].entry /\ flow'[g].as = flow[g].as
               /\ \/ flow'[g].pc = flow[g].pc /\ flow'[g].at = flow[g].at
                  \/ /\ flow[g].pc \in {"refresh", "reactive"}
                     /\ flow'[g].pc = "resume" /\ flow'[g].at = flow[g].pc
    <2> DEFINE r == [flow[g] EXCEPT !.at = flow[g].pc, !.pc = "resume", !.out = net[t], !.token = NoToken]
    <2>1. flow[g] \in Flow
      BY Zenon DEF WebInv, FlowsOK
    <2>2. /\ r.kind = flow[g].kind /\ r.id = flow[g].id /\ r.entry = flow[g].entry /\ r.as = flow[g].as
          /\ r.pc = "resume" /\ r.at = flow[g].pc
      BY Zenon, <2>1 DEF Flow
    <2>3. flow'[g] = flow[g] \/ (flow[g].pc \in {"refresh", "reactive"} /\ flow'[g] = r)
      BY Zenon DEF RefreshByToken
    <2> HIDE DEF r
    <2> QED
      BY Zenon, <2>2, <2>3
  <1>3. /\ active' = active /\ listed' = listed /\ suspended' = suspended
        /\ Owner(sess'.token) = Owner(sess.token) /\ (sess.token = NoToken => sess'.token = NoToken)
        /\ \A a \in Accounts : saved'[a] = saved[a] \/ (~suspended /\ a = active /\ saved'[a] = sess'.token)
    <2>1. CASE UNCHANGED tab
      BY Zenon, <2>1 DEF tab
    <2>2. CASE Applies(t) /\ SetSession([sess EXCEPT !.token = <<Owner(t), t[2] + 1>>])
      <3> DEFINE s == [sess EXCEPT !.token = <<Owner(t), t[2] + 1>>]
      <3>1. s.token = <<Owner(t), t[2] + 1>> /\ Owner(s.token) = Owner(t) /\ sess.token = t
        BY Zenon, <2>2, OwnerOfPair DEF WebInv, TabOK, Applies
      <3>2. SetSession(s)
        BY Zenon, <2>2
      <3> HIDE DEF s
      <3>3. /\ sess' = s /\ UNCHANGED <<active, listed, suspended>>
            /\ \/ saved' = saved
               \/ ~suspended /\ active \in listed /\ saved' = [saved EXCEPT ![active] = s.token]
        BY Zenon, <3>2 DEF SetSession, Sync
      <3>4. \A a \in Accounts : saved'[a] = saved[a] \/ (~suspended /\ a = active /\ saved'[a] = s.token)
        BY Zenon, <3>3 DEF WebInv, TabOK
      <3> QED
        BY Zenon, <3>1, <3>3, <3>4, TokenFacts
    <2> QED
      BY Zenon, <2>1, <2>2 DEF RefreshByToken
  <1>4. ASSUME NEW f \in Flows PROVE SignInOK(f)'
    <2> SUFFICES ASSUME flow'[f].kind = "signin"
                 PROVE  /\ suspended'
                        /\ flow'[f].pc \in {"me", "reactive", "resume", "retry"}
                        /\ flow'[f].pc = "resume" => flow'[f].at = "reactive"
                        /\ flow'[f].as = flow'[f].id
                        /\ Owner(sess'.token) = flow'[f].id
                        /\ \A g \in Flows \ {f} : flow'[g].pc = "idle"
      BY Zenon DEF SignInOK
    <2>1. /\ suspended /\ flow[f].pc \in {"me", "reactive", "resume", "retry"}
          /\ flow[f].pc = "resume" => flow[f].at = "reactive"
          /\ flow[f].as = flow[f].id /\ Owner(sess.token) = flow[f].id
          /\ \A g \in Flows \ {f} : flow[g].pc = "idle"
      BY ZenonT(40), <1>1, <1>2 DEF OwnTokens, SignInOK
    <2>2. \A g \in Flows \ {f} : flow'[g].pc = "idle"
      BY <1>2, <2>1
    <2>3. /\ flow'[f].pc \in {"me", "reactive", "resume", "retry"}
          /\ flow'[f].pc = "resume" => flow'[f].at = "reactive"
      BY <1>2, <2>1
    <2> QED
      BY Zenon, <1>2, <1>3, <2>1, <2>2, <2>3
  <1>5. SigningIn' <=> SigningIn
    BY Zenon, <1>2 DEF SigningIn
  <1>6. OwnToken(active, sess.token) => OwnToken(active', sess'.token)
    BY Zenon, <1>3 DEF OwnToken
  <1>7. ~suspended => OwnToken(active, sess.token)
    BY Zenon, <1>1 DEF OwnTokens, SigningIn, SignInOK
  <1>8. \A a \in Accounts : OwnToken(a, saved'[a])
    BY Zenon, <1>1, <1>3, <1>6, <1>7 DEF OwnTokens
  <1>9. \A f \in Flows : flow'[f].entry = NoToken
    BY Zenon, <1>1, <1>2 DEF OwnTokens
  <1> QED
    BY Zenon, <1>1, <1>4, <1>5, <1>6, <1>8, <1>9 DEF OwnTokens

\* The flows that start show an account with its own token, or none.
LEMMA SessionStart ==
    ASSUME WebInv, SessionInv, NEW f \in Flows, NEW a \in Accounts,
           SwitchTo(f, a) \/ SignOutAccount(f, a) \/ PageCall(f) \/ SignOutAll(f)
    PROVE  SessionInv'
  <1> SUFFICES ASSUME ~overlap' PROVE OwnTokens'
    BY Zenon DEF SessionInv
  <1>1. TabOwned /\ FlowsOwned
    BY Zenon, QuietStart DEF SwitchTo, SignOutAccount, PageCall, SignOutAll, Begin
  <1>2. saved[a] \in SomeToken /\ active \in SomeAccount /\ sess.token \in SomeToken
    BY DEF WebInv, TabOK
  <1>3. CASE SwitchTo(f, a)
    <2> DEFINE n == [Idle EXCEPT !.pc = "refresh", !.kind = "switch", !.id = a, !.prev = active]
    <2>1. n \in Flow /\ n.pc = "refresh" /\ n.id = a /\ n.kind = "switch" /\ n.entry = NoToken
      BY Zenon, <1>2 DEF Idle, Flow, SomeToken, SomeAccount
    <2>2. n.kind # "signin" /\ n.entry = NoToken
      BY <2>1 DEF OwnToken
    <2>3. Refresh(f, n, saved[a])
      BY Zenon, <1>3 DEF SwitchTo
    <2> HIDE DEF n
    <2>4. FlowsOwned'
      BY Zenon, <1>1, <1>2, <2>1, <2>2, <2>3, RefreshOwned
    <2>5. TabOwned'
      BY Zenon, <1>1, <1>3, ApplyOwned DEF SwitchTo, TabOwned
    <2> QED
      BY Zenon, <2>4, <2>5, QuietStep
  <1>4. CASE PageCall(f)
    <2> DEFINE n == [Idle EXCEPT !.pc = "refresh", !.kind = "page"]
    <2>1. n \in Flow /\ n.pc = "refresh" /\ n.kind = "page" /\ n.entry = NoToken
      BY Zenon, <1>2 DEF Idle, Flow, SomeToken, SomeAccount
    <2>2. n.kind # "signin" /\ n.entry = NoToken
      BY <2>1 DEF OwnToken
    <2>3. Refresh(f, n, sess.token)
      BY Zenon, <1>4 DEF PageCall
    <2> HIDE DEF n
    <2>4. FlowsOwned'
      BY Zenon, <1>1, <1>2, <2>1, <2>2, <2>3, RefreshOwned
    <2>5. TabOwned'
      BY Zenon, <1>1, <1>4 DEF PageCall, tab, TabOwned
    <2> QED
      BY Zenon, <2>4, <2>5, QuietStep
  <1>5. CASE SignOutAccount(f, a)
    <2> DEFINE n == [Idle EXCEPT !.kind = "signout", !.id = a, !.logout = saved[a]]
    <2>1. n \in Flow /\ n.id \in Accounts /\ n.kind = "signout" /\ n.entry = NoToken
      BY Zenon, <1>2 DEF Idle, Flow, SomeToken, SomeAccount
    <2>2. Logout(f, n) /\ UNCHANGED tab
      BY Zenon, <1>5 DEF SignOutAccount, tab
    <2> HIDE DEF n
    <2>3. n.kind # "signin"
      BY <2>1
    <2>4. FlowsOwned'
      BY Zenon, <1>1, <2>1, <2>2, <2>3, SendOwned
    <2>5. TabOwned'
      BY Zenon, <1>1, <2>2 DEF tab, TabOwned
    <2> QED
      BY Zenon, <2>4, <2>5, QuietStep
  <1>6. CASE SignOutAll(f)
    <2>1. PICK b \in listed :
            Logout(f, [Idle EXCEPT !.kind = "signoutall", !.id = b, !.logout = saved[b], !.left = listed \ {b}])
      BY Zenon, <1>6 DEF SignOutAll
    <2> DEFINE n == [Idle EXCEPT !.kind = "signoutall", !.id = b, !.logout = saved[b], !.left = listed \ {b}]
    <2>2. b \in Accounts /\ saved[b] \in SomeToken /\ listed \ {b} \in SUBSET Accounts
      BY DEF WebInv, TabOK
    <2>3. n \in Flow /\ n.id \in Accounts /\ n.kind = "signoutall" /\ n.entry = NoToken
      BY Zenon, <2>2 DEF Idle, Flow, SomeToken, SomeAccount
    <2>4. Logout(f, n) /\ UNCHANGED tab
      BY Zenon, <1>6, <2>1 DEF SignOutAll, tab
    <2> HIDE DEF n
    <2>5. n.kind # "signin"
      BY <2>3
    <2>6. FlowsOwned'
      BY Zenon, <1>1, <2>3, <2>4, <2>5, SendOwned
    <2>7. TabOwned'
      BY Zenon, <1>1, <2>4 DEF tab, TabOwned
    <2> QED
      BY Zenon, <2>6, <2>7, QuietStep
  <1> QED
    BY Zenon, <1>3, <1>4, <1>5, <1>6

\* A sign-in that overlaps no other flow has the session to itself.
LEMMA SessionSignIn ==
    ASSUME WebInv, SessionInv, NEW f \in Flows, NEW a \in Accounts, CompleteSignIn(f, a)
    PROVE  SessionInv'
  <1> SUFFICES ASSUME ~overlap' PROVE OwnTokens'
    BY Zenon DEF SessionInv
  <1>1. TabOwned /\ FlowsOwned /\ Busy = {}
    BY Zenon, QuietStart DEF CompleteSignIn, Begin
  <1>2. \A g \in Flows : flow[g] = Idle
    BY Zenon, <1>1 DEF Busy, WebInv, FlowsOK, FlowOK
  <1> DEFINE r == [Idle EXCEPT !.pc = "me", !.kind = "signin", !.id = a, !.as = a]
  <1>3. r.pc = "me" /\ r.kind = "signin" /\ r.id = a /\ r.as = a /\ r.entry = NoToken
    BY Zenon DEF Idle
  <1>4. flow'[f] = r /\ \A g \in Flows \ {f} : flow'[g] = Idle
    BY Zenon, <1>2 DEF CompleteSignIn, WebInv, FlowsOK
  <1>5. saved' = saved /\ suspended' = TRUE /\ Owner(sess'.token) = a
    BY Zenon, OwnerOfPair DEF CompleteSignIn, WebInv, TabOK
  <1> HIDE DEF r
  <1>6. r.pc # "resume" /\ Idle.kind # "signin"
    BY <1>3, IdleFlow
  <1>7. \A g \in Flows : SignInOK(g)'
    <2>1. SignInOK(f)'
      BY Zenon, <1>3, <1>4, <1>5, <1>6, IdleFlow DEF SignInOK
    <2>2. \A g \in Flows \ {f} : SignInOK(g)'
      BY Zenon, <1>4, <1>6 DEF SignInOK
    <2> QED
      BY Zenon, <2>1, <2>2
  <1>8. \A g \in Flows : flow'[g].entry = NoToken
    BY Zenon, <1>3, <1>4, IdleFlow DEF OwnToken
  <1>9. SigningIn'
    BY Zenon, <1>3, <1>4 DEF SigningIn
  <1> QED
    BY Zenon, <1>1, <1>5, <1>7, <1>8, <1>9 DEF OwnTokens, TabOwned

\* A reload shows an account with its own token, or none.
LEMMA SessionBoot ==
    ASSUME WebInv, SessionInv, NEW f \in Flows, BootRestore(f)
    PROVE  SessionInv'
  <1> SUFFICES ASSUME ~overlap' PROVE OwnTokens'
    BY Zenon DEF SessionInv
  <1>1. TabOwned /\ FlowsOwned
    BY Zenon, QuietStart DEF BootRestore
  <1>2. CASE sess' = NoSession /\ flow' = [g \in Flows |-> Idle] /\ UNCHANGED <<saved, active>>
    <2>1. FlowsOwned'
      <3>1. \A g \in Flows : flow'[g] = Idle
        BY Zenon, <1>2
      <3> QED
        BY <3>1, IdleFlow DEF FlowsOwned, OwnToken
    <2>2. TabOwned'
      BY Zenon, <1>1, <1>2, NoSessionOwned DEF TabOwned
    <2> QED
      BY Zenon, <2>1, <2>2, QuietStep
  <1>3. ASSUME NEW a \in Accounts, ApplyCachedAccount(a, saved[a]),
               flow' = [g \in Flows |->
                 IF g # f THEN Idle
                 ELSE [Idle EXCEPT !.pc = IF saved[a] = NoToken THEN "resume" ELSE "refresh",
                                   !.kind = "boot", !.id = a, !.token = saved[a], !.out = "invalid"]]
        PROVE  OwnTokens'
    <2> DEFINE r == [Idle EXCEPT !.pc = IF saved[a] = NoToken THEN "resume" ELSE "refresh",
                                 !.kind = "boot", !.id = a, !.token = saved[a], !.out = "invalid"]
    <2>1. r.kind = "boot" /\ r.entry = NoToken
      BY Zenon DEF Idle
    <2>2. \A g \in Flows : flow'[g] = IF g # f THEN Idle ELSE r
      BY Zenon, <1>3
    <2> HIDE DEF r
    <2>3. FlowsOwned'
      BY <2>1, <2>2, IdleFlow DEF FlowsOwned, OwnToken
    <2>4. TabOwned'
      BY Zenon, <1>1, <1>3, ApplyOwned DEF TabOwned
    <2> QED
      BY Zenon, <2>3, <2>4, QuietStep
  <1>4. listed \subseteq Accounts
    BY Zenon DEF WebInv, TabOK
  <1>5. CASE \E a \in IF active \in listed THEN {active} ELSE listed :
            /\ ApplyCachedAccount(a, saved[a])
            /\ flow' = [g \in Flows |->
                 IF g # f THEN Idle
                 ELSE [Idle EXCEPT !.pc = IF saved[a] = NoToken THEN "resume" ELSE "refresh",
                                   !.kind = "boot", !.id = a, !.token = saved[a], !.out = "invalid"]]
    BY ZenonT(40), <1>3, <1>4, <1>5
  <1> QED
    BY Zenon, <1>2, <1>5 DEF BootRestore

\* A sign-in that meets no other flow keeps the session to itself as it goes on.
LEMMA SignInGoesOn ==
    ASSUME WebInv, OwnTokens, NEW f \in Flows, flow[f].kind = "signin",
           NEW r, r.kind = "signin", r.id = flow[f].id, r.entry = flow[f].entry, r.as = flow[f].id,
           r.pc \in {"reactive", "resume", "retry"}, r.pc = "resume" => r.at = "reactive",
           flow' = [flow EXCEPT ![f] = r], UNCHANGED tab
    PROVE  OwnTokens'
  <1>1. SignInOK(f)
    BY Zenon DEF OwnTokens
  <1>2. flow'[f] = r /\ \A g \in Flows \ {f} : flow'[g] = flow[g] /\ flow[g] = Idle
    BY Zenon, <1>1 DEF WebInv, FlowsOK, FlowOK, SignInOK
  <1>3. saved' = saved /\ suspended' = suspended /\ sess' = sess
    BY Zenon DEF tab
  <1>4. SignInOK(f)'
    BY Zenon, <1>1, <1>2, <1>3, IdleFlow DEF SignInOK
  <1>5. Idle.kind # "signin"
    BY IdleFlow
  <1>6. \A g \in Flows \ {f} : SignInOK(g)'
    BY Zenon, <1>2, <1>5 DEF SignInOK
  <1>7. \A g \in Flows : flow'[g].entry = NoToken
    BY Zenon, <1>2 DEF OwnTokens
  <1>8. SigningIn'
    BY Zenon, <1>2 DEF SigningIn
  <1>9. \A g \in Flows : SignInOK(g)'
    BY Zenon, <1>4, <1>6
  <1> QED
    BY Zenon, <1>3, <1>7, <1>8, <1>9 DEF OwnTokens

\* The catches show another account, or end a sign-in that has failed.
LEMMA SessionCatch ==
    ASSUME WebInv, SessionInv, NEW f \in Flows, flow[f].pc # "idle",
           CatchUnauthorized(f) \/ CatchTransient(f)
    PROVE  SessionInv'
  <1> SUFFICES ASSUME ~overlap' PROVE OwnTokens'
    BY Zenon DEF SessionInv
  <1>1. /\ flow[f].kind \in {"switch", "boot"} /\ UNCHANGED overlap
        /\ RemoveAccount(f, flow[f].id, flow[f].prev) \/ RestorePrevious(f)
    BY Zenon DEF CatchUnauthorized, CatchTransient
  <1>2. flow[f].kind # "signin" /\ flow[f].kind # "page"
    BY <1>1
  <1>3. TabOwned /\ FlowsOwned
    BY Zenon, <1>1, <1>2, QuietFlow DEF SessionInv
  <1> QED
    BY Zenon, <1>1, <1>2, <1>3, RemoveOwned, RestoreOwned, QuietStep

\* After a refresh, a flow shows another account, or asks who its account is.
LEMMA SessionAfterRefresh ==
    ASSUME WebInv, SessionInv, NEW f \in Flows, AfterRefresh(f)
    PROVE  SessionInv'
  <1> SUFFICES ASSUME ~overlap' PROVE OwnTokens'
    BY Zenon DEF SessionInv
  <1>1. OwnTokens /\ flow[f].pc = "resume" /\ flow[f].at = "refresh"
    BY Zenon DEF SessionInv, AfterRefresh
  <1>2. flow[f].pc # "idle" /\ flow[f].at # "reactive"
    BY <1>1
  <1>3. flow[f].kind # "signin"
    BY Zenon, <1>1, <1>2 DEF OwnTokens, SignInOK
  <1>4. TabOwned /\ FlowsOwned
    BY Zenon, <1>1, <1>2, <1>3, QuietFlow
  <1>5. CASE ClearSession /\ End(f)
    <2>1. TabOwned'
      BY Zenon, <1>4, <1>5, SetOwned, NoSessionOwned DEF ClearSession
    <2> QED
      BY Zenon, <1>4, <1>5, <2>1, EndOwned, QuietStep
  <1>6. CASE UNCHANGED tab /\ End(f)
    <2>1. TabOwned'
      BY Zenon, <1>4, <1>6 DEF tab, TabOwned
    <2> QED
      BY Zenon, <1>4, <1>6, <2>1, EndOwned, QuietStep
  <1>7. CASE LoadIdentity(f, "me")
    BY Zenon, <1>3, <1>4, <1>7, LoadOwned, QuietStep
  <1>8. CASE RemoveAccount(f, flow[f].id, flow[f].prev)
    BY Zenon, <1>4, <1>8, RemoveOwned, QuietStep
  <1>9. CASE flow[f].kind = "switch" /\ RestorePrevious(f)
    <2>1. flow[f].kind # "page"
      BY <1>9
    <2> QED
      BY Zenon, <1>4, <1>9, <2>1, RestoreOwned, QuietStep
  <1>10. CASE (ClearSession \/ UNCHANGED tab) /\ flow' = [flow EXCEPT ![f].pc = "logout"]
    <2> DEFINE r == [flow[f] EXCEPT !.pc = "logout"]
    <2>1. flow[f] \in Flow /\ flow[f].entry = NoToken
      BY Zenon, <1>4 DEF WebInv, FlowsOK, FlowsOwned
    <2>2. r.kind = flow[f].kind /\ r.entry = NoToken
      BY Zenon, <2>1 DEF Flow
    <2>3. flow' = [flow EXCEPT ![f] = r]
      BY Zenon, <1>10
    <2> HIDE DEF r
    <2>4. FlowsOwned'
      BY Zenon, <1>3, <1>4, <2>2, <2>3, PutOwned
    <2>5. TabOwned'
      <3>1. CASE ClearSession
        BY Zenon, <1>4, <3>1, SetOwned, NoSessionOwned DEF ClearSession
      <3>2. CASE UNCHANGED tab
        BY Zenon, <1>4, <3>2 DEF tab, TabOwned
      <3> QED
        BY Zenon, <1>10, <3>1, <3>2
    <2> QED
      BY Zenon, <2>4, <2>5, QuietStep
  <1> QED
    BY ZenonT(30), <1>5, <1>6, <1>7, <1>8, <1>9, <1>10 DEF AfterRefresh

\* The answer of me names the owner of the session's token, and a sign-in
\* records the account with it.
LEMMA SessionIdentity ==
    ASSUME WebInv, SessionInv, NEW f \in Flows, Identity(f)
    PROVE  SessionInv'
  <1> SUFFICES ASSUME ~overlap' PROVE OwnTokens'
    BY Zenon DEF SessionInv
  <1>1. OwnTokens /\ flow[f].pc \in {"me", "retry"}
    BY Zenon DEF SessionInv, Identity
  <1>2. CASE flow[f].kind # "signin"
    <2>1. flow[f].pc # "idle"
      BY <1>1
    <2>2. TabOwned /\ FlowsOwned
      BY Zenon, <1>1, <1>2, <2>1, QuietFlow
    <2>3. [sess EXCEPT !.user = flow[f].as].token = sess.token
      BY Zenon DEF WebInv, TabOK
    <2>4. SetSession([sess EXCEPT !.user = flow[f].as]) /\ End(f)
      BY Zenon, <1>2 DEF Identity
    <2>5. TabOwned'
      <3> DEFINE s == [sess EXCEPT !.user = flow[f].as]
      <3>1. SetSession(s) /\ OwnToken(active, s.token)
        BY Zenon, <2>2, <2>3, <2>4 DEF TabOwned
      <3> HIDE DEF s
      <3> QED
        BY Zenon, <2>2, <3>1, SetOwned
    <2> QED
      BY Zenon, <2>2, <2>4, <2>5, EndOwned, QuietStep
  <1>3. CASE flow[f].kind = "signin"
    <2> DEFINE u == flow[f].as
    <2>1. SignInOK(f) /\ RecordActiveLogin(f, u)
      BY Zenon, <1>1, <1>3 DEF OwnTokens, Identity
    <2>2. flow[f].kind # "page"
      BY <1>3
    <2>3. u \in Accounts /\ Owner(sess.token) = u /\ \A g \in Flows \ {f} : flow[g] = Idle
      BY Zenon, <1>3, <2>1, <2>2 DEF SignInOK, WebInv, FlowsOK, FlowOK
    <2> HIDE DEF u
    <2>4. \A g \in Flows : flow'[g] = Idle
      <3>1. u # Idle.id
        BY Zenon, <2>3, IdleFlow, TokenFacts
      <3> QED
        BY Zenon, <2>1, <2>3, <3>1 DEF RecordActiveLogin
    <2>5. active' = u /\ sess'.token = sess.token /\ \A a \in Accounts : saved'[a] = IF a = u THEN sess.token ELSE saved[a]
      BY Zenon, <2>1, <2>3 DEF RecordActiveLogin, WebInv, TabOK
    <2>6. TabOwned'
      BY Zenon, <1>1, <2>3, <2>5 DEF TabOwned, OwnToken, OwnTokens
    <2>7. Idle.kind # "signin" /\ Idle.entry = NoToken
      BY IdleFlow DEF OwnToken
    <2>8. FlowsOwned'
      BY <2>4, <2>7 DEF FlowsOwned
    <2> QED
      BY Zenon, <2>6, <2>8, QuietStep
  <1> QED
    BY Zenon, <1>2, <1>3

\* A refused identity is asked for again, after a refresh of the session.
LEMMA SessionRefused ==
    ASSUME WebInv, SessionInv, NEW f \in Flows, IdentityRefused(f)
    PROVE  SessionInv'
  <1>1. flow[f].pc # "idle"
    BY DEF IdentityRefused
  <1>2. CASE CatchUnauthorized(f)
    BY Zenon, <1>1, <1>2, SessionCatch
  <1>3. CASE Refresh(f, [flow[f] EXCEPT !.pc = "reactive"], sess.token) /\ UNCHANGED <<tab, overlap>>
    <2> SUFFICES ASSUME ~overlap' PROVE OwnTokens'
      BY Zenon DEF SessionInv
    <2> DEFINE n == [flow[f] EXCEPT !.pc = "reactive"]
    <2>1. OwnTokens /\ flow[f] \in Flow /\ FlowsOK /\ sess.token \in SomeToken
      BY Zenon, <1>3 DEF SessionInv, WebInv, FlowsOK, TabOK
    <2>2. /\ n \in Flow /\ n.pc = "reactive" /\ n.kind = flow[f].kind /\ n.id = flow[f].id
          /\ n.entry = flow[f].entry /\ n.as = flow[f].as
      BY Zenon, <2>1 DEF Flow
    <2>3. n.kind # "page" => n.id \in Accounts
      BY Zenon, <2>2 DEF WebInv, FlowsOK, FlowOK
    <2>4. Refresh(f, n, sess.token)
      BY Zenon, <1>3
    <2> HIDE DEF n
    <2>5. CASE flow[f].kind = "signin"
      <3>1. PICK r \in Flow :
              /\ flow' = [flow EXCEPT ![f] = r]
              /\ (r.pc = "resume" /\ r.at = n.pc) \/ r.pc = n.pc
              /\ r.kind = n.kind /\ r.id = n.id /\ r.entry = n.entry /\ r.as = n.as
        BY <2>1, <2>2, <2>3, <2>4, RefreshFlow
      <3>2. r.pc \in {"reactive", "resume", "retry"} /\ (r.pc = "resume" => r.at = "reactive")
        BY <2>2, <3>1
      <3>3. flow[f].as = flow[f].id
        BY Zenon, <2>1, <2>5 DEF OwnTokens, SignInOK
      <3>4. r.kind = "signin" /\ r.id = flow[f].id /\ r.entry = flow[f].entry /\ r.as = flow[f].id
        BY Zenon, <2>2, <2>5, <3>1, <3>3
      <3> QED
        BY Zenon, <1>3, <2>1, <2>5, <3>1, <3>2, <3>4, SignInGoesOn
    <2>6. CASE flow[f].kind # "signin"
      <3>1. TabOwned /\ FlowsOwned
        BY Zenon, <1>1, <2>1, <2>6, QuietFlow
      <3>2. n.entry = NoToken /\ n.kind # "signin"
        BY Zenon, <2>2, <2>6, <3>1 DEF FlowsOwned
      <3>3. FlowsOwned'
        BY Zenon, <2>1, <2>2, <2>3, <2>4, <3>1, <3>2, RefreshOwned
      <3>4. TabOwned'
        BY Zenon, <1>3, <3>1 DEF tab, TabOwned
      <3> QED
        BY Zenon, <3>3, <3>4, QuietStep
    <2> QED
      BY Zenon, <2>5, <2>6
  <1> QED
    BY Zenon, <1>2, <1>3 DEF IdentityRefused

\* After its reactive refresh, a flow asks again, or is caught.
LEMMA SessionReactive ==
    ASSUME WebInv, SessionInv, NEW f \in Flows, AfterReactive(f)
    PROVE  SessionInv'
  <1>1. flow[f].pc # "idle"
    BY DEF AfterReactive
  <1>2. CASE CatchUnauthorized(f) \/ CatchTransient(f)
    BY Zenon, <1>1, <1>2, SessionCatch
  <1>3. CASE LoadIdentity(f, "retry") /\ UNCHANGED overlap
    <2> SUFFICES ASSUME ~overlap' PROVE OwnTokens'
      BY Zenon DEF SessionInv
    <2>1. OwnTokens /\ flow[f] \in Flow
      BY Zenon, <1>3 DEF SessionInv, WebInv, FlowsOK
    <2>2. CASE flow[f].kind # "signin"
      BY Zenon, <1>1, <1>3, <2>1, <2>2, QuietFlow, LoadOwned, QuietStep
    <2>3. CASE flow[f].kind = "signin"
      <3> DEFINE r == [flow[f] EXCEPT !.pc = "retry", !.as = Owner(sess.token)]
      <3>1. flow' = [flow EXCEPT ![f] = r] /\ UNCHANGED tab
        BY Zenon, <1>3 DEF LoadIdentity, WebInv, FlowsOK
      <3>2. Owner(sess.token) = flow[f].id
        BY Zenon, <2>1, <2>3 DEF OwnTokens, SignInOK
      <3>3. /\ r.kind = "signin" /\ r.id = flow[f].id /\ r.entry = flow[f].entry
            /\ r.as = flow[f].id /\ r.pc = "retry"
        BY Zenon, <2>1, <2>3, <3>2 DEF Flow
      <3> HIDE DEF r
      <3>4. r.pc \in {"reactive", "resume", "retry"} /\ (r.pc = "resume" => r.at = "reactive")
        BY <3>3
      <3> QED
        BY Zenon, <2>1, <2>3, <3>1, <3>3, <3>4, SignInGoesOn
    <2> QED
      BY Zenon, <2>2, <2>3
  <1> QED
    BY Zenon, <1>2, <1>3 DEF AfterReactive

\* A sign-out empties the session, shows another account with its own token, or
\* leaves the session alone.
LEMMA SessionLogout ==
    ASSUME WebInv, SessionInv, NEW f \in Flows, LogoutAnswered(f)
    PROVE  SessionInv'
  <1> SUFFICES ASSUME ~overlap' PROVE OwnTokens'
    BY Zenon DEF SessionInv
  <1>1. OwnTokens /\ flow[f].pc = "logout" /\ flow[f].kind \in {"signout", "signoutall"}
    BY Zenon DEF SessionInv, LogoutAnswered
  <1>2. flow[f].pc # "idle" /\ flow[f].kind # "signin"
    BY <1>1
  <1>3. TabOwned /\ FlowsOwned
    BY Zenon, <1>1, <1>2, QuietFlow
  <1>4. CASE RemoveAccount(f, flow[f].id, NoAccount)
    BY Zenon, <1>3, <1>4, RemoveOwned, QuietStep
  <1>5. CASE End(f) /\ UNCHANGED <<saved, active, sess>>
    <2>1. TabOwned'
      BY Zenon, <1>3, <1>5 DEF TabOwned
    <2> QED
      BY Zenon, <1>3, <1>5, <2>1, EndOwned, QuietStep
  <1>6. CASE End(f) /\ sess' = NoSession /\ UNCHANGED saved
    <2>1. TabOwned'
      BY Zenon, <1>3, <1>6, NoSessionOwned DEF TabOwned
    <2> QED
      BY Zenon, <1>3, <1>6, <2>1, EndOwned, QuietStep
  <1>7. ASSUME UNCHANGED tab, NEW b \in flow[f].left,
               Logout(f, [Idle EXCEPT !.kind = "signoutall", !.id = b, !.logout = saved[b],
                                      !.left = flow[f].left \ {b}])
        PROVE  OwnTokens'
    <2> DEFINE n == [Idle EXCEPT !.kind = "signoutall", !.id = b, !.logout = saved[b],
                                 !.left = flow[f].left \ {b}]
    <2>1. flow[f] \in Flow
      BY Zenon DEF WebInv, FlowsOK
    <2>2. b \in Accounts /\ flow[f].left \ {b} \in SUBSET Accounts
      BY <2>1 DEF Flow
    <2>3. saved[b] \in SomeToken
      BY <2>2 DEF WebInv, TabOK
    <2>4. n \in Flow /\ n.id \in Accounts /\ n.kind = "signoutall" /\ n.entry = NoToken
      BY Zenon, <2>2, <2>3 DEF Idle, Flow, SomeToken, SomeAccount
    <2>5. Logout(f, n)
      BY Zenon, <1>7
    <2> HIDE DEF n
    <2>6. n.kind # "signin"
      BY <2>4
    <2>7. FlowsOwned'
      BY Zenon, <1>3, <2>4, <2>5, <2>6, SendOwned
    <2>8. TabOwned'
      BY Zenon, <1>3, <1>7 DEF tab, TabOwned
    <2> QED
      BY Zenon, <2>7, <2>8, QuietStep
  <1> QED
    BY Zenon, <1>4, <1>5, <1>6, <1>7 DEF LogoutAnswered

\* No session at first.
LEMMA InitSessionInv == Init => SessionInv
  <1> SUFFICES ASSUME Init PROVE TabOwned /\ FlowsOwned
    BY Zenon, QuietTokens DEF SessionInv
  <1>1. \A f \in Flows : flow[f] = Idle
    BY Zenon DEF Init
  <1>2. FlowsOwned
    BY <1>1, IdleFlow DEF FlowsOwned
  <1>3. TabOwned
    BY Zenon, NoSessionOwned DEF Init, TabOwned, OwnToken
  <1> QED
    BY Zenon, <1>2, <1>3

\* Every step keeps it.
LEMMA NextSessionInv == WebInv /\ SessionInv /\ [Next]_vars => SessionInv'
  <1> SUFFICES ASSUME WebInv, SessionInv, [Next]_vars PROVE SessionInv'
    OBVIOUS
  <1>1. CASE UNCHANGED <<tab, flow, overlap>>
    BY Zenon, <1>1, SessionFrame
  <1>2. CASE \E t \in Tokens : RefreshByToken(t)
    BY Zenon, <1>2, SessionRefresh
  <1>3. CASE \E f \in Flows, a \in Accounts : SwitchTo(f, a) \/ SignOutAccount(f, a)
    BY Zenon, <1>3, SessionStart
  <1>4. CASE \E f \in Flows : PageCall(f) \/ SignOutAll(f)
    <2>1. \E a : a \in Accounts
      <3>1. CASE \E f \in Flows : PageCall(f)
        BY Zenon, <3>1, TokenFacts DEF PageCall, WebInv, TabOK, SomeToken
      <3>2. CASE \E f \in Flows : SignOutAll(f)
        BY Zenon, <3>2 DEF SignOutAll, WebInv, TabOK
      <3> QED
        BY Zenon, <1>4, <3>1, <3>2
    <2> QED
      BY Zenon, <1>4, <2>1, SessionStart
  <1>5. CASE \E f \in Flows, a \in Accounts : CompleteSignIn(f, a)
    BY Zenon, <1>5, SessionSignIn
  <1>6. CASE \E f \in Flows : BootRestore(f) \/ AfterRefresh(f) \/ Identity(f) \/ IdentityRefused(f)
    BY Zenon, <1>6, SessionBoot, SessionAfterRefresh, SessionIdentity, SessionRefused
  <1>7. CASE \E f \in Flows : IdentityFails(f)
    <2>1. \A f \in Flows : IdentityFails(f) => flow[f].pc # "idle" /\ CatchTransient(f)
      BY DEF IdentityFails
    <2> QED
      BY Zenon, <1>7, <2>1, SessionCatch
  <1>8. CASE \E f \in Flows : AfterReactive(f) \/ LogoutAnswered(f)
    BY Zenon, <1>8, SessionReactive, SessionLogout
  <1>9. CASE UNCHANGED vars
    BY Zenon, <1>1, <1>9 DEF vars, tab
  <1>10. CASE \/ \E t \in Tokens : ServerRefresh(t) \/ RefreshFails(t)
              \/ \E a \in Accounts : Revoke(a)
    BY Zenon, <1>1, <1>10 DEF ServerRefresh, RefreshFails, Revoke
  <1> QED
    BY ZenonT(30), <1>2, <1>3, <1>4, <1>5, <1>6, <1>7, <1>8, <1>9, <1>10 DEF Next

\* However switches, page requests, sign-outs and reloads overlap, a late refresh
\* response never puts another account's tokens under the active one: for any
\* accounts and any number of flows.
THEOREM SessionFollows == Spec => []SessionFollowsActive
  <1>1. WebInv /\ SessionInv => SessionFollowsActive
    BY Zenon DEF SessionInv, OwnTokens, OwnToken, SigningIn, SessionFollowsActive
  <1> QED
    BY <1>1, InitWebInv, NextWebInv, InitSessionInv, NextSessionInv, PTL DEF Spec

-----------------------------------------------------------------------------
(* The saved tokens.  The argument is about tokens, not about flows: the   *)
(* tab never holds a token newer than the server's, a rotation on its way  *)
(* is of the newest token it holds, and the session, when it takes the     *)
(* rotated token, still has the one that the entry has.                    *)

\* Nothing that the tab holds is newer than the server's last token, as long as it
\* gets hold of no other token and the server issues none.
LEMMA TokensKept ==
    ASSUME TokensOK,
           \A a \in Accounts : srv'[a].gen = srv[a].gen,
           \A t \in Tokens : Holds(t)' => Holds(t),
           \A t \in Tokens : net'[t] = "ok" => net[t] = "ok"
    PROVE  TokensOK'
  <1>1. \A t \in Tokens : srv'[Owner(t)].gen = srv[Owner(t)].gen
    BY Zenon, TokenFacts
  <1>2. ASSUME NEW t \in Tokens, Holds(t)' PROVE t[2] <= srv'[Owner(t)].gen
    BY Zenon, <1>1, <1>2 DEF TokensOK
  <1>3. ASSUME NEW t \in Tokens, net'[t] = "ok"
        PROVE  /\ srv'[Owner(t)].gen = t[2] + 1
               /\ \A u \in Tokens : Holds(u)' /\ Owner(u) = Owner(t) => u[2] <= t[2]
    BY Zenon, <1>1, <1>3 DEF TokensOK
  <1> QED
    BY Zenon, <1>2, <1>3 DEF TokensOK

\* A step of the tab, no sign-in, that leaves the entries alone: the session is
\* kept, emptied, or taken from an entry.
TabStep ==
    /\ saved' = saved /\ listed' \subseteq listed /\ (suspended' => suspended)
    /\ \/ sess'.token = NoToken
       \/ sess' = sess /\ active' = active
       \/ active' \in Accounts /\ sess'.token = saved[active'] /\ sess'.user = active'

\* A flow, no sign-in, that goes on; what it may send is a token the tab holds.
FlowStep(f) ==
    /\ \A g \in Flows \ {f} : flow'[g] = flow[g]
    /\ flow'[f].kind # "signin"
    /\ \A u \in Tokens : \/ net'[u] = net[u]
                         \/ net[u] = "none" /\ net'[u] = "sent" /\ Holds(u) /\ Awaits(f, u)'

SrvStep == \A a \in Accounts : srv'[a].gen = srv[a].gen /\ (srv'[a].alive => srv[a].alive)

\* Such steps keep SavedOK.
LEMMA SavedQuiet ==
    ASSUME WebInv, TabOwned, FlowsOwned, SavedOK, NEW f \in Flows,
           flow[f].pc \notin {"refresh", "reactive"},
           TabStep, FlowStep(f), SrvStep, strayed' = strayed
    PROVE  SavedOK'
  <1>1. \A g \in Flows : flow[g].kind # "signin" /\ flow'[g].kind # "signin"
    <2> TAKE g \in Flows
    <2>1. CASE g = f
      BY Zenon, <2>1 DEF FlowsOwned, FlowStep
    <2>2. CASE g # f
      BY Zenon, <2>2 DEF FlowsOwned, FlowStep
    <2> QED
      BY Zenon, <2>1, <2>2
  <1>2. ~SigningIn /\ ~SigningIn' /\ \A a : ~SignsIn(a)
    BY Zenon, <1>1 DEF SigningIn, SignsIn
  <1>3. TokensOK'
    <2>1. ASSUME NEW t \in Tokens, Holds(t)' PROVE Holds(t)
      <3>1. CASE net'[t] # "none"
        BY Zenon, <3>1 DEF FlowStep, Holds
      <3>2. CASE \E a \in Accounts : t = saved'[a]
        BY Zenon, <3>2 DEF TabStep, Holds
      <3>3. CASE t = sess'.token
        BY Zenon, <3>3, TokenFacts DEF TabStep, Holds
      <3> QED
        BY Zenon, <2>1, <3>1, <3>2, <3>3 DEF Holds
    <2>2. \A t \in Tokens : net'[t] = "ok" => net[t] = "ok"
      <3>1. "sent" # "ok"
        OBVIOUS
      <3> QED
        BY Zenon, <3>1 DEF FlowStep
    <2> QED
      BY Zenon, <2>1, <2>2, TokensKept DEF SavedOK, SrvStep
  <1>4. Awaited'
    <2> SUFFICES ASSUME NEW t \in Tokens, net'[t] # "none" PROVE \E g \in Flows : Awaits(g, t)'
      BY Zenon DEF Awaited
    <2>1. CASE Awaits(f, t)'
      BY Zenon, <2>1
    <2>2. CASE net'[t] = net[t]
      <3>1. PICK g \in Flows : Awaits(g, t)
        BY Zenon, <2>2 DEF SavedOK, Awaited
      <3>2. g # f
        BY Zenon, <3>1 DEF Awaits
      <3> QED
        BY Zenon, <3>1, <3>2 DEF FlowStep, Awaits
    <2> QED
      BY Zenon, <2>1, <2>2 DEF FlowStep
  <1>5. EntriesOK'
    <2> SUFFICES ASSUME NEW a \in listed' \ strayed', srv'[a].alive PROVE Current(saved[a])'
      BY Zenon DEF EntriesOK
    <2>1. a \in listed \ strayed /\ a \in Accounts /\ saved'[a] = saved[a]
      BY Zenon DEF TabStep, WebInv, TabOK
    <2>2. Current(saved[a])
      BY Zenon, <1>2, <2>1 DEF SavedOK, EntriesOK, SrvStep
    <2>3. saved[a] # NoToken /\ saved[a] \in Tokens /\ Owner(saved[a]) = a
      BY Zenon, <2>1, <2>2 DEF Current, Valid, WebInv, TabOK, SomeToken, TabOwned, OwnToken
    <2>4. CASE Valid(saved[a])
      BY Zenon, <2>1, <2>3, <2>4 DEF Valid, Current, SrvStep
    <2>5. CASE net[saved[a]] = "ok"
      <3>1. "ok" # "none"
        OBVIOUS
      <3>2. net'[saved[a]] = "ok"
        BY Zenon, <2>3, <2>5, <3>1 DEF FlowStep
      <3> QED
        BY Zenon, <2>1, <2>3, <3>2 DEF Current
    <2> QED
      BY Zenon, <2>2, <2>4, <2>5 DEF Current
  <1>6. ActiveOK'
    <2>1. ~suspended'
      BY Zenon, <1>2 DEF SavedOK, ActiveOK, TabStep
    <2>2. ASSUME sess'.token # NoToken, active' \in listed' \ strayed'
          PROVE  sess'.user = active' /\ saved'[active'] = sess'.token
      BY Zenon, <1>2, <2>2 DEF SavedOK, ActiveOK, TabStep
    <2> QED
      BY Zenon, <2>1, <2>2 DEF ActiveOK
  <1> QED
    BY Zenon, <1>1, <1>3, <1>4, <1>5, <1>6 DEF SavedOK, SignInLast

\* A refresh of a token the tab holds is such a step of a flow.
LEMMA RefreshSteps ==
    ASSUME WebInv, NEW f \in Flows, NEW n \in Flow, n.pc \in {"refresh", "reactive"},
           n.kind # "page" => n.id \in Accounts, n.kind # "signin", NEW t \in SomeToken, Refresh(f, n, t),
           t = sess.token \/ \E a \in Accounts : t = saved[a]
    PROVE  FlowStep(f)
  <1>1. PICK r \in Flow :
              /\ flow' = [flow EXCEPT ![f] = r] /\ flow'[f] = r
              /\ r.kind = n.kind /\ (t # NoToken => r.pc = n.pc /\ r.token = t)
    <2>1. FlowsOK
      BY Zenon DEF WebInv
    <2>2. CASE t = NoToken
      BY <2>1, <2>2, RefreshFlow
    <2>3. CASE t # NoToken
      <3> DEFINE r == [n EXCEPT !.token = t]
      <3>1. r \in Flow /\ r.kind = n.kind /\ r.pc = n.pc /\ r.token = t
        BY DEF Flow
      <3>2. flow' = [flow EXCEPT ![f] = r] /\ flow'[f] = r
        BY <2>1, <2>3 DEF Refresh, FlowsOK
      <3> HIDE DEF r
      <3> QED
        BY Zenon, <3>1, <3>2
    <2> QED
      BY Zenon, <2>2, <2>3
  <1>2. \A g \in Flows \ {f} : flow'[g] = flow[g]
    BY Zenon, <1>1 DEF WebInv, FlowsOK
  <1>3. flow'[f].kind # "signin" /\ (t # NoToken => Awaits(f, t)')
    BY Zenon, <1>1 DEF Awaits
  <1>4. \A u \in Tokens : net'[u] = net[u] \/ (net[u] = "none" /\ net'[u] = "sent" /\ u = t /\ t # NoToken)
    BY ZenonT(40), RefreshSends DEF WebInv
  <1>5. Holds(t)
    BY Zenon DEF Holds
  <1> QED
    BY Zenon, <1>2, <1>3, <1>4, <1>5 DEF FlowStep

\* A flow that becomes another one and sends nothing.
LEMMA PutSteps ==
    ASSUME WebInv, NEW f \in Flows, NEW r, r.kind # "signin", flow' = [flow EXCEPT ![f] = r], UNCHANGED net
    PROVE  FlowStep(f)
  <1>1. flow'[f] = r /\ \A g \in Flows \ {f} : flow'[g] = flow[g]
    BY Zenon DEF WebInv, FlowsOK
  <1>2. flow'[f].kind # "signin"
    BY Zenon, <1>1
  <1> QED
    BY Zenon, <1>1, <1>2 DEF FlowStep

\* A flow that ends.
LEMMA EndSteps == ASSUME WebInv, NEW f \in Flows, End(f), UNCHANGED net PROVE FlowStep(f)
  <1>1. Idle.kind # "signin"
    BY IdleFlow
  <1> QED
    BY Zenon, <1>1, PutSteps DEF End

\* A flow that logs out.
LEMMA LogoutSteps ==
    ASSUME WebInv, NEW f \in Flows, NEW n \in Flow, n.id \in Accounts, n.kind # "signin", Logout(f, n)
    PROVE  FlowStep(f)
  <1>1. CASE flow' = [flow EXCEPT ![f] = [n EXCEPT !.pc = "logout"]] /\ UNCHANGED net
    <2> DEFINE r == [n EXCEPT !.pc = "logout"]
    <2>1. r.kind = n.kind /\ flow' = [flow EXCEPT ![f] = r]
      BY Zenon, <1>1 DEF Flow
    <2> HIDE DEF r
    <2> QED
      BY Zenon, <1>1, <2>1, PutSteps
  <1>2. CASE Refresh(f, [n EXCEPT !.pc = "refresh"], sess.token)
    <2> DEFINE r == [n EXCEPT !.pc = "refresh"]
    <2>1. r \in Flow /\ r.pc = "refresh" /\ r.id = n.id /\ r.kind = n.kind
      BY Zenon DEF Flow
    <2>2. Refresh(f, r, sess.token) /\ sess.token \in SomeToken
      BY Zenon, <1>2 DEF WebInv, TabOK
    <2> HIDE DEF r
    <2> QED
      BY Zenon, <2>1, <2>2, RefreshSteps
  <1> QED
    BY Zenon, <1>1, <1>2 DEF Logout

\* A flow that asks for the identity.
LEMMA LoadSteps ==
    ASSUME WebInv, NEW f \in Flows, flow[f].kind # "signin", NEW at, LoadIdentity(f, at)
    PROVE  FlowStep(f) /\ TabStep
  <1> DEFINE r == [flow[f] EXCEPT !.pc = at, !.as = Owner(sess.token)]
  <1>1. flow' = [flow EXCEPT ![f] = r] /\ UNCHANGED <<tab, net>>
    BY Zenon DEF LoadIdentity, WebInv, FlowsOK
  <1>2. r.kind = flow[f].kind
    BY Zenon DEF WebInv, FlowsOK, Flow
  <1> HIDE DEF r
  <1> QED
    BY Zenon, <1>1, <1>2, PutSteps DEF TabStep, tab

\* An account that is applied from its entry.
LEMMA ApplySteps ==
    ASSUME NEW a \in Accounts, ApplyCachedAccount(a, saved[a]), listed' \subseteq listed
    PROVE  TabStep
  <1>1. /\ saved' = saved /\ active' = a /\ sess'.token = saved[a] /\ sess'.user = a /\ suspended' = FALSE
    BY DEF ApplyCachedAccount
  <1> QED
    BY Zenon, <1>1 DEF TabStep

\* A session that is cleared, and a tab that is left alone.
LEMMA ClearSteps == ASSUME WebInv, ClearSession \/ UNCHANGED tab PROVE TabStep
  <1>1. CASE ClearSession
    <2>1. NoSession.token = NoToken /\ NoSession.user = NoAccount /\ NoAccount \notin listed
      BY AccountsAssumption DEF NoSession, WebInv, TabOK
    <2> QED
      BY Zenon, <1>1, <2>1 DEF ClearSession, SetSession, Sync, TabStep
  <1>2. CASE UNCHANGED tab
    BY Zenon, <1>2 DEF tab, TabStep
  <1> QED
    BY Zenon, <1>1, <1>2

\* An account that is removed.
LEMMA RemoveSteps ==
    ASSUME WebInv, NEW f \in Flows, NEW a, NEW prev, RemoveAccount(f, a, prev)
    PROVE  TabStep /\ FlowStep(f)
  <1>1. listed' \subseteq listed
    BY Zenon DEF RemoveAccount
  <1>2. CASE sess' = NoSession /\ End(f) /\ UNCHANGED <<saved, suspended, net>>
    <2>1. NoSession.token = NoToken
      BY DEF NoSession
    <2> QED
      BY Zenon, <1>1, <1>2, <2>1, EndSteps DEF TabStep
  <1>3. ASSUME NEW b \in listed \ {a}, ApplyCachedAccount(b, saved[b]),
               Refresh(f, [Idle EXCEPT !.pc = "refresh", !.kind = "switch", !.id = b], saved[b])
        PROVE  TabStep /\ FlowStep(f)
    <2> DEFINE n == [Idle EXCEPT !.pc = "refresh", !.kind = "switch", !.id = b]
    <2>1. b \in Accounts /\ saved[b] \in SomeToken
      BY DEF WebInv, TabOK
    <2>2. n \in Flow /\ n.pc = "refresh" /\ n.id = b /\ n.kind = "switch"
      BY Zenon, <2>1 DEF Idle, Flow, SomeToken, SomeAccount
    <2>3. n.kind # "signin"
      BY <2>2
    <2>4. Refresh(f, n, saved[b])
      BY Zenon, <1>3
    <2> HIDE DEF n
    <2>5. FlowStep(f)
      BY Zenon, <2>1, <2>2, <2>3, <2>4, RefreshSteps
    <2> QED
      BY Zenon, <1>1, <1>3, <2>1, <2>5, ApplySteps
  <1> QED
    BY Zenon, <1>2, <1>3 DEF RemoveAccount

\* A switch that failed.
LEMMA RestoreSteps ==
    ASSUME WebInv, FlowsOwned, NEW f \in Flows, flow[f].kind # "page", RestorePrevious(f)
    PROVE  TabStep /\ FlowStep(f)
  <1>1. flow[f].id \in Accounts /\ listed \subseteq Accounts /\ flow[f].entry = NoToken
    BY Zenon DEF WebInv, FlowsOK, FlowOK, TabOK, FlowsOwned
  <1>2. \E a \in Accounts : ApplyCachedAccount(a, saved[a])
    BY Zenon, <1>1 DEF RestorePrevious
  <1> QED
    BY Zenon, <1>2, ApplySteps, EndSteps DEF RestorePrevious

\* The catch of a flow that is no sign-in.
LEMMA CatchSteps ==
    ASSUME WebInv, FlowsOwned, NEW f \in Flows, CatchUnauthorized(f) \/ CatchTransient(f)
    PROVE  TabStep /\ FlowStep(f)
  <1>1. flow[f].kind # "signin"
    BY Zenon DEF FlowsOwned
  <1>2. CASE RemoveAccount(f, flow[f].id, flow[f].prev)
    BY Zenon, <1>2, RemoveSteps
  <1>3. CASE flow[f].kind \in {"switch", "boot"} /\ RestorePrevious(f)
    <2>1. flow[f].kind # "page"
      BY <1>3
    <2> QED
      BY Zenon, <1>3, <2>1, RestoreSteps
  <1> QED
    BY Zenon, <1>1, <1>2, <1>3 DEF CatchUnauthorized, CatchTransient

\* The flows that a person or a page starts, sign-ins apart.
LEMMA SavedStart ==
    ASSUME WebInv, SessionInv, SavedInv, NEW f \in Flows, NEW a \in Accounts,
           SwitchTo(f, a) \/ SignOutAccount(f, a) \/ PageCall(f) \/ SignOutAll(f)
    PROVE  SavedInv'
  <1> SUFFICES ASSUME ~overlap' PROVE SavedOK'
    BY Zenon DEF SavedInv
  <1>1. \E k : Begin(f, k)
    BY Zenon DEF SwitchTo, SignOutAccount, PageCall, SignOutAll
  <1>2. TabOwned /\ FlowsOwned /\ SavedOK /\ strayed' = strayed /\ flow[f].pc = "idle"
    BY Zenon, <1>1, QuietStart DEF Begin, Overlap, SavedInv
  <1>3. flow[f].pc \notin {"refresh", "reactive"}
    BY <1>2
  <1>4. SrvStep
    BY Zenon DEF SwitchTo, SignOutAccount, PageCall, SignOutAll, SrvStep
  <1>5. saved[a] \in SomeToken /\ active \in SomeAccount /\ sess.token \in SomeToken
    BY DEF WebInv, TabOK
  <1> SUFFICES TabStep /\ FlowStep(f)
    BY Zenon, <1>2, <1>3, <1>4, SavedQuiet
  <1>6. CASE SwitchTo(f, a)
    <2> DEFINE n == [Idle EXCEPT !.pc = "refresh", !.kind = "switch", !.id = a, !.prev = active]
    <2>1. n \in Flow /\ n.pc = "refresh" /\ n.id = a /\ n.kind = "switch"
      BY Zenon, <1>5 DEF Idle, Flow, SomeToken, SomeAccount
    <2>2. n.kind # "signin"
      BY <2>1
    <2>3. Refresh(f, n, saved[a]) /\ ApplyCachedAccount(a, saved[a]) /\ listed' \subseteq listed
      BY Zenon, <1>6 DEF SwitchTo
    <2> HIDE DEF n
    <2> QED
      BY Zenon, <1>5, <2>1, <2>2, <2>3, RefreshSteps, ApplySteps
  <1>7. CASE PageCall(f)
    <2> DEFINE n == [Idle EXCEPT !.pc = "refresh", !.kind = "page"]
    <2>1. n \in Flow /\ n.pc = "refresh" /\ n.kind = "page"
      BY Zenon DEF Idle, Flow, SomeToken, SomeAccount
    <2>2. n.kind # "signin"
      BY <2>1
    <2>3. Refresh(f, n, sess.token) /\ UNCHANGED tab
      BY Zenon, <1>7 DEF PageCall
    <2> HIDE DEF n
    <2> QED
      BY Zenon, <1>5, <2>1, <2>2, <2>3, RefreshSteps, ClearSteps
  <1>8. CASE SignOutAccount(f, a)
    <2> DEFINE n == [Idle EXCEPT !.kind = "signout", !.id = a, !.logout = saved[a]]
    <2>1. n \in Flow /\ n.id = a /\ n.kind = "signout"
      BY Zenon, <1>5 DEF Idle, Flow, SomeToken, SomeAccount
    <2>2. n.kind # "signin"
      BY <2>1
    <2>3. Logout(f, n) /\ UNCHANGED tab
      BY Zenon, <1>8 DEF SignOutAccount
    <2> HIDE DEF n
    <2> QED
      BY Zenon, <2>1, <2>2, <2>3, LogoutSteps, ClearSteps
  <1>9. CASE SignOutAll(f)
    <2>1. PICK b \in listed :
            Logout(f, [Idle EXCEPT !.kind = "signoutall", !.id = b, !.logout = saved[b], !.left = listed \ {b}])
      BY Zenon, <1>9 DEF SignOutAll
    <2> DEFINE n == [Idle EXCEPT !.kind = "signoutall", !.id = b, !.logout = saved[b], !.left = listed \ {b}]
    <2>2. b \in Accounts /\ saved[b] \in SomeToken /\ listed \ {b} \in SUBSET Accounts
      BY DEF WebInv, TabOK
    <2>3. n \in Flow /\ n.id \in Accounts /\ n.kind = "signoutall"
      BY Zenon, <2>2 DEF Idle, Flow, SomeToken, SomeAccount
    <2>4. n.kind # "signin"
      BY <2>3
    <2>5. Logout(f, n) /\ UNCHANGED tab
      BY Zenon, <1>9, <2>1 DEF SignOutAll
    <2> HIDE DEF n
    <2> QED
      BY Zenon, <2>3, <2>4, <2>5, LogoutSteps, ClearSteps
  <1> QED
    BY Zenon, <1>6, <1>7, <1>8, <1>9

\* A flow that is under way, and no sign-in, keeps SavedOK by such steps.
LEMMA SavedGoesOn ==
    ASSUME WebInv, SessionInv, SavedInv, NEW f \in Flows, ~overlap,
           flow[f].pc \in {"resume", "me", "retry", "logout"}, flow[f].kind # "signin",
           SrvStep, strayed' = strayed, FlowsOwned => TabStep /\ FlowStep(f)
    PROVE  SavedOK'
  <1>1. flow[f].pc # "idle" /\ flow[f].pc \notin {"refresh", "reactive"}
    OBVIOUS
  <1>2. TabOwned /\ FlowsOwned
    BY Zenon, <1>1, QuietFlow DEF SessionInv
  <1> QED
    BY Zenon, <1>1, <1>2, SavedQuiet DEF SavedInv

\* What switchTo, bootRestore and call do after their refresh.
LEMMA SavedAfterRefresh ==
    ASSUME WebInv, SessionInv, SavedInv, NEW f \in Flows, AfterRefresh(f)
    PROVE  SavedInv'
  <1> SUFFICES ASSUME ~overlap' PROVE SavedOK'
    BY Zenon DEF SavedInv
  <1>1. ~overlap /\ strayed' = strayed /\ SrvStep /\ flow[f].pc = "resume"
    BY Zenon DEF AfterRefresh, SrvStep
  <1>2. flow[f].pc \in {"resume", "me", "retry", "logout"}
    BY <1>1
  <1>3. flow[f].kind # "signin"
    BY DEF AfterRefresh
  <1> SUFFICES ASSUME FlowsOwned PROVE TabStep /\ FlowStep(f)
    BY Zenon, <1>1, <1>2, <1>3, SavedGoesOn
  <1>4. CASE (ClearSession \/ UNCHANGED tab) /\ End(f) /\ UNCHANGED net
    BY Zenon, <1>4, ClearSteps, EndSteps
  <1>5. CASE (ClearSession \/ UNCHANGED tab) /\ flow' = [flow EXCEPT ![f].pc = "logout"] /\ UNCHANGED net
    <2> DEFINE r == [flow[f] EXCEPT !.pc = "logout"]
    <2>1. flow' = [flow EXCEPT ![f] = r]
      BY Zenon, <1>5 DEF WebInv, FlowsOK
    <2>2. r.kind = flow[f].kind
      BY Zenon DEF WebInv, FlowsOK, Flow
    <2> HIDE DEF r
    <2> QED
      BY Zenon, <1>3, <1>5, <2>1, <2>2, ClearSteps, PutSteps
  <1>6. CASE LoadIdentity(f, "me")
    BY Zenon, <1>3, <1>6, LoadSteps
  <1>7. CASE RemoveAccount(f, flow[f].id, flow[f].prev)
    BY Zenon, <1>7, RemoveSteps
  <1>8. CASE flow[f].kind = "switch" /\ RestorePrevious(f)
    <2>1. flow[f].kind # "page"
      BY <1>8
    <2> QED
      BY Zenon, <1>8, <2>1, RestoreSteps
  <1> QED
    BY ZenonT(30), <1>4, <1>5, <1>6, <1>7, <1>8 DEF AfterRefresh

\* The catches: a sign-in that fails is excepted.
LEMMA SavedCatch ==
    ASSUME WebInv, SessionInv, SavedInv, NEW f \in Flows, flow[f].pc \in {"resume", "me", "retry"},
           CatchUnauthorized(f) \/ CatchTransient(f), UNCHANGED <<srv, strayed>>
    PROVE  SavedInv'
  <1> SUFFICES ASSUME ~overlap' PROVE SavedOK'
    BY Zenon DEF SavedInv
  <1>1. flow[f].kind # "signin" /\ ~overlap
    <2>1. flow[f].kind \in {"switch", "boot"} /\ ~overlap
      BY DEF CatchUnauthorized, CatchTransient
    <2> QED
      BY Zenon, <2>1
  <1>2. SrvStep /\ flow[f].pc \in {"resume", "me", "retry", "logout"}
    BY Zenon DEF SrvStep
  <1> QED
    BY Zenon, <1>1, <1>2, CatchSteps, SavedGoesOn

\* What a sign-out does after its request.
LEMMA SavedLogout ==
    ASSUME WebInv, SessionInv, SavedInv, NEW f \in Flows, LogoutAnswered(f)
    PROVE  SavedInv'
  <1> SUFFICES ASSUME ~overlap' PROVE SavedOK'
    BY Zenon DEF SavedInv
  <1>1. ~overlap /\ strayed' = strayed /\ flow[f].pc = "logout" /\ flow[f].kind \in {"signout", "signoutall"}
    BY Zenon DEF LogoutAnswered
  <1>2. flow[f].pc \in {"resume", "me", "retry", "logout"} /\ flow[f].kind # "signin"
    BY <1>1
  <1>3. SrvStep
    <2>1. ASSUME NEW b \in Accounts, srv' = [srv EXCEPT ![b].alive = FALSE] PROVE SrvStep
      BY <2>1 DEF SrvStep, WebInv, SrvOK
    <2> QED
      BY Zenon, <2>1 DEF LogoutAnswered, SrvStep
  <1> SUFFICES ASSUME FlowsOwned PROVE TabStep /\ FlowStep(f)
    BY Zenon, <1>1, <1>2, <1>3, SavedGoesOn
  <1>4. CASE RemoveAccount(f, flow[f].id, NoAccount)
    BY Zenon, <1>4, RemoveSteps
  <1>5. CASE listed' = listed \ {flow[f].id} /\ End(f) /\ UNCHANGED <<saved, active, sess, suspended, net>>
    BY Zenon, <1>5, EndSteps DEF TabStep
  <1>6. CASE listed' = {} /\ sess' = NoSession /\ End(f) /\ UNCHANGED <<saved, suspended, net>>
    <2>1. NoSession.token = NoToken
      BY DEF NoSession
    <2> QED
      BY Zenon, <1>6, <2>1, EndSteps DEF TabStep
  <1>7. ASSUME UNCHANGED tab, NEW b \in flow[f].left,
               Logout(f, [Idle EXCEPT !.kind = "signoutall", !.id = b, !.logout = saved[b],
                                      !.left = flow[f].left \ {b}])
        PROVE  TabStep /\ FlowStep(f)
    <2> DEFINE n == [Idle EXCEPT !.kind = "signoutall", !.id = b, !.logout = saved[b],
                                 !.left = flow[f].left \ {b}]
    <2>1. flow[f] \in Flow
      BY Zenon DEF WebInv, FlowsOK
    <2>2. b \in Accounts /\ flow[f].left \ {b} \in SUBSET Accounts
      BY <2>1 DEF Flow
    <2>3. saved[b] \in SomeToken
      BY <2>2 DEF WebInv, TabOK
    <2>4. n \in Flow /\ n.id \in Accounts /\ n.kind = "signoutall"
      BY Zenon, <2>2, <2>3 DEF Idle, Flow, SomeToken, SomeAccount
    <2>5. n.kind # "signin"
      BY <2>4
    <2>6. Logout(f, n)
      BY Zenon, <1>7
    <2> HIDE DEF n
    <2> QED
      BY Zenon, <1>7, <2>4, <2>5, <2>6, LogoutSteps, ClearSteps
  <1> QED
    BY ZenonT(30), <1>4, <1>5, <1>6, <1>7 DEF LogoutAnswered

\* The server and the network: a token that the server expects, or that it has
\* rotated, stays so, unless the rotation is lost to the tab.
LEMMA SavedNet ==
    ASSUME WebInv, OwnTokens, SavedOK, UNCHANGED <<tab, flow>>, TokensOK', strayed \subseteq strayed',
           \A t \in Tokens : net'[t] # "none" => net[t] # "none",
           \A a \in Accounts : srv'[a].alive => srv[a].alive,
           \A t \in Tokens : Holds(t) /\ Current(t) /\ srv'[Owner(t)].alive =>
              Current(t)' \/ (Owner(t) \in strayed' /\ net'[t] \in {"invalid", "transient"}),
           \A t \in Tokens : net[t] \in {"invalid", "transient"} => net'[t] \in {"invalid", "transient"}
    PROVE  SavedOK'
  <1>1. /\ listed' = listed /\ saved' = saved /\ active' = active /\ sess' = sess /\ suspended' = suspended
        /\ flow' = flow
    BY Zenon DEF tab
  <1>2. SigningIn' = SigningIn /\ \A a : SignsIn(a)' = SignsIn(a)
    BY Zenon, <1>1 DEF SigningIn, SignsIn
  <1>3. Awaited'
    BY Zenon, <1>1 DEF SavedOK, Awaited, Awaits
  <1>4. EntriesOK'
    <2> SUFFICES ASSUME NEW a \in listed' \ strayed', srv'[a].alive PROVE Current(saved[a])' \/ SignsIn(a)'
      BY Zenon DEF EntriesOK
    <2>1. a \in listed \ strayed /\ a \in Accounts /\ srv[a].alive
      BY Zenon, <1>1 DEF WebInv, TabOK
    <2>2. CASE Current(saved[a])
      <3>1. saved[a] \in Tokens /\ Owner(saved[a]) = a
        BY Zenon, <2>1, <2>2 DEF Current, Valid, WebInv, TabOK, SomeToken, OwnTokens, OwnToken
      <3>2. Holds(saved[a])
        BY Zenon, <2>1 DEF Holds
      <3> QED
        BY Zenon, <1>1, <2>2, <3>1, <3>2 DEF Current, Valid
    <2> QED
      BY Zenon, <1>2, <2>1, <2>2 DEF SavedOK, EntriesOK
  <1>5. ActiveOK'
    BY Zenon, <1>1, <1>2 DEF SavedOK, ActiveOK
  <1>6. ASSUME NEW f \in Flows PROVE SignInLast(f)'
    <2> SUFFICES ASSUME flow[f].kind = "signin"
                 PROVE  /\ flow[f].pc # "resume" => flow[f].out = "ok"
                        /\ flow[f].pc = "reactive" => flow[f].token = sess.token
                        /\ Fails(f)' \/ (srv'[flow[f].id].alive => Current(sess.token)')
      BY Zenon, <1>1 DEF SignInLast
    <2>1. SignInLast(f) /\ SignInOK(f) /\ flow[f].id \in Accounts
      <3>1. flow[f].kind # "page"
        OBVIOUS
      <3> QED
        BY Zenon, <3>1 DEF SavedOK, OwnTokens, WebInv, FlowsOK, FlowOK
    <2>2. sess.token \in Tokens /\ Owner(sess.token) = flow[f].id
      BY Zenon, <2>1, TokenFacts DEF SignInOK, WebInv, TabOK, SomeToken
    <2>3. CASE Fails(f)
      <3>1. Fails(f)'
        BY Zenon, <1>1, <2>1, <2>2, <2>3 DEF Fails, SignInLast
      <3> QED
        BY Zenon, <2>1, <3>1 DEF SignInLast
    <2>4. CASE srv'[flow[f].id].alive /\ Current(sess.token)
      <3>1. Holds(sess.token)
        BY Zenon DEF Holds
      <3>2. Current(sess.token)' \/ net'[sess.token] \in {"invalid", "transient"}
        BY Zenon, <1>1, <2>2, <2>4, <3>1 DEF Current, Valid
      <3>3. CASE net'[sess.token] \in {"invalid", "transient"}
        <4>1. net'[sess.token] # "none"
          BY <3>3
        <4>2. PICK g \in Flows : Awaits(g, sess.token)
          BY Zenon, <2>2, <4>1 DEF SavedOK, Awaited
        <4>3. g = f
          BY Zenon, <2>1, <4>2 DEF SignInOK, Awaits
        <4>4. flow[f].pc = "reactive" /\ flow[f].token = sess.token
          BY Zenon, <2>1, <4>2, <4>3 DEF SignInOK, Awaits
        <4> QED
          BY Zenon, <1>1, <2>1, <3>3, <4>4 DEF Fails, SignInLast
      <3> QED
        BY Zenon, <2>1, <3>2, <3>3 DEF SignInLast
    <2> QED
      BY Zenon, <2>1, <2>3, <2>4 DEF SignInLast
  <1> QED
    BY Zenon, <1>3, <1>4, <1>5, <1>6 DEF SavedOK

\* A token that is known by its owner and its generation.
LEMMA SameToken == \A t, u \in Tokens : Owner(t) = Owner(u) /\ t[2] = u[2] => t = u
  BY Zenon, TokenFacts

\* Generations are numbers.
LEMMA TokenGen == \A t \in Tokens : t[2] \in Nat
  BY WebBoundsAssumption DEF Tokens

\* A rotation, and a refusal.
LEMMA SavedServer ==
    ASSUME WebInv, SessionInv, SavedInv, NEW t \in Tokens, ServerRefresh(t)
    PROVE  SavedInv'
  <1> SUFFICES ASSUME ~overlap' PROVE SavedOK'
    BY Zenon DEF SavedInv
  <1>1. OwnTokens /\ SavedOK /\ TokensOK /\ UNCHANGED <<tab, flow>> /\ net[t] = "sent"
    BY Zenon DEF ServerRefresh, SessionInv, SavedInv, SavedOK
  <1>2. saved' = saved /\ sess' = sess
    BY Zenon, <1>1 DEF tab
  <1>3. Holds(t) /\ net[t] # "none" /\ net[t] # "ok" /\ net[t] \notin {"invalid", "transient"}
    BY <1>1 DEF Holds
  <1>4. PICK o \in {"ok", "invalid"} : net' = [net EXCEPT ![t] = o]
    BY Zenon DEF ServerRefresh
  <1>5. net'[t] = o /\ \A u \in Tokens \ {t} : net'[u] = net[u]
    BY <1>4 DEF WebInv, NetOK
  <1>6. \A u \in Tokens : Holds(u)' => Holds(u)
    BY Zenon, <1>2, <1>3, <1>5 DEF Holds
  <1>7. \A u \in Tokens : net'[u] # "none" => net[u] # "none"
    BY Zenon, <1>3, <1>5
  <1>8. \A u \in Tokens : net[u] \in {"invalid", "transient"} => net'[u] \in {"invalid", "transient"}
    BY Zenon, <1>3, <1>5
  <1>9. CASE UNCHANGED <<srv, strayed>> /\ o = "invalid"
    <2>1. \A u \in Tokens : net'[u] = "ok" => net[u] = "ok"
      BY <1>5, <1>9
    <2>2. TokensOK'
      BY Zenon, <1>1, <1>6, <1>9, <2>1, TokensKept
    <2>3. \A u \in Tokens : Current(u) => Current(u)'
      BY Zenon, <1>3, <1>5, <1>9 DEF Current, Valid
    <2> QED
      BY Zenon, <1>1, <1>7, <1>8, <1>9, <2>2, <2>3, SavedNet
  <1>10. CASE /\ Valid(t) /\ srv' = [srv EXCEPT ![Owner(t)].gen = t[2] + 1]
              /\ \/ o = "ok" /\ UNCHANGED strayed
                 \/ o = "invalid" /\ strayed' = strayed \cup {Owner(t)}
    <2>1. Owner(t) \in Accounts /\ t[2] \in Nat /\ srv[Owner(t)].gen = t[2] /\ srv[Owner(t)].alive
      BY Zenon, <1>10, TokenFacts, TokenGen DEF Valid
    <2>2. /\ srv'[Owner(t)].gen = t[2] + 1 /\ srv'[Owner(t)].alive = srv[Owner(t)].alive
          /\ \A a \in Accounts \ {Owner(t)} : srv'[a] = srv[a]
      BY Zenon, <1>10, <2>1 DEF WebInv, SrvOK
    <2>3. ASSUME NEW u \in Tokens, Owner(u) = Owner(t) PROVE net[u] # "ok"
      <3>1. SUFFICES ASSUME net[u] = "ok" PROVE FALSE
        OBVIOUS
      <3>2. srv[Owner(t)].gen = u[2] + 1 /\ t[2] <= u[2] /\ u[2] \in Nat
        BY Zenon, <1>1, <1>3, <2>3, <3>1, TokenGen DEF TokensOK
      <3> QED
        BY <2>1, <3>2
    <2>4. TokensOK'
      <3>1. ASSUME NEW u \in Tokens, Holds(u)' PROVE u[2] <= srv'[Owner(u)].gen
        <4>1. u[2] <= srv[Owner(u)].gen /\ Owner(u) \in Accounts /\ u[2] \in Nat
          BY Zenon, <1>1, <1>6, <3>1, TokenFacts, TokenGen DEF TokensOK
        <4>2. CASE Owner(u) = Owner(t)
          BY <2>1, <2>2, <4>1, <4>2
        <4>3. CASE Owner(u) # Owner(t)
          BY Zenon, <2>2, <4>1, <4>3
        <4> QED
          BY Zenon, <4>2, <4>3
      <3>2. ASSUME NEW v \in Tokens, net'[v] = "ok"
            PROVE  /\ srv'[Owner(v)].gen = v[2] + 1
                   /\ \A u \in Tokens : Holds(u)' /\ Owner(u) = Owner(v) => u[2] <= v[2]
        <4>1. CASE v = t
          <5>1. ASSUME NEW u \in Tokens, Holds(u)', Owner(u) = Owner(t) PROVE u[2] <= t[2]
            BY Zenon, <1>1, <1>6, <2>1, <5>1 DEF TokensOK
          <5> QED
            BY Zenon, <2>2, <4>1, <5>1
        <4>2. CASE v # t
          <5>1. net[v] = "ok" /\ Owner(v) # Owner(t) /\ Owner(v) \in Accounts
            BY Zenon, <1>5, <2>3, <3>2, <4>2, TokenFacts
          <5>2. srv'[Owner(v)] = srv[Owner(v)]
            BY Zenon, <2>2, <5>1
          <5> QED
            BY Zenon, <1>1, <1>6, <5>1, <5>2 DEF TokensOK
        <4> QED
          BY Zenon, <4>1, <4>2
      <3> QED
        BY Zenon, <3>1, <3>2 DEF TokensOK
    <2>5. ASSUME NEW u \in Tokens, Current(u)
          PROVE  Current(u)' \/ (Owner(u) \in strayed' /\ net'[u] \in {"invalid", "transient"})
      <3>1. u # NoToken /\ Owner(u) \in Accounts
        BY Zenon, TokenFacts
      <3>2. CASE u = t
        BY Zenon, <1>5, <1>10, <3>1, <3>2 DEF Current
      <3>3. CASE u # t
        <4>1. Owner(u) # Owner(t)
          BY Zenon, <2>1, <2>3, <2>5, <3>3, SameToken DEF Current, Valid
        <4>2. srv'[Owner(u)] = srv[Owner(u)] /\ net'[u] = net[u]
          BY Zenon, <1>5, <2>2, <3>1, <3>3, <4>1
        <4> QED
          BY Zenon, <2>5, <4>2 DEF Current, Valid
      <3> QED
        BY Zenon, <3>2, <3>3
    <2>6. \A a \in Accounts : srv'[a].alive => srv[a].alive
      BY Zenon, <2>2
    <2>7. strayed \subseteq strayed'
      BY Zenon, <1>10
    <2> QED
      BY Zenon, <1>1, <1>7, <1>8, <2>4, <2>5, <2>6, <2>7, SavedNet
  <1> QED
    <2>1. "ok" # "invalid" /\ \A x : [net EXCEPT ![t] = x][t] = x
      BY DEF WebInv, NetOK
    <2> QED
      BY Zenon, <1>4, <1>9, <1>10, <2>1 DEF ServerRefresh

\* A lost response, and a session that ends.
LEMMA SavedLost ==
    ASSUME WebInv, SessionInv, SavedInv,
           (\E t \in Tokens : RefreshFails(t)) \/ (\E a \in Accounts : Revoke(a))
    PROVE  SavedInv'
  <1> SUFFICES ASSUME ~overlap' PROVE SavedOK'
    BY Zenon DEF SavedInv
  <1>1. OwnTokens /\ SavedOK /\ TokensOK /\ UNCHANGED <<tab, flow>>
    BY Zenon DEF RefreshFails, Revoke, SessionInv, SavedInv, SavedOK
  <1>2. saved' = saved /\ sess' = sess
    BY Zenon, <1>1 DEF tab
  <1>3. ASSUME NEW t \in Tokens, RefreshFails(t) PROVE SavedOK'
    <2>1. net'[t] = "transient" /\ \A u \in Tokens \ {t} : net'[u] = net[u]
      BY <1>3 DEF RefreshFails, WebInv, NetOK
    <2>2. /\ net[t] # "none" /\ net'[t] # "ok" /\ net'[t] \in {"invalid", "transient"} /\ srv' = srv
          /\ strayed \subseteq strayed' /\ (net[t] = "ok" => Owner(t) \in strayed')
      BY <1>3, <2>1 DEF RefreshFails
    <2>3. \A u \in Tokens : Holds(u)' => Holds(u)
      BY Zenon, <1>2, <2>1, <2>2 DEF Holds
    <2>4. /\ \A u \in Tokens : net'[u] # "none" => net[u] # "none"
          /\ \A u \in Tokens : net'[u] = "ok" => net[u] = "ok"
          /\ \A u \in Tokens : net[u] \in {"invalid", "transient"} => net'[u] \in {"invalid", "transient"}
      BY Zenon, <2>1, <2>2
    <2>5. TokensOK'
      BY Zenon, <1>1, <2>2, <2>3, <2>4, TokensKept
    <2>6. \A u \in Tokens : Current(u) =>
            Current(u)' \/ (Owner(u) \in strayed' /\ net'[u] \in {"invalid", "transient"})
      BY Zenon, <2>1, <2>2 DEF Current, Valid
    <2> QED
      BY Zenon, <1>1, <2>2, <2>4, <2>5, <2>6, SavedNet
  <1>4. ASSUME NEW a \in Accounts, Revoke(a) PROVE SavedOK'
    <2>1. /\ net' = net /\ strayed' = strayed /\ srv'[a].gen = srv[a].gen /\ ~srv'[a].alive
          /\ \A b \in Accounts \ {a} : srv'[b] = srv[b]
      BY <1>4 DEF Revoke, WebInv, SrvOK
    <2>2. \A b \in Accounts : srv'[b].gen = srv[b].gen /\ (srv'[b].alive => srv'[b] = srv[b])
      BY Zenon, <2>1
    <2>3. \A u \in Tokens : Holds(u)' => Holds(u)
      BY Zenon, <1>2, <2>1 DEF Holds
    <2>4. TokensOK'
      BY Zenon, <1>1, <2>1, <2>2, <2>3, TokensKept
    <2>5. \A u \in Tokens : Current(u) /\ srv'[Owner(u)].alive => Current(u)'
      BY Zenon, <2>1, <2>2, TokenFacts DEF Current, Valid
    <2> QED
      BY Zenon, <1>1, <2>1, <2>2, <2>4, <2>5, SavedNet
  <1> QED
    BY Zenon, <1>3, <1>4

\* The response settles the operation: a rotation that the session does not take
\* is noted, and one that it takes is in the entry as well.
LEMMA SavedSettles ==
    ASSUME WebInv, SessionInv, SavedInv, NEW t \in Tokens, RefreshByToken(t)
    PROVE  SavedInv'
  <1> SUFFICES ASSUME ~overlap' PROVE SavedOK'
    BY Zenon DEF SavedInv
  <1>1. OwnTokens /\ SavedOK /\ TokensOK /\ srv' = srv
    BY Zenon DEF RefreshByToken, SessionInv, SavedInv, SavedOK
  <1>2. net'[t] = "none" /\ \A u \in Tokens \ {t} : net'[u] = net[u]
    BY Zenon DEF RefreshByToken, WebInv, NetOK
  <1>3. ASSUME NEW g \in Flows
        PROVE  /\ flow'[g].kind = flow[g].kind /\ flow'[g].id = flow[g].id
               /\ ~Awaits(g, t) => flow'[g] = flow[g]
               /\ Awaits(g, t) => flow'[g].pc = "resume" /\ flow'[g].out = net[t]
    <2> DEFINE r == [flow[g] EXCEPT !.at = flow[g].pc, !.pc = "resume", !.out = net[t], !.token = NoToken]
    <2>1. r.kind = flow[g].kind /\ r.id = flow[g].id /\ r.pc = "resume" /\ r.out = net[t]
      BY Zenon DEF WebInv, FlowsOK, Flow
    <2>2. flow'[g] = IF Awaits(g, t) THEN r ELSE flow[g]
      BY Zenon DEF RefreshByToken, Awaits
    <2> HIDE DEF r
    <2> QED
      BY Zenon, <2>1, <2>2
  <1>4. (SigningIn' <=> SigningIn) /\ \A a : SignsIn(a)' <=> SignsIn(a)
    BY Zenon, <1>3 DEF SigningIn, SignsIn
  <1>5. Awaited'
    <2> SUFFICES ASSUME NEW u \in Tokens, net'[u] # "none" PROVE \E g \in Flows : Awaits(g, u)'
      BY Zenon DEF Awaited
    <2>1. u # t /\ net[u] # "none"
      BY Zenon, <1>2
    <2>2. PICK g \in Flows : Awaits(g, u)
      BY Zenon, <1>1, <2>1 DEF SavedOK, Awaited
    <2>3. ~Awaits(g, t)
      BY Zenon, <2>1, <2>2 DEF Awaits
    <2> QED
      BY Zenon, <1>3, <2>2, <2>3 DEF Awaits
  <1>6. ASSUME NEW f \in Flows, flow[f].kind = "signin"
        PROVE  /\ SignInOK(f) /\ SignInLast(f) /\ sess.token \in Tokens
               /\ Owner(sess.token) = flow[f].id /\ Awaits(f, t)
    <2>1. flow[f].kind # "page" /\ net[t] # "none"
      BY Zenon, <1>6 DEF RefreshByToken
    <2>2. SignInOK(f) /\ SignInLast(f) /\ flow[f].id \in Accounts
      BY Zenon, <1>1, <1>6, <2>1 DEF SavedOK, OwnTokens, WebInv, FlowsOK, FlowOK
    <2>3. PICK g \in Flows : Awaits(g, t)
      BY Zenon, <1>1, <2>1 DEF SavedOK, Awaited
    <2>4. g = f
      BY Zenon, <1>6, <2>2, <2>3 DEF SignInOK, Awaits
    <2> QED
      BY Zenon, <1>6, <2>2, <2>3, <2>4, TokenFacts DEF SignInOK, WebInv, TabOK, SomeToken
  <1>7. CASE ~Applies(t)
    <2>1. /\ listed' = listed /\ saved' = saved /\ active' = active /\ sess' = sess
          /\ suspended' = suspended /\ strayed \subseteq strayed'
          /\ (net[t] = "ok" => Owner(t) \in strayed' /\ sess.token # t)
      BY Zenon, <1>7 DEF RefreshByToken, tab, Applies
    <2>2. TokensOK'
      <3>1. \A u \in Tokens : Holds(u)' => Holds(u)
        BY Zenon, <1>2, <2>1 DEF Holds
      <3>2. \A u \in Tokens : net'[u] = "ok" => net[u] = "ok"
        <4>1. "none" # "ok"
          OBVIOUS
        <4> QED
          BY Zenon, <1>2, <4>1
      <3> QED
        BY Zenon, <1>1, <3>1, <3>2, TokensKept
    <2>3. EntriesOK'
      <3> SUFFICES ASSUME NEW a \in listed' \ strayed', srv'[a].alive PROVE Current(saved[a])' \/ SignsIn(a)'
        BY Zenon DEF EntriesOK
      <3>1. a \in listed \ strayed /\ a \in Accounts
        BY Zenon, <2>1 DEF WebInv, TabOK
      <3>2. CASE Current(saved[a])
        <4>1. saved[a] \in Tokens /\ Owner(saved[a]) = a /\ saved[a] # NoToken
          BY Zenon, <1>1, <3>1, <3>2 DEF Current, Valid, WebInv, TabOK, SomeToken, OwnTokens, OwnToken
        <4> QED
          BY Zenon, <1>1, <1>2, <2>1, <3>2, <4>1 DEF Current, Valid
      <3> QED
        BY Zenon, <1>1, <1>4, <3>1, <3>2 DEF SavedOK, EntriesOK
    <2>4. ActiveOK'
      BY Zenon, <1>1, <1>4, <2>1 DEF SavedOK, ActiveOK
    <2>5. ASSUME NEW f \in Flows PROVE SignInLast(f)'
      <3> SUFFICES ASSUME flow[f].kind = "signin" PROVE flow'[f].pc = "resume" /\ flow'[f].out # "ok"
        <4>1. "resume" # "reactive"
          OBVIOUS
        <4> QED
          BY Zenon, <1>3, <4>1 DEF SignInLast, Fails
      <3>1. flow[f].token = t /\ flow[f].pc \in {"refresh", "reactive"} /\ flow[f].token = sess.token
        <4>1. flow[f].pc = "reactive" => flow[f].token = sess.token
          BY Zenon, <1>6 DEF SignInLast
        <4>2. flow[f].pc # "refresh"
          BY <1>6 DEF SignInOK
        <4> QED
          BY Zenon, <1>6, <4>1, <4>2 DEF Awaits
      <3> QED
        BY Zenon, <1>3, <1>6, <2>1, <3>1
    <2> QED
      BY Zenon, <1>5, <2>2, <2>3, <2>4, <2>5 DEF SavedOK
  <1>8. CASE Applies(t)
    <2> DEFINE v == <<Owner(t), t[2] + 1>>
               s == [sess EXCEPT !.token = v]
    <2>1. /\ net[t] = "ok" /\ sess.token = t /\ strayed' = strayed /\ SetSession(s)
          /\ t[2] \in Nat /\ srv[Owner(t)].gen = t[2] + 1 /\ Owner(t) \in Accounts
      BY Zenon, <1>1, <1>8, TokenFacts, TokenGen DEF RefreshByToken, Applies, TokensOK
    <2>2. v[2] = t[2] + 1 /\ Owner(v) = Owner(t) /\ s.token = v /\ s.user = sess.user /\ v # NoToken
      <3>1. s.token = v /\ s.user = sess.user
        BY Zenon DEF WebInv, TabOK
      <3>2. v[2] = t[2] + 1 /\ Owner(v) = Owner(t)
        BY Zenon DEF Owner
      <3> QED
        BY Zenon, <2>1, <3>1, <3>2, TokenFacts
    <2> HIDE DEF v, s
    <2>3. /\ sess' = s /\ UNCHANGED <<active, listed, suspended>> /\ saved' = Sync(s)
      BY Zenon, <2>1 DEF SetSession
    <2>4. srv[Owner(v)].alive => Valid(v)'
      BY Zenon, <1>1, <2>1, <2>2 DEF Valid
    <2>5. ~SigningIn => Owner(t) = active
      BY Zenon, <1>1, <2>1, TokenFacts DEF OwnTokens, OwnToken
    <2>6. SigningIn => suspended /\ SignsIn(Owner(t))
      BY Zenon, <1>6, <2>1 DEF SigningIn, SignsIn, SignInOK
    <2>7. \A a \in Accounts : saved'[a] = saved[a] \/ (a = Owner(t) /\ saved'[a] = v)
      <3>1. CASE SigningIn
        BY Zenon, <2>3, <2>6, <3>1 DEF Sync
      <3>2. CASE ~SigningIn
        BY Zenon, <2>2, <2>3, <2>5, <3>2 DEF Sync, WebInv, TabOK
      <3> QED
        BY Zenon, <3>1, <3>2
    <2>8. ~SigningIn /\ active \in listed \ strayed => s.user = active /\ saved'[active] = v
      BY Zenon, <1>1, <2>1, <2>2, <2>3, <2>5, TokenFacts DEF SavedOK, ActiveOK, Sync, WebInv, TabOK
    <2>9. \A u \in Tokens : Holds(u)' => Holds(u) \/ u = v
      BY Zenon, <1>2, <2>2, <2>3, <2>7 DEF Holds
    <2>10. ASSUME NEW x \in Tokens, net'[x] = "ok"
           PROVE  net[x] = "ok" /\ Owner(x) # Owner(t)
      <3>1. x # t /\ net[x] = "ok" /\ x[2] \in Nat
        <4>1. "none" # "ok"
          OBVIOUS
        <4> QED
          BY Zenon, <1>2, <2>10, <4>1, TokenGen
      <3>2. ASSUME Owner(x) = Owner(t) PROVE FALSE
        <4>1. srv[Owner(t)].gen = x[2] + 1
          BY Zenon, <1>1, <3>1, <3>2 DEF TokensOK
        <4>2. x[2] = t[2]
          BY <2>1, <3>1, <4>1
        <4> QED
          BY Zenon, <3>1, <3>2, <4>2, SameToken
      <3> QED
        BY Zenon, <3>1, <3>2
    <2>11. TokensOK'
      <3>1. ASSUME NEW u \in Tokens, Holds(u)' PROVE u[2] <= srv'[Owner(u)].gen
        <4>1. CASE Holds(u)
          BY Zenon, <1>1, <4>1 DEF TokensOK
        <4>2. CASE u = v
          <5>1. srv'[Owner(u)].gen = t[2] + 1 /\ u[2] = t[2] + 1
            BY Zenon, <1>1, <2>1, <2>2, <4>2
          <5> QED
            BY <2>1, <5>1
        <4> QED
          BY Zenon, <2>9, <3>1, <4>1, <4>2
      <3>2. ASSUME NEW x \in Tokens, net'[x] = "ok"
            PROVE  /\ srv'[Owner(x)].gen = x[2] + 1
                   /\ \A u \in Tokens : Holds(u)' /\ Owner(u) = Owner(x) => u[2] <= x[2]
        BY Zenon, <1>1, <2>2, <2>9, <2>10, <3>2 DEF TokensOK
      <3> QED
        BY Zenon, <3>1, <3>2 DEF TokensOK
    <2>12. EntriesOK'
      <3> SUFFICES ASSUME NEW a \in listed' \ strayed', srv'[a].alive PROVE Current(saved[a])' \/ SignsIn(a)'
        BY Zenon DEF EntriesOK
      <3>1. a \in listed \ strayed /\ a \in Accounts /\ srv[a].alive
        BY Zenon, <1>1, <2>1, <2>3 DEF WebInv, TabOK
      <3>2. CASE a = Owner(t)
        <4>1. CASE SigningIn
          BY Zenon, <1>4, <2>6, <3>2, <4>1
        <4>2. CASE ~SigningIn
          <5>1. saved'[a] = v
            BY Zenon, <2>5, <2>8, <3>1, <3>2, <4>2
          <5> QED
            BY Zenon, <2>2, <2>4, <3>1, <3>2, <5>1 DEF Current, Valid
        <4> QED
          BY Zenon, <4>1, <4>2
      <3>3. CASE a # Owner(t) /\ Current(saved[a])
        <4>1. saved[a] \in Tokens /\ Owner(saved[a]) = a /\ saved[a] # NoToken /\ saved'[a] = saved[a]
          BY Zenon, <1>1, <2>7, <3>1, <3>3 DEF Current, Valid, WebInv, TabOK, SomeToken, OwnTokens, OwnToken
        <4>2. net'[saved[a]] = net[saved[a]]
          BY Zenon, <1>2, <3>3, <4>1
        <4> QED
          BY Zenon, <1>1, <3>3, <4>1, <4>2 DEF Current, Valid
      <3> QED
        BY Zenon, <1>1, <1>4, <3>1, <3>2, <3>3 DEF SavedOK, EntriesOK
    <2>13. ActiveOK'
      BY Zenon, <1>1, <1>4, <2>1, <2>2, <2>3, <2>8 DEF SavedOK, ActiveOK
    <2>14. ASSUME NEW f \in Flows PROVE SignInLast(f)'
      <3> SUFFICES ASSUME flow[f].kind = "signin"
                   PROVE  flow'[f].pc = "resume" /\ (srv'[flow'[f].id].alive => Current(sess.token)')
        <4>1. "resume" # "reactive"
          OBVIOUS
        <4> QED
          BY Zenon, <1>3, <4>1 DEF SignInLast
      <3>1. Awaits(f, t) /\ Owner(v) = flow[f].id
        BY Zenon, <1>6, <2>1, <2>2
      <3> QED
        BY Zenon, <1>1, <1>3, <2>2, <2>3, <2>4, <3>1 DEF Current, Valid
    <2> QED
      BY Zenon, <1>5, <2>11, <2>12, <2>13, <2>14 DEF SavedOK
  <1> QED
    BY Zenon, <1>7, <1>8

\* A sign-in that meets no other flow.
LEMMA SignInAlone ==
    ASSUME WebInv, OwnTokens, SavedOK, NEW f \in Flows, flow[f].kind = "signin"
    PROVE  /\ SignInOK(f) /\ SignInLast(f) /\ flow[f].id \in Accounts
           /\ sess.token \in Tokens /\ Owner(sess.token) = flow[f].id
           /\ \A g \in Flows \ {f} : flow[g] = Idle
           /\ flow[f].pc # "reactive" => \A t \in Tokens : net[t] = "none"
  <1>1. flow[f].kind # "page"
    OBVIOUS
  <1>2. SignInOK(f) /\ SignInLast(f) /\ flow[f].id \in Accounts
    BY Zenon, <1>1 DEF SavedOK, OwnTokens, WebInv, FlowsOK, FlowOK
  <1>3. \A g \in Flows \ {f} : flow[g] = Idle
    BY Zenon, <1>2 DEF SignInOK, WebInv, FlowsOK, FlowOK
  <1>4. sess.token \in Tokens /\ Owner(sess.token) = flow[f].id
    BY Zenon, <1>2, TokenFacts DEF SignInOK, WebInv, TabOK, SomeToken
  <1>5. flow[f].pc # "refresh" /\ Idle.pc \notin {"refresh", "reactive"}
    BY <1>2, IdleFlow DEF SignInOK
  <1>6. ASSUME flow[f].pc # "reactive", NEW t \in Tokens PROVE net[t] = "none"
    BY Zenon, <1>3, <1>5, <1>6 DEF SavedOK, Awaited, Awaits
  <1> QED
    BY Zenon, <1>2, <1>3, <1>4, <1>6

\* A sign-in starts when no flow is under way, so that no request is, and its
\* session is the server's last one.
LEMMA SavedSignIn ==
    ASSUME WebInv, SessionInv, SavedInv, NEW f \in Flows, NEW a \in Accounts, CompleteSignIn(f, a)
    PROVE  SavedInv'
  <1> SUFFICES ASSUME ~overlap' PROVE SavedOK'
    BY Zenon DEF SavedInv
  <1>1. TabOwned /\ FlowsOwned /\ Busy = {} /\ ~overlap
    BY Zenon, QuietStart DEF CompleteSignIn, Begin, Overlap
  <1>2. SavedOK /\ TokensOK /\ strayed' = strayed /\ UNCHANGED <<listed, saved, active, net>>
    BY Zenon, <1>1 DEF CompleteSignIn, Begin, SavedInv, SavedOK
  <1>3. \A g \in Flows : flow[g] = Idle
    BY Zenon, <1>1 DEF Busy, WebInv, FlowsOK, FlowOK
  <1>4. \A t \in Tokens : net[t] = "none"
    <2>1. Idle.pc \notin {"refresh", "reactive"}
      BY IdleFlow
    <2> QED
      BY Zenon, <1>2, <1>3, <2>1 DEF SavedOK, Awaited, Awaits
  <1> DEFINE r == [Idle EXCEPT !.pc = "me", !.kind = "signin", !.id = a, !.as = a]
             v == <<a, srv[a].gen + 1>>
  <1>5. r.pc = "me" /\ r.kind = "signin" /\ r.id = a /\ r.out = "ok"
    BY Zenon DEF Idle
  <1>6. flow'[f] = r /\ \A g \in Flows \ {f} : flow'[g] = Idle
    BY Zenon, <1>3 DEF CompleteSignIn, WebInv, FlowsOK
  <1>7. sess'.token = v /\ Owner(v) = a /\ v[2] = srv[a].gen + 1 /\ v # NoToken
    <2>1. sess'.token = v
      BY Zenon DEF CompleteSignIn, WebInv, TabOK
    <2>2. Owner(v) = a /\ v[2] = srv[a].gen + 1
      BY Zenon DEF Owner
    <2> QED
      BY Zenon, <2>1, <2>2, TokenFacts
  <1>8. /\ srv'[a].gen = srv[a].gen + 1 /\ srv'[a].alive /\ srv[a].gen \in Nat
        /\ \A b \in Accounts \ {a} : srv'[b] = srv[b]
    <2>1. srv'[a] = [gen |-> srv[a].gen + 1, alive |-> TRUE] /\ \A b \in Accounts \ {a} : srv'[b] = srv[b]
      BY Zenon DEF CompleteSignIn, WebInv, SrvOK
    <2>2. srv[a].gen \in Nat
      BY WebBoundsAssumption DEF WebInv, SrvOK
    <2> QED
      BY <2>1, <2>2
  <1> HIDE DEF r, v
  <1>9. SignsIn(a)' /\ SigningIn' /\ ~SigningIn /\ \A b : ~SignsIn(b)
    BY Zenon, <1>1, <1>5, <1>6 DEF SignsIn, SigningIn, FlowsOwned
  <1>10. TokensOK'
    <2>1. ASSUME NEW u \in Tokens, Holds(u)' PROVE u[2] <= srv'[Owner(u)].gen
      <3>1. Owner(u) \in Accounts /\ u[2] \in Nat
        BY Zenon, TokenFacts, TokenGen
      <3>2. CASE u = v
        <4>1. u[2] = srv[a].gen + 1 /\ srv'[Owner(u)].gen = srv[a].gen + 1
          BY Zenon, <1>7, <1>8, <3>2
        <4> QED
          BY <1>8, <4>1
      <3>3. CASE Holds(u)
        <4>1. u[2] <= srv[Owner(u)].gen
          BY Zenon, <1>2, <3>3 DEF TokensOK
        <4>2. CASE Owner(u) = a
          BY <1>8, <3>1, <4>1, <4>2
        <4>3. CASE Owner(u) # a
          BY Zenon, <1>8, <3>1, <4>1, <4>3
        <4> QED
          BY Zenon, <4>2, <4>3
      <3> QED
        BY Zenon, <1>2, <1>7, <2>1, <3>2, <3>3 DEF Holds
    <2>2. \A t \in Tokens : net'[t] # "ok"
      BY <1>2, <1>4
    <2> QED
      BY Zenon, <2>1, <2>2 DEF TokensOK
  <1>11. Awaited'
    BY Zenon, <1>2, <1>4 DEF Awaited
  <1>12. EntriesOK'
    <2> SUFFICES ASSUME NEW b \in listed' \ strayed', srv'[b].alive, b # a PROVE Current(saved[b])'
      BY Zenon, <1>9 DEF EntriesOK
    <2>1. b \in listed \ strayed /\ b \in Accounts /\ srv'[b] = srv[b] /\ saved'[b] = saved[b]
      BY Zenon, <1>2, <1>8 DEF WebInv, TabOK
    <2>2. Current(saved[b])
      BY Zenon, <1>2, <1>9, <2>1 DEF SavedOK, EntriesOK
    <2>3. Owner(saved[b]) = b
      BY Zenon, <1>1, <2>1, <2>2 DEF Current, Valid, TabOwned, OwnToken
    <2> QED
      BY Zenon, <1>2, <2>1, <2>2, <2>3 DEF Current, Valid
  <1>13. ActiveOK'
    BY Zenon, <1>9 DEF ActiveOK
  <1>14. ASSUME NEW g \in Flows PROVE SignInLast(g)'
    <2>1. CASE g = f
      <3>1. Valid(sess.token)'
        BY Zenon, <1>7, <1>8 DEF Valid
      <3>2. r.pc # "reactive"
        BY <1>5
      <3> QED
        BY Zenon, <1>5, <1>6, <2>1, <3>1, <3>2 DEF SignInLast, Current
    <2>2. CASE g # f
      <3>1. Idle.kind # "signin"
        BY IdleFlow
      <3> QED
        BY Zenon, <1>6, <2>2, <3>1 DEF SignInLast
    <2> QED
      BY Zenon, <2>1, <2>2
  <1> QED
    BY Zenon, <1>10, <1>11, <1>12, <1>13, <1>14 DEF SavedOK

\* A reload forgets the requests: the accounts whose rotation it forgets, or that
\* the server rotates later, are noted.
LEMMA SavedBoot ==
    ASSUME WebInv, SessionInv, SavedInv, NEW f \in Flows, BootRestore(f)
    PROVE  SavedInv'
  <1> SUFFICES ASSUME ~overlap' PROVE SavedOK'
    BY Zenon DEF SavedInv
  <1>1. TabOwned /\ FlowsOwned /\ ~overlap
    BY Zenon, QuietStart DEF BootRestore, Overlap
  <1>2. SavedOK /\ TokensOK /\ listed' = listed /\ saved' = saved
    BY Zenon, <1>1 DEF BootRestore, ApplyCachedAccount, SavedInv, SavedOK
  <1>3. PICK late \in SUBSET {t \in Tokens : net[t] = "sent" /\ Valid(t) /\ t[2] < MaxGen} :
          /\ srv' = [a \in Accounts |->
               IF \E t \in late : Owner(t) = a THEN [srv[a] EXCEPT !.gen = @ + 1] ELSE srv[a]]
          /\ strayed' = strayed \cup {Owner(t) : t \in late \cup {u \in Tokens : net[u] = "ok"}}
    BY Zenon DEF BootRestore
  <1>4. ASSUME NEW a \in Accounts
        PROVE  /\ srv[a].gen \in Nat /\ srv'[a].gen \in Nat /\ srv[a].gen <= srv'[a].gen
               /\ a \notin strayed' => srv'[a] = srv[a]
    <2>1. srv[a] \in [gen : 0..MaxGen, alive : BOOLEAN]
      BY Zenon DEF WebInv, SrvOK
    <2>2. CASE \E t \in late : Owner(t) = a
      <3>1. srv'[a] = [srv[a] EXCEPT !.gen = srv[a].gen + 1]
        BY Zenon, <1>3, <2>2
      <3>2. a \in strayed'
        BY Zenon, <1>3, <2>2
      <3> QED
        BY <2>1, <3>1, <3>2, WebBoundsAssumption
    <2>3. CASE ~\E t \in late : Owner(t) = a
      <3>1. srv'[a] = srv[a]
        BY Zenon, <1>3, <2>3
      <3> QED
        BY <2>1, <3>1, WebBoundsAssumption
    <2> QED
      BY Zenon, <2>2, <2>3
  <1>5. \A t \in Tokens : net[t] = "ok" => Owner(t) \in strayed'
    BY Zenon, <1>3
  <1> DEFINE
        Rests == \A g \in Flows : flow'[g].kind # "signin"
        Sends == \A t \in Tokens : \/ net'[t] = "none"
                                   \/ /\ net'[t] = "sent" /\ Awaits(f, t)'
                                      /\ \E a \in Accounts : t = saved[a]
        Shows == /\ ~suspended'
                 /\ \/ sess'.token = NoToken
                    \/ active' \in Accounts /\ sess'.token = saved[active'] /\ sess'.user = active'
  <1>6. Rests /\ Sends /\ Shows
    <2>1. CASE /\ sess' = NoSession /\ suspended' = FALSE /\ flow' = [g \in Flows |-> Idle]
               /\ net' = [t \in Tokens |-> "none"]
      <3>1. NoSession.token = NoToken /\ Idle.kind # "signin"
        BY IdleFlow DEF NoSession
      <3> QED
        BY Zenon, <2>1, <3>1
    <2>2. ASSUME NEW a \in Accounts, ApplyCachedAccount(a, saved[a]),
                 flow' = [g \in Flows |->
                   IF g # f THEN Idle
                   ELSE [Idle EXCEPT !.pc = IF saved[a] = NoToken THEN "resume" ELSE "refresh",
                                     !.kind = "boot", !.id = a, !.token = saved[a], !.out = "invalid"]],
                 net' = [t \in Tokens |-> IF t = saved[a] THEN "sent" ELSE "none"]
          PROVE  Rests /\ Sends /\ Shows
      <3> DEFINE r == [Idle EXCEPT !.pc = IF saved[a] = NoToken THEN "resume" ELSE "refresh",
                                   !.kind = "boot", !.id = a, !.token = saved[a], !.out = "invalid"]
      <3>1. r.kind = "boot" /\ r.token = saved[a] /\ (saved[a] # NoToken => r.pc = "refresh")
        BY Zenon DEF Idle
      <3>2. \A g \in Flows : flow'[g] = IF g # f THEN Idle ELSE r
        BY Zenon, <2>2
      <3> HIDE DEF r
      <3>3. Idle.kind # "signin" /\ r.kind # "signin"
        BY <3>1, IdleFlow
      <3>4. saved[a] # NoToken => Awaits(f, saved[a])'
        BY Zenon, <1>2, <3>1, <3>2 DEF Awaits
      <3>5. active' = a /\ sess'.token = saved[a] /\ sess'.user = a /\ suspended' = FALSE
        BY <2>2 DEF ApplyCachedAccount
      <3>6. \A t \in Tokens : net'[t] = IF t = saved[a] THEN "sent" ELSE "none"
        BY Zenon, <2>2
      <3> QED
        BY Zenon, <1>2, <3>2, <3>3, <3>4, <3>5, <3>6, TokenFacts
    <2>3. listed \subseteq Accounts
      BY Zenon DEF WebInv, TabOK
    <2>4. CASE \E a \in IF active \in listed THEN {active} ELSE listed :
            /\ ApplyCachedAccount(a, saved[a])
            /\ flow' = [g \in Flows |->
                 IF g # f THEN Idle
                 ELSE [Idle EXCEPT !.pc = IF saved[a] = NoToken THEN "resume" ELSE "refresh",
                                   !.kind = "boot", !.id = a, !.token = saved[a], !.out = "invalid"]]
            /\ net' = [t \in Tokens |-> IF t = saved[a] THEN "sent" ELSE "none"]
      <3> HIDE DEF Rests, Sends, Shows
      <3>1. PICK a \in IF active \in listed THEN {active} ELSE listed :
              /\ ApplyCachedAccount(a, saved[a])
              /\ flow' = [g \in Flows |->
                   IF g # f THEN Idle
                   ELSE [Idle EXCEPT !.pc = IF saved[a] = NoToken THEN "resume" ELSE "refresh",
                                     !.kind = "boot", !.id = a, !.token = saved[a], !.out = "invalid"]]
              /\ net' = [t \in Tokens |-> IF t = saved[a] THEN "sent" ELSE "none"]
        BY Zenon, <2>4
      <3>2. a \in Accounts
        BY Zenon, <2>3
      <3> QED
        BY Zenon, <2>2, <3>1, <3>2
    <2> HIDE DEF Rests, Sends, Shows
    <2> QED
      BY Zenon, <2>1, <2>4 DEF BootRestore
  <1>7. ~SigningIn /\ ~SigningIn' /\ \A a : ~SignsIn(a)
    BY Zenon, <1>1, <1>6 DEF SigningIn, SignsIn, FlowsOwned
  <1>8. TokensOK'
    <2>1. ASSUME NEW u \in Tokens, Holds(u)' PROVE u[2] <= srv'[Owner(u)].gen
      <3>1. Holds(u)
        BY Zenon, <1>2, <1>6, <2>1, TokenFacts DEF Holds
      <3>2. u[2] <= srv[Owner(u)].gen /\ Owner(u) \in Accounts /\ u[2] \in Nat
        BY Zenon, <1>2, <3>1, TokenFacts, TokenGen DEF TokensOK
      <3>3. /\ srv[Owner(u)].gen \in Nat /\ srv'[Owner(u)].gen \in Nat
            /\ srv[Owner(u)].gen <= srv'[Owner(u)].gen
        BY Zenon, <1>4, <3>2
      <3> QED
        BY <3>2, <3>3
    <2>2. \A t \in Tokens : net'[t] # "ok"
      BY <1>6
    <2> QED
      BY Zenon, <2>1, <2>2 DEF TokensOK
  <1>9. Awaited'
    BY Zenon, <1>6 DEF Awaited
  <1>10. EntriesOK'
    <2> SUFFICES ASSUME NEW a \in listed' \ strayed', srv'[a].alive PROVE Current(saved[a])'
      BY Zenon DEF EntriesOK
    <2>1. a \in listed \ strayed /\ a \in Accounts
      BY Zenon, <1>2, <1>3 DEF WebInv, TabOK
    <2>2. srv'[a] = srv[a]
      BY Zenon, <1>4, <2>1
    <2>3. Current(saved[a])
      BY Zenon, <1>2, <1>7, <2>1, <2>2 DEF SavedOK, EntriesOK
    <2>4. saved[a] \in Tokens /\ Owner(saved[a]) = a
      BY Zenon, <1>1, <2>1, <2>3 DEF Current, Valid, WebInv, TabOK, SomeToken, TabOwned, OwnToken
    <2> QED
      BY Zenon, <1>2, <1>5, <2>1, <2>2, <2>3, <2>4 DEF Current, Valid
  <1>11. ActiveOK'
    BY Zenon, <1>2, <1>6 DEF ActiveOK
  <1>12. \A g \in Flows : SignInLast(g)'
    BY Zenon, <1>6 DEF SignInLast
  <1> QED
    BY Zenon, <1>8, <1>9, <1>10, <1>11, <1>12 DEF SavedOK

\* The identity of a flow that is no sign-in: the listener saves what the entry has
\* already, or the account is noted.
LEMMA SavedIdentity ==
    ASSUME WebInv, SessionInv, SavedInv, NEW f \in Flows, Identity(f), flow[f].kind # "signin"
    PROVE  SavedInv'
  <1> SUFFICES ASSUME ~overlap' PROVE SavedOK'
    BY Zenon DEF SavedInv
  <1>1. flow[f].pc \in {"me", "retry"} /\ OwnTokens /\ SavedOK
    BY Zenon DEF Identity, SessionInv, SavedInv
  <1>2. flow[f].pc # "idle" /\ flow[f].pc \notin {"refresh", "reactive"}
    BY <1>1
  <1>3. TabOwned /\ FlowsOwned
    BY Zenon, <1>1, <1>2, QuietFlow
  <1> DEFINE s == [sess EXCEPT !.user = flow[f].as]
  <1>4. s.token = sess.token /\ s.user = flow[f].as
    BY Zenon DEF WebInv, TabOK
  <1>5. /\ SetSession(s) /\ End(f) /\ srv' = srv /\ net' = net
        /\ strayed' = IF flow[f].as # Owner(sess.token) THEN strayed \cup {active} ELSE strayed
    BY Zenon DEF Identity
  <1> HIDE DEF s
  <1>6. /\ sess' = s /\ UNCHANGED <<active, listed, suspended>>
        /\ \A a \in Accounts : saved'[a] = saved[a] \/ (a = active /\ saved'[a] = sess.token)
    <2>1. sess' = s /\ saved' = Sync(s) /\ UNCHANGED <<active, listed, suspended>>
      BY Zenon, <1>5 DEF SetSession
    <2>2. \A a \in Accounts : saved'[a] = saved[a] \/ (a = active /\ saved'[a] = sess.token)
      BY Zenon, <1>4, <2>1 DEF Sync, WebInv, TabOK
    <2> QED
      BY Zenon, <2>1, <2>2
  <1>7. flow'[f] = Idle /\ \A g \in Flows \ {f} : flow'[g] = flow[g]
    BY Zenon, <1>5 DEF End, WebInv, FlowsOK
  <1>8. \A g \in Flows : flow'[g].kind # "signin"
    <2>1. Idle.kind # "signin"
      BY IdleFlow
    <2> QED
      BY Zenon, <1>3, <1>7, <2>1 DEF FlowsOwned
  <1>9. ~SigningIn /\ ~SigningIn' /\ \A a : ~SignsIn(a)
    BY Zenon, <1>3, <1>8 DEF SigningIn, SignsIn, FlowsOwned
  <1>10. TokensOK'
    <2>1. \A t \in Tokens : Holds(t)' => Holds(t)
      BY Zenon, <1>4, <1>5, <1>6 DEF Holds
    <2> QED
      BY Zenon, <1>1, <1>5, <2>1, TokensKept DEF SavedOK
  <1>11. Awaited'
    <2> SUFFICES ASSUME NEW t \in Tokens, net'[t] # "none" PROVE \E g \in Flows : Awaits(g, t)'
      BY Zenon DEF Awaited
    <2>1. PICK g \in Flows : Awaits(g, t)
      BY Zenon, <1>1, <1>5 DEF SavedOK, Awaited
    <2>2. g # f
      BY Zenon, <1>2, <2>1 DEF Awaits
    <2> QED
      BY Zenon, <1>7, <2>1, <2>2 DEF Awaits
  <1>12. active \in listed \ strayed' /\ sess.token # NoToken =>
            flow[f].as = active /\ saved'[active] = sess.token /\ saved[active] = sess.token
    <2> SUFFICES ASSUME active \in listed \ strayed', sess.token # NoToken
                 PROVE  flow[f].as = active /\ saved'[active] = sess.token /\ saved[active] = sess.token
      OBVIOUS
    <2>1. flow[f].as = Owner(sess.token) /\ active \in listed \ strayed
      BY Zenon, <1>5
    <2>2. Owner(sess.token) = active
      BY Zenon, <1>3 DEF TabOwned, OwnToken
    <2>3. saved[active] = sess.token /\ active \in Accounts
      BY Zenon, <1>1, <1>9, <2>1 DEF SavedOK, ActiveOK, WebInv, TabOK
    <2> QED
      BY Zenon, <1>6, <2>1, <2>2, <2>3
  <1>13. EntriesOK'
    <2> SUFFICES ASSUME NEW a \in listed' \ strayed', srv'[a].alive PROVE Current(saved[a])'
      BY Zenon DEF EntriesOK
    <2>1. a \in listed \ strayed /\ a \in listed \ strayed' /\ a \in Accounts
      BY Zenon, <1>5, <1>6 DEF WebInv, TabOK
    <2>2. Current(saved[a])
      BY Zenon, <1>1, <1>5, <1>9, <2>1 DEF SavedOK, EntriesOK
    <2>3. saved'[a] = saved[a]
      <3>1. CASE a # active
        BY Zenon, <1>6, <2>1, <3>1
      <3>2. CASE a = active
        <4>1. flow[f].as = Owner(sess.token) /\ flow[f].as # NoAccount
          BY Zenon, <1>5, <2>1, <3>2 DEF Identity
        <4>2. sess.token # NoToken
          BY Zenon, <4>1, TokenFacts
        <4> QED
          BY Zenon, <1>12, <2>1, <3>2, <4>2
      <3> QED
        BY Zenon, <3>1, <3>2
    <2> QED
      BY Zenon, <1>5, <2>2, <2>3 DEF Current, Valid
  <1>14. ActiveOK'
    BY Zenon, <1>1, <1>4, <1>6, <1>9, <1>12 DEF SavedOK, ActiveOK
  <1>15. \A g \in Flows : SignInLast(g)'
    BY Zenon, <1>8 DEF SignInLast
  <1> QED
    BY Zenon, <1>10, <1>11, <1>13, <1>14, <1>15 DEF SavedOK

\* The identity of a sign-in: the entry takes the token of the session, which is
\* the server's last one, since no refresh of the sign-in has failed.
LEMMA SavedRecord ==
    ASSUME WebInv, SessionInv, SavedInv, NEW f \in Flows, Identity(f), flow[f].kind = "signin"
    PROVE  SavedInv'
  <1> SUFFICES ASSUME ~overlap' PROVE SavedOK'
    BY Zenon DEF SavedInv
  <1> DEFINE u == flow[f].as
  <1>1. /\ flow[f].pc \in {"me", "retry"} /\ OwnTokens /\ SavedOK /\ TokensOK /\ srv' = srv /\ net' = net
        /\ RecordActiveLogin(f, u) /\ strayed' = strayed \ {u}
    BY Zenon DEF Identity, SessionInv, SavedInv, SavedOK
  <1>2. flow[f].pc # "reactive" /\ flow[f].pc # "resume"
    BY <1>1
  <1>3. /\ SignInLast(f) /\ u \in Accounts /\ flow[f].id = u /\ sess.token \in Tokens /\ Owner(sess.token) = u
        /\ \A g \in Flows \ {f} : flow[g] = Idle
        /\ \A t \in Tokens : net[t] = "none"
    BY Zenon, <1>1, <1>2, SignInAlone DEF SignInOK
  <1> HIDE DEF u
  <1>4. srv[u].alive => Valid(sess.token)
    <2>1. ~Fails(f)
      BY Zenon, <1>2, <1>3 DEF SignInLast, Fails
    <2>2. net[sess.token] # "ok"
      BY <1>3
    <2> QED
      BY Zenon, <1>3, <2>1, <2>2 DEF SignInLast, Current
  <1>5. /\ active' = u /\ sess'.token = sess.token /\ sess'.user = u /\ suspended' = FALSE
        /\ listed' = listed \cup {u}
        /\ saved'[u] = sess.token /\ \A a \in Accounts \ {u} : saved'[a] = saved[a]
    BY Zenon, <1>1, <1>3 DEF RecordActiveLogin, WebInv, TabOK
  <1>6. \A g \in Flows : flow'[g].kind # "signin"
    <2>1. u # Idle.id /\ Idle.kind # "signin"
      BY <1>3, IdleFlow, TokenFacts
    <2>2. \A g \in Flows : flow'[g] = Idle
      BY Zenon, <1>1, <1>3, <2>1 DEF RecordActiveLogin
    <2> QED
      BY Zenon, <2>1, <2>2
  <1>7. TokensOK'
    <2>1. \A t \in Tokens : Holds(t)' => Holds(t)
      BY Zenon, <1>1, <1>5 DEF Holds
    <2> QED
      BY Zenon, <1>1, <2>1, TokensKept
  <1>8. Awaited'
    BY Zenon, <1>1, <1>3 DEF Awaited
  <1>9. EntriesOK'
    <2> SUFFICES ASSUME NEW a \in listed' \ strayed', srv'[a].alive PROVE Current(saved[a])'
      BY Zenon DEF EntriesOK
    <2>1. CASE a = u
      BY Zenon, <1>1, <1>4, <1>5, <2>1 DEF Current, Valid
    <2>2. CASE a # u
      <3>1. a \in listed \ strayed /\ a \in Accounts
        BY Zenon, <1>1, <1>5, <2>2 DEF WebInv, TabOK
      <3>2. ~SignsIn(a)
        <4>1. Idle.kind # "signin"
          BY IdleFlow
        <4> QED
          BY Zenon, <1>3, <2>2, <4>1 DEF SignsIn
      <3>3. Current(saved[a])
        BY Zenon, <1>1, <3>1, <3>2 DEF SavedOK, EntriesOK
      <3> QED
        BY Zenon, <1>1, <1>5, <2>2, <3>1, <3>3 DEF Current, Valid
    <2> QED
      BY Zenon, <2>1, <2>2
  <1>10. ActiveOK'
    BY Zenon, <1>5 DEF ActiveOK
  <1>11. \A g \in Flows : SignInLast(g)'
    BY Zenon, <1>6 DEF SignInLast
  <1> QED
    BY Zenon, <1>7, <1>8, <1>9, <1>10, <1>11 DEF SavedOK

\* A sign-in that goes on, with or without a request, keeps its session.
LEMMA SavedSignInGoesOn ==
    ASSUME WebInv, OwnTokens, SavedOK, NEW f \in Flows, flow[f].kind = "signin",
           NEW r, flow' = [flow EXCEPT ![f] = r], UNCHANGED <<srv, tab, strayed>>,
           r.kind = "signin", r.id = flow[f].id, r.out = "ok", ~Fails(f), flow[f].pc # "reactive",
           \A t \in Tokens : net'[t] = "none" \/ (net'[t] = "sent" /\ t = sess.token /\ Awaits(f, t)'),
           r.pc = "reactive" => r.token = sess.token
    PROVE  SavedOK'
  <1>1. /\ SignInLast(f) /\ flow[f].id \in Accounts /\ sess.token \in Tokens /\ sess.token # NoToken
        /\ Owner(sess.token) = flow[f].id
        /\ \A g \in Flows \ {f} : flow[g] = Idle
        /\ \A t \in Tokens : net[t] = "none"
    BY Zenon, SignInAlone, TokenFacts
  <1>2. flow'[f] = r /\ \A g \in Flows \ {f} : flow'[g] = flow[g]
    BY Zenon DEF WebInv, FlowsOK
  <1>3. listed' = listed /\ saved' = saved /\ active' = active /\ sess' = sess /\ suspended' = suspended
    BY Zenon DEF tab
  <1>4. SigningIn' /\ \A a : SignsIn(a) => SignsIn(a)'
    BY Zenon, <1>2 DEF SigningIn, SignsIn
  <1>5. \A t \in Tokens : net[t] # "ok" /\ net'[t] # "ok" /\ net'[t] \notin {"invalid", "transient"}
    BY <1>1
  <1>6. TokensOK'
    <2>1. \A t \in Tokens : Holds(t)' => Holds(t)
      BY Zenon, <1>3 DEF Holds
    <2> QED
      BY Zenon, <1>5, <2>1, TokensKept DEF SavedOK
  <1>7. Awaited'
    BY Zenon DEF Awaited
  <1>8. EntriesOK'
    <2> SUFFICES ASSUME NEW a \in listed \ strayed, srv[a].alive PROVE Current(saved[a])' \/ SignsIn(a)'
      BY Zenon, <1>3 DEF EntriesOK
    <2>1. CASE Current(saved[a])
      <3>1. saved[a] \in SomeToken
        BY Zenon DEF WebInv, TabOK
      <3>2. Valid(saved[a])
        BY Zenon, <1>5, <2>1, <3>1 DEF Current, SomeToken
      <3> QED
        BY Zenon, <1>3, <3>2 DEF Current, Valid
    <2> QED
      BY Zenon, <1>4, <2>1 DEF SavedOK, EntriesOK
  <1>9. ActiveOK'
    BY Zenon, <1>4 DEF ActiveOK
  <1>10. SignInLast(f)'
    <2>1. srv[flow[f].id].alive => Valid(sess.token)
      BY Zenon, <1>1, <1>5 DEF SignInLast, Current
    <2> QED
      BY Zenon, <1>2, <1>3, <2>1 DEF SignInLast, Current, Valid
  <1>11. \A g \in Flows \ {f} : SignInLast(g)'
    <2>1. Idle.kind # "signin"
      BY IdleFlow
    <2>2. \A g \in Flows \ {f} : flow'[g].kind # "signin"
      BY Zenon, <1>1, <1>2, <2>1
    <2> QED
      BY Zenon, <2>2 DEF SignInLast
  <1> QED
    BY Zenon, <1>6, <1>7, <1>8, <1>9, <1>10, <1>11 DEF SavedOK

\* A refused identity is asked for again, after a refresh of the session.
LEMMA SavedRefused ==
    ASSUME WebInv, SessionInv, SavedInv, NEW f \in Flows, IdentityRefused(f)
    PROVE  SavedInv'
  <1>1. flow[f].pc \in {"me", "retry"} /\ UNCHANGED <<srv, strayed>>
    BY Zenon DEF IdentityRefused
  <1>2. flow[f].pc \in {"resume", "me", "retry"} /\ flow[f].pc # "reactive" /\ flow[f].pc # "resume"
    BY <1>1
  <1>3. CASE CatchUnauthorized(f)
    BY Zenon, <1>1, <1>2, <1>3, SavedCatch
  <1>4. CASE Refresh(f, [flow[f] EXCEPT !.pc = "reactive"], sess.token) /\ UNCHANGED <<tab, overlap>>
    <2> SUFFICES ASSUME ~overlap' PROVE SavedOK'
      BY Zenon DEF SavedInv
    <2> DEFINE n == [flow[f] EXCEPT !.pc = "reactive"]
    <2>1. /\ OwnTokens /\ SavedOK /\ ~overlap /\ flow[f] \in Flow /\ FlowsOK /\ NetOK
          /\ sess.token \in SomeToken
      BY Zenon, <1>4 DEF SessionInv, SavedInv, WebInv, FlowsOK, TabOK
    <2>2. n \in Flow /\ n.pc = "reactive" /\ n.kind = flow[f].kind /\ n.id = flow[f].id /\ n.out = flow[f].out
      BY Zenon, <2>1 DEF Flow
    <2>3. n.kind # "page" => n.id \in Accounts
      BY Zenon, <2>2 DEF WebInv, FlowsOK, FlowOK
    <2>4. Refresh(f, n, sess.token)
      BY Zenon, <1>4
    <2> HIDE DEF n
    <2>5. CASE flow[f].kind # "signin"
      <3>1. FlowStep(f) /\ TabStep
        BY Zenon, <1>4, <2>1, <2>2, <2>3, <2>4, <2>5, RefreshSteps, ClearSteps
      <3>2. SrvStep /\ flow[f].pc \in {"resume", "me", "retry", "logout"}
        BY Zenon, <1>1, <1>2 DEF SrvStep
      <3> QED
        BY Zenon, <1>1, <2>1, <2>5, <3>1, <3>2, SavedGoesOn
    <2>6. CASE flow[f].kind = "signin"
      <3>1. /\ SignInLast(f) /\ sess.token # NoToken /\ \A t \in Tokens : net[t] = "none"
        BY Zenon, <1>2, <2>1, <2>6, SignInAlone, TokenFacts
      <3>2. flow[f].out = "ok" /\ ~Fails(f)
        BY Zenon, <1>2, <2>6, <3>1 DEF SignInLast, Fails
      <3> DEFINE r == [n EXCEPT !.token = sess.token]
      <3>3. r.pc = n.pc /\ r.token = sess.token /\ r.out = n.out /\ r.kind = n.kind /\ r.id = n.id
        BY Zenon, <2>2 DEF Flow
      <3>4. flow' = [flow EXCEPT ![f] = r]
        BY Zenon, <2>4, <3>1 DEF Refresh
      <3> HIDE DEF r
      <3>5. Awaits(f, sess.token)'
        <4>1. flow'[f] = r
          BY Zenon, <2>1, <3>4 DEF FlowsOK
        <4> QED
          BY Zenon, <1>4, <2>2, <3>3, <4>1 DEF Awaits, tab
      <3>6. \A t \in Tokens : net'[t] = "none" \/ (net'[t] = "sent" /\ t = sess.token /\ Awaits(f, t)')
        <4>1. sess' = sess
          BY Zenon, <1>4 DEF tab
        <4>2. \A t \in Tokens : net'[t] = net[t] \/ (net'[t] = "sent" /\ t = sess.token)
          BY Zenon, <2>1, <2>4, RefreshSends
        <4> QED
          BY Zenon, <3>1, <3>5, <4>1, <4>2 DEF Awaits
      <3>7. /\ r.kind = "signin" /\ r.id = flow[f].id /\ r.out = "ok"
            /\ UNCHANGED <<srv, tab, strayed>>
        BY Zenon, <1>1, <1>4, <2>2, <2>6, <3>2, <3>3
      <3> QED
        BY Zenon, <1>2, <2>1, <2>6, <3>2, <3>3, <3>4, <3>6, <3>7, SavedSignInGoesOn
    <2> QED
      BY Zenon, <2>5, <2>6
  <1> QED
    BY Zenon, <1>3, <1>4 DEF IdentityRefused

\* What call does after its reactive refresh.
LEMMA SavedReactive ==
    ASSUME WebInv, SessionInv, SavedInv, NEW f \in Flows, AfterReactive(f)
    PROVE  SavedInv'
  <1>1. flow[f].pc = "resume" /\ UNCHANGED <<srv, strayed>>
    BY Zenon DEF AfterReactive
  <1>2. flow[f].pc \in {"resume", "me", "retry"} /\ flow[f].pc # "reactive"
    BY <1>1
  <1>3. CASE CatchUnauthorized(f) \/ CatchTransient(f)
    BY Zenon, <1>1, <1>2, <1>3, SavedCatch
  <1>4. CASE flow[f].out = "ok" /\ LoadIdentity(f, "retry") /\ UNCHANGED overlap
    <2> SUFFICES ASSUME ~overlap' PROVE SavedOK'
      BY Zenon DEF SavedInv
    <2>1. OwnTokens /\ SavedOK /\ ~overlap /\ flow[f] \in Flow
      BY Zenon, <1>4 DEF SessionInv, SavedInv, WebInv, FlowsOK
    <2>2. CASE flow[f].kind # "signin"
      <3>1. SrvStep /\ flow[f].pc \in {"resume", "me", "retry", "logout"}
        BY Zenon, <1>1, <1>2 DEF SrvStep
      <3> QED
        BY Zenon, <1>1, <1>4, <2>1, <2>2, <3>1, LoadSteps, SavedGoesOn
    <2>3. CASE flow[f].kind = "signin"
      <3> DEFINE r == [flow[f] EXCEPT !.pc = "retry", !.as = Owner(sess.token)]
      <3>1. flow' = [flow EXCEPT ![f] = r] /\ UNCHANGED <<srv, tab, strayed>> /\ net' = net
        BY Zenon, <1>1, <1>4 DEF LoadIdentity, WebInv, FlowsOK
      <3>2. r.kind = "signin" /\ r.id = flow[f].id /\ r.out = "ok" /\ r.pc = "retry"
        BY Zenon, <1>4, <2>1, <2>3 DEF Flow
      <3> HIDE DEF r
      <3>3. r.pc # "reactive" /\ ~Fails(f)
        BY <1>2, <1>4, <3>2 DEF Fails
      <3>4. \A t \in Tokens : net[t] = "none"
        BY Zenon, <1>2, <2>1, <2>3, SignInAlone
      <3> QED
        BY Zenon, <1>2, <2>1, <2>3, <3>1, <3>2, <3>3, <3>4, SavedSignInGoesOn
    <2> QED
      BY Zenon, <2>2, <2>3
  <1> QED
    BY Zenon, <1>3, <1>4 DEF AfterReactive

\* Nothing is saved at first.
LEMMA InitSavedInv == Init => SavedInv
  <1> SUFFICES ASSUME Init PROVE SavedOK
    BY Zenon DEF SavedInv
  <1>1. \A f \in Flows : flow[f].kind # "signin"
    <2>1. \A f \in Flows : flow[f] = Idle
      BY Zenon DEF Init
    <2> QED
      BY <2>1, IdleFlow
  <1>2. \A t \in Tokens : net[t] = "none" /\ ~Holds(t)
    <2>1. NoSession.token = NoToken
      BY DEF NoSession
    <2> QED
      BY Zenon, <2>1, TokenFacts DEF Init, Holds
  <1>3. TokensOK
    <2>1. \A t \in Tokens : net[t] # "ok"
      BY <1>2
    <2> QED
      BY Zenon, <1>2, <2>1 DEF TokensOK
  <1>4. Awaited
    BY Zenon, <1>2 DEF Awaited
  <1>5. EntriesOK
    BY Zenon DEF Init, EntriesOK
  <1>6. ActiveOK
    BY Zenon DEF Init, ActiveOK
  <1> QED
    BY Zenon, <1>1, <1>3, <1>4, <1>5, <1>6 DEF SavedOK, SignInLast

\* Every step keeps it.
LEMMA NextSavedInv == WebInv /\ SessionInv /\ SavedInv /\ [Next]_vars => SavedInv'
  <1> SUFFICES ASSUME WebInv, SessionInv, SavedInv, [Next]_vars PROVE SavedInv'
    OBVIOUS
  <1>1. CASE UNCHANGED vars
    <2>1. /\ srv' = srv /\ listed' = listed /\ saved' = saved /\ active' = active /\ sess' = sess
          /\ suspended' = suspended /\ flow' = flow /\ net' = net /\ overlap' = overlap /\ strayed' = strayed
      BY Zenon, <1>1 DEF vars, tab
    <2>2. TokensOK => TokensOK'
      BY Zenon, <2>1 DEF TokensOK, Holds
    <2>3. Awaited => Awaited'
      BY Zenon, <2>1 DEF Awaited, Awaits
    <2>4. EntriesOK => EntriesOK'
      BY Zenon, <2>1 DEF EntriesOK, Current, Valid, SignsIn
    <2>5. ActiveOK => ActiveOK'
      BY Zenon, <2>1 DEF ActiveOK, SigningIn
    <2>6. \A f \in Flows : SignInLast(f) => SignInLast(f)'
      BY Zenon, <2>1 DEF SignInLast, Fails, Current, Valid
    <2> QED
      BY Zenon, <2>1, <2>2, <2>3, <2>4, <2>5, <2>6 DEF SavedInv, SavedOK
  <1>2. CASE \E t \in Tokens : ServerRefresh(t) \/ RefreshByToken(t)
    BY Zenon, <1>2, SavedServer, SavedSettles
  <1>3. CASE (\E t \in Tokens : RefreshFails(t)) \/ (\E a \in Accounts : Revoke(a))
    BY Zenon, <1>3, SavedLost
  <1>4. CASE \E f \in Flows, a \in Accounts : SwitchTo(f, a) \/ SignOutAccount(f, a)
    BY Zenon, <1>4, SavedStart
  <1>5. CASE \E f \in Flows : PageCall(f) \/ SignOutAll(f)
    <2>1. \E a : a \in Accounts
      <3>1. CASE \E f \in Flows : PageCall(f)
        BY Zenon, <3>1, TokenFacts DEF PageCall, WebInv, TabOK, SomeToken
      <3>2. CASE \E f \in Flows : SignOutAll(f)
        BY Zenon, <3>2 DEF SignOutAll, WebInv, TabOK
      <3> QED
        BY Zenon, <1>5, <3>1, <3>2
    <2> QED
      BY Zenon, <1>5, <2>1, SavedStart
  <1>6. CASE \E f \in Flows, a \in Accounts : CompleteSignIn(f, a)
    BY Zenon, <1>6, SavedSignIn
  <1>7. CASE \E f \in Flows : BootRestore(f) \/ AfterRefresh(f) \/ Identity(f) \/ IdentityRefused(f)
    BY Zenon, <1>7, SavedBoot, SavedAfterRefresh, SavedIdentity, SavedRecord, SavedRefused
  <1>8. CASE \E f \in Flows : IdentityFails(f)
    <2>1. \A f \in Flows : IdentityFails(f) =>
            flow[f].pc \in {"resume", "me", "retry"} /\ CatchTransient(f) /\ UNCHANGED <<srv, strayed>>
      BY DEF IdentityFails
    <2> QED
      BY Zenon, <1>8, <2>1, SavedCatch
  <1>9. CASE \E f \in Flows : AfterReactive(f) \/ LogoutAnswered(f)
    BY Zenon, <1>9, SavedReactive, SavedLogout
  <1> QED
    BY ZenonT(30), <1>1, <1>2, <1>3, <1>4, <1>5, <1>6, <1>7, <1>8, <1>9 DEF Next

\* However switches, page requests, sign-outs, reloads and lost responses overlap,
\* an account that has missed no rotation can be switched to: its saved token is
\* the one the server expects, or its rotation is on the way to the tab.  For any
\* accounts, any number of flows and any number of rotations.
THEOREM SavedTokensStayCurrent == Spec => []SavedTokensAreCurrent
  <1>1. Init => WebInv /\ SessionInv /\ SavedInv
    BY Zenon, InitWebInv, InitSessionInv, InitSavedInv
  <1>2. WebInv /\ SessionInv /\ SavedInv /\ [Next]_vars => (WebInv /\ SessionInv /\ SavedInv)'
    BY Zenon, NextWebInv, NextSessionInv, NextSavedInv
  <1>3. WebInv /\ SessionInv /\ SavedInv => SavedTokensAreCurrent
    <2> SUFFICES ASSUME WebInv, OwnTokens, SavedOK, NEW a \in listed \ strayed
                 PROVE  /\ saved[a] # NoToken => Owner(saved[a]) = a
                        /\ srv[a].alive => \/ Valid(saved[a])
                                          \/ (saved[a] # NoToken /\ net[saved[a]] = "ok")
                                          \/ \E f \in Flows : flow[f].kind = "signin" /\ flow[f].id = a
      BY Zenon DEF SessionInv, SavedInv, SavedTokensAreCurrent
    <2>1. a \in Accounts
      BY Zenon DEF WebInv, TabOK
    <2> QED
      BY Zenon, <2>1 DEF OwnTokens, OwnToken, SavedOK, EntriesOK, Current, SignsIn
  <1> QED
    BY <1>1, <1>2, <1>3, PTL DEF Spec

=============================================================================
