------------------------------ MODULE McpClient ------------------------------
(***************************************************************************)
(* The gRPC client of the MCP server.  It calls authd with a service token *)
(* that it caches and renews shortly before expiry, under a mutex that its *)
(* concurrent tool calls share.  What authd answers is an input here;      *)
(* Transports says what it is.                                             *)
(***************************************************************************)
EXTENDS Integers

CONSTANTS Calls,         \* concurrent tool calls of the MCP server
          None,
          Ttl,           \* life of an access token
          Skew,          \* tokenRefreshSkew
          Timeout,       \* RequestTimeout of the MCP client
          MaxTime, MaxBans, MaxRotations   \* bounds

\* The defaults are a skew of 30 s, a timeout of 10 s and a life of minutes, but the timeout and the life are free:
\* ConfigFromEnv takes every positive timeout, and ACCESS_TOKEN_TTL is the server's.
ASSUME TimesAssumption == {Ttl, Skew, Timeout} \subseteq Nat

VARIABLES now,           \* the clock
          cache,         \* accessToken and tokenExpires
          lock,          \* the call that holds tokenMu
          calls          \* the tool calls

mcp == <<cache, lock, calls>>
mcpVars == <<now, mcp>>

ServiceToken == [typ : {"service"}, ver : 0..MaxBans, kid : 0..MaxRotations, exp : 0..MaxTime + Ttl]

Resting == [pc |-> "idle", answer |-> "none"]

McpInit ==
    /\ now = 0
    /\ cache = None /\ lock = None
    /\ calls = [c \in Calls |-> Resting]

\* The deadline is set before the call queues for the mutex, and the mutex knows nothing of it.
StartTool(c) ==
    /\ calls[c].pc = "idle"
    /\ calls' = [calls EXCEPT ![c] = [pc |-> "lock", deadline |-> now + Timeout]]
    /\ UNCHANGED <<now, cache, lock>>

\* Mutated form: the token is used for as long as it lives.
StillValid == cache # None /\ cache.exp > now

Fresh == cache # None /\ cache.exp - now > Skew

UseCachedToken(c) ==
    /\ calls[c].pc = "lock" /\ lock = None /\ Fresh
    /\ calls' = [calls EXCEPT ![c] = [pc |-> "call", deadline |-> @.deadline, token |-> cache]]
    /\ UNCHANGED <<now, cache, lock>>

RenewToken(c) ==
    /\ calls[c].pc = "lock" /\ lock = None /\ ~Fresh
    /\ lock' = c
    /\ calls' = [calls EXCEPT ![c].pc = "issue"]
    /\ UNCHANGED <<now, cache>>

TokenIssued(c, token) ==
    /\ calls[c].pc = "issue" /\ now <= calls[c].deadline
    /\ token.exp = now + Ttl
    /\ cache' = token
    /\ lock' = None
    /\ calls' = [calls EXCEPT ![c] = [pc |-> "call", deadline |-> @.deadline, token |-> token]]
    /\ UNCHANGED now

\* Refused, failed or timed out: the old token stays in the cache.
TokenRefused(c) ==
    /\ calls[c].pc = "issue"
    /\ lock' = None
    /\ calls' = [calls EXCEPT ![c] = [pc |-> "idle", answer |-> "error"]]
    /\ UNCHANGED <<now, cache>>

\* wrap and mutation: an error, or the result.
ToolAnswered(c, answer) ==
    /\ calls[c].pc = "call" /\ now <= calls[c].deadline
    /\ calls' = [calls EXCEPT ![c] = [pc |-> "idle", answer |-> answer]]
    /\ UNCHANGED <<now, cache, lock>>

ToolTimesOut(c) ==
    /\ calls[c].pc = "call" /\ now >= calls[c].deadline
    /\ calls' = [calls EXCEPT ![c] = [pc |-> "idle", answer |-> "error"]]
    /\ UNCHANGED <<now, cache, lock>>

\* A remote call returns by its deadline; a wait for the mutex need not.
ClockTick ==
    /\ now < MaxTime
    /\ \A c \in Calls : calls[c].pc \in {"issue", "call"} => now < calls[c].deadline
    /\ now' = now + 1
    /\ UNCHANGED mcp

McpNext ==
    \/ ClockTick
    \/ \E c \in Calls :
        \/ StartTool(c) \/ UseCachedToken(c) \/ RenewToken(c) \/ TokenRefused(c) \/ ToolTimesOut(c)
        \/ \E token \in ServiceToken : TokenIssued(c, token)
        \/ \E answer \in {"result", "error"} : ToolAnswered(c, answer)

McpSpec == McpInit /\ [][McpNext]_mcpVars

\* By how much a token outlives the deadline of the call that presents it: what the skew, or the whole life of a new
\* token where that is shorter, leaves of the timeout.  20 s with the defaults; negative for a longer timeout.
Margin == (IF Skew < Ttl THEN Skew ELSE Ttl - 1) - Timeout

\* While a tool call is under way its token has more than the margin left to live, however long the call waited for
\* the mutex and whoever renewed the token in the meantime.  Where the skew covers the timeout, as it does by
\* default, no call presents an expired token; where it does not, one is expired by no more than the difference.
TokensOutliveCalls ==
    \A c \in Calls : calls[c].pc = "call" /\ now <= calls[c].deadline => now + Margin < calls[c].token.exp
=============================================================================
