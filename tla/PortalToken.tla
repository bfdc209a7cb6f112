----------------------------- MODULE PortalToken -----------------------------
(***************************************************************************)
(* PortalOpenAPIClient of portal_open_api_client.go: the machine-token     *)
(* cache behind its mutex (GetMachineToken, requestMachineToken,           *)
(* ClearTokenCache) and the resource requests that carry its tokens        *)
(* (RequestJSON, requestJSONWithScopeAndHeaders), used by concurrent       *)
(* goroutines against the token endpoint and the Portal.                   *)
(*                                                                         *)
(* The mutex is held across the token request, so a goroutine that must    *)
(* fetch keeps `owner' until it stores the token or gives up; a critical   *)
(* section that does no I/O is one step.  Times are countdowns: what is    *)
(* left until ExpiresAt, and what is left of the token at the server.      *)
(***************************************************************************)
EXTENDS Integers

CONSTANTS
  Callers,       \* goroutines that share the client
  Scopes,        \* scopes validatePortalOpenAPIScope accepts
  ReadScope, WriteScope,
  Methods,       \* methods normalizePortalOpenAPIMethod accepts
  ReadMethods,   \* {GET}
  Lifetimes,     \* values of expires_in the token endpoint answers with
  Skew,          \* TokenSkew
  TokenLatency,  \* longest time from issuing a token to storing it
  SendLatency,   \* longest time from holding a token to the Portal reading it
  Nobody

ASSUME ConstantsAssumption ==
  /\ ReadScope \in Scopes /\ WriteScope \in Scopes /\ ReadScope # WriteScope
  /\ ReadMethods \subseteq Methods /\ {"token", "scoped"} \cap Methods = {}
  /\ Lifetimes \subseteq Nat \ {0}
  /\ Skew \in Nat \ {0}
  /\ TokenLatency \in Nat
  /\ SendLatency \in Nat
  /\ Nobody \notin Callers

VARIABLES
  owner,      \* holder of mu during a token request
  ttl,        \* tokenCache[s]: time left until ExpiresAt; 0 also if absent
  grant,      \* the scopes the server gave the cached token of s
  pc,         \* where each goroutine is
  want,       \* the scope its call asked for
  method,     \* its method if that fixed the scope, "scoped" for a request
              \* with a scope of its own, "token" for GetMachineToken itself
  hand,       \* the token in its hand: [grant, life, expiresIn]
  elapsed,    \* time since its token was issued, or since it took it
  life,       \* history: time the server still accepts the cached token
  cacheOld,   \* history: tokenCache[s] was issued before the last Clear of s
  handOld,    \* history: so was the token in hand
  before      \* history: the call began before the last Clear of its scope

client == <<owner, ttl, grant>>
calls == <<pc, want, method, hand, elapsed>>
history == <<life, cacheOld, handOld, before>>
vars == <<client, calls, history>>

Kinds == Methods \cup {"token", "scoped"}
Token == [grant : SUBSET Scopes, life : Nat, expiresIn : Nat]
NoToken == [grant |-> {}, life |-> 0, expiresIn |-> 0]

TypeOK ==
  /\ owner \in Callers \cup {Nobody}
  /\ ttl \in [Scopes -> Nat]
  /\ grant \in [Scopes -> SUBSET Scopes]
  /\ pc \in [Callers -> {"idle", "locking", "requesting", "issued", "holding"}]
  /\ want \in [Callers -> Scopes]
  /\ method \in [Callers -> Kinds]
  /\ hand \in [Callers -> Token]
  /\ elapsed \in [Callers -> Nat]
  /\ life \in [Scopes -> Nat]
  /\ cacheOld \in [Scopes -> BOOLEAN]
  /\ handOld \in [Callers -> BOOLEAN]
  /\ before \in [Callers -> BOOLEAN]

Init ==
  /\ owner = Nobody
  /\ ttl = [s \in Scopes |-> 0]
  /\ grant = [s \in Scopes |-> {}]
  /\ pc = [c \in Callers |-> "idle"]
  /\ want = [c \in Callers |-> ReadScope]
  /\ method = [c \in Callers |-> "token"]
  /\ hand = [c \in Callers |-> NoToken]
  /\ elapsed = [c \in Callers |-> 0]
  /\ life = [s \in Scopes |-> 0]
  /\ cacheOld = [s \in Scopes |-> FALSE]
  /\ handOld = [c \in Callers |-> FALSE]
  /\ before = [c \in Callers |-> FALSE]

-----------------------------------------------------------------------------
(* Calls *)

\* Mutant: the scopes are the wrong way round.
SwappedScopes(m) == IF m \in ReadMethods THEN WriteScope ELSE ReadScope

\* portalOpenAPIScopeForMethod
ScopeForMethod(m) == IF m \in ReadMethods THEN ReadScope ELSE WriteScope

\* A call whose arguments were accepted waits for the mutex.  Rejected ones
\* (method, path, scope, header) return before any state is touched.
Enter(c, m, s) ==
  /\ pc[c] = "idle"
  /\ pc' = [pc EXCEPT ![c] = "locking"]
  /\ method' = [method EXCEPT ![c] = m]
  /\ want' = [want EXCEPT ![c] = s]
  /\ before' = [before EXCEPT ![c] = FALSE]
  /\ handOld' = [handOld EXCEPT ![c] = FALSE]
  /\ UNCHANGED <<client, hand, elapsed, life, cacheOld>>

RequestJSON(c, m) == Enter(c, m, ScopeForMethod(m))
RequestJSONWithScope(c, s) == Enter(c, "scoped", s)
GetMachineToken(c, s) == Enter(c, "token", s)

\* Mutant: the mutex is not held across the token request.
AlwaysUnlocked == TRUE

Unlocked == owner = Nobody

Unlock == owner' = Nobody

\* Leaving GetMachineToken with token t: a resource request goes on to send it.
Take(c, t, old) ==
  /\ elapsed' = [elapsed EXCEPT ![c] = 0]
  /\ \/ /\ method[c] # "token"
        /\ pc' = [pc EXCEPT ![c] = "holding"]
        /\ hand' = [hand EXCEPT ![c] = t]
        /\ handOld' = [handOld EXCEPT ![c] = old]
     \/ /\ method[c] = "token"
        /\ pc' = [pc EXCEPT ![c] = "idle"]
        /\ hand' = [hand EXCEPT ![c] = NoToken]
        /\ handOld' = [handOld EXCEPT ![c] = FALSE]

\* The cached token of the scope is not past ExpiresAt.
CacheHit(c) ==
  /\ pc[c] = "locking"
  /\ Unlocked
  /\ ttl[want[c]] > 0
  /\ Take(c, [grant |-> grant[want[c]], life |-> life[want[c]], expiresIn |-> 0],
          cacheOld[want[c]])
  /\ UNCHANGED <<client, want, method, life, cacheOld, before>>

\* No usable token: keep the mutex and post to /oauth2/token.
CacheMiss(c) ==
  /\ pc[c] = "locking"
  /\ Unlocked
  /\ ttl[want[c]] = 0
  /\ owner' = c
  /\ pc' = [pc EXCEPT ![c] = "requesting"]
  /\ UNCHANGED <<ttl, grant, want, method, hand, elapsed, history>>

\* The token request fails (transport, status, cancelled context) or the
\* response is refused (type, expires_in, a scope list without the scope).
TokenFails(c) ==
  /\ pc[c] \in {"requesting", "issued"}
  /\ Unlock
  /\ pc' = [pc EXCEPT ![c] = "idle"]
  /\ hand' = [hand EXCEPT ![c] = NoToken]
  /\ elapsed' = [elapsed EXCEPT ![c] = 0]
  /\ handOld' = [handOld EXCEPT ![c] = FALSE]
  /\ UNCHANGED <<ttl, grant, want, method, life, cacheOld, before>>

\* Mutants: the skew is ignored, or the difference is not clamped at zero.
WithoutSkew(expiresIn) == expiresIn
Unclamped(expiresIn) == expiresIn - Skew

\* expires_in less the skew, from the receipt of the response.
CacheTime(expiresIn) == IF expiresIn > Skew THEN expiresIn - Skew ELSE 0

\* Mutant: the scope list of the response is not looked at.
AcceptsAny(c) == TRUE

\* The response lists the scope that was asked for.
Accepts(c) == want[c] \in hand[c].grant

\* Store the token and release the mutex.
StoreToken(c) ==
  /\ pc[c] = "issued"
  /\ Accepts(c)
  /\ Unlock
  /\ ttl' = [ttl EXCEPT ![want[c]] = CacheTime(hand[c].expiresIn)]
  /\ grant' = [grant EXCEPT ![want[c]] = hand[c].grant]
  /\ life' = [life EXCEPT ![want[c]] = hand[c].life]
  /\ cacheOld' = [cacheOld EXCEPT ![want[c]] = handOld[c]]
  /\ Take(c, hand[c], handOld[c])
  /\ UNCHANGED <<want, method, before>>

\* The resource request is over: the Portal read the token, or the request was
\* lost.  What net/http sends again on its own is sent within its time.
RequestDone(c) ==
  /\ pc[c] = "holding"
  /\ pc' = [pc EXCEPT ![c] = "idle"]
  /\ hand' = [hand EXCEPT ![c] = NoToken]
  /\ elapsed' = [elapsed EXCEPT ![c] = 0]
  /\ handOld' = [handOld EXCEPT ![c] = FALSE]
  /\ UNCHANGED <<client, want, method, life, cacheOld, before>>

\* The cached tokens of the scopes in S are deleted.
Delete(S) ==
  /\ ttl' = [s \in Scopes |-> IF s \in S THEN 0 ELSE ttl[s]]
  /\ grant' = [s \in Scopes |-> IF s \in S THEN {} ELSE grant[s]]
  /\ life' = [s \in Scopes |-> IF s \in S THEN 0 ELSE life[s]]
  /\ cacheOld' = [s \in Scopes |-> s \in S \/ cacheOld[s]]
  /\ handOld' = [c \in Callers |->
                   handOld[c] \/ (want[c] \in S /\ hand[c] # NoToken)]
  /\ before' = [c \in Callers |-> before[c] \/ want[c] \in S]
  /\ UNCHANGED <<owner, calls>>

\* Mutant: the tokens are deleted without waiting for the mutex.
ClearWithoutLock(S) == Delete(S)

ClearTokenCache(S) == Unlocked /\ Delete(S)

-----------------------------------------------------------------------------
(* The token endpoint and time *)

\* A token is issued for expires_in n; its scope list g may be any, a missing
\* one stands for the requested scope.
Issue(c, n, g) ==
  /\ pc[c] = "requesting"
  /\ pc' = [pc EXCEPT ![c] = "issued"]
  /\ hand' = [hand EXCEPT ![c] = [grant |-> g, life |-> n, expiresIn |-> n]]
  /\ elapsed' = [elapsed EXCEPT ![c] = 0]
  /\ UNCHANGED <<client, want, method, history>>

Less(n) == IF n > 0 THEN n - 1 ELSE 0

\* One unit of time.  The HTTP client's timeout ends a token response after
\* TokenLatency and a resource request after SendLatency.
Tick ==
  /\ \A c \in Callers : /\ pc[c] = "issued" => elapsed[c] < TokenLatency
                        /\ pc[c] = "holding" => elapsed[c] < SendLatency
  /\ ttl' = [s \in Scopes |-> Less(ttl[s])]
  /\ life' = [s \in Scopes |-> Less(life[s])]
  /\ hand' = [c \in Callers |-> [hand[c] EXCEPT !.life = Less(hand[c].life)]]
  /\ elapsed' = [c \in Callers |->
                   IF pc[c] \in {"issued", "holding"} THEN elapsed[c] + 1
                   ELSE elapsed[c]]
  /\ UNCHANGED <<owner, grant, pc, want, method, cacheOld, handOld, before>>

Step(c) ==
  \/ CacheHit(c) \/ CacheMiss(c)
  \/ TokenFails(c) \/ StoreToken(c)
  \/ RequestDone(c)

Next ==
  \/ \E c \in Callers, m \in Methods : RequestJSON(c, m)
  \/ \E c \in Callers, s \in Scopes :
       GetMachineToken(c, s) \/ RequestJSONWithScope(c, s)
  \/ \E c \in Callers : Step(c)
  \/ \E c \in Callers, n \in Lifetimes, g \in SUBSET Scopes : Issue(c, n, g)
  \/ \E S \in SUBSET Scopes \ {{}} : ClearTokenCache(S)
  \/ Tick

Spec == Init /\ [][Next]_vars
-----------------------------------------------------------------------------
(* Properties *)

\* The client's timeouts together stay within the skew, as the defaults do
\* (5s, 5s and 30s), and the server's tokens outlive them.
TimingAssumption ==
  /\ TokenLatency + SendLatency =< Skew
  /\ \A n \in Lifetimes : n > TokenLatency + SendLatency

\* No request reaches the Portal with a token the server no longer accepts,
\* whether the token was cached, fresh, or shorter-lived than the skew.
TokenAliveOnArrival ==
  \A c \in Callers : pc[c] = "holding" => hand[c].life > 0

\* A token is only ever used for a call whose scope the server granted it: a
\* cached read token never authorises a write method, whatever is cached.
GrantCoversMethod ==
  \A c \in Callers : pc[c] = "holding" =>
    /\ want[c] \in hand[c].grant
    /\ method[c] \in ReadMethods => ReadScope \in hand[c].grant
    /\ method[c] \in Methods \ ReadMethods => WriteScope \in hand[c].grant

\* A call that began after ClearTokenCache returned carries a token issued
\* after it, even when a token request was under way at the time.
ClearedTokenIsGone ==
  \A c \in Callers : pc[c] = "holding" /\ handOld[c] => before[c]

\* At most one token request is under way on a client, for all its scopes.
OneTokenRequest ==
  \A c, d \in Callers :
    /\ pc[c] \in {"requesting", "issued"}
    /\ pc[d] \in {"requesting", "issued"}
    => c = d
=============================================================================
