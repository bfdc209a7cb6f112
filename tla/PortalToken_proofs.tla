------------------------- MODULE PortalToken_proofs -------------------------
(***************************************************************************)
(* Proofs about PortalToken for every set of goroutines, scopes and        *)
(* methods, every token lifetime, skew and latency.                        *)
(***************************************************************************)
EXTENDS PortalToken, TLAPS

\* Leaving GetMachineToken with a token keeps the caller's variables in type.
LEMMA TakeType ==
  ASSUME TypeOK, NEW c \in Callers, NEW t \in Token, NEW old \in BOOLEAN,
         Take(c, t, old)
  PROVE  /\ pc' \in [Callers -> {"idle", "locking", "requesting", "issued", "holding"}]
         /\ hand' \in [Callers -> Token]
         /\ elapsed' \in [Callers -> Nat]
         /\ handOld' \in [Callers -> BOOLEAN]
<1> NoToken \in Token
  BY DEF NoToken, Token
<1> USE DEF TypeOK, Take
<1>1. CASE method[c] # "token" /\ pc' = [pc EXCEPT ![c] = "holding"]
  BY <1>1
<1>2. CASE method[c] = "token" /\ pc' = [pc EXCEPT ![c] = "idle"]
  BY <1>2
<1>3. QED
  BY <1>1, <1>2

\* The types of the cache, the calls and their history are invariant.
THEOREM TypeCorrect == Spec => []TypeOK
<1>1. Init => TypeOK
  BY ConstantsAssumption DEF Init, TypeOK, NoToken, Token, Kinds
<1>2. TypeOK /\ [Next]_vars => TypeOK'
  <2> SUFFICES ASSUME TypeOK, [Next]_vars PROVE TypeOK'
    OBVIOUS
  <2> NoToken \in Token
    BY DEF NoToken, Token
  <2> USE ConstantsAssumption DEF TypeOK, Kinds, client, calls, history
  <2>1. ASSUME NEW c \in Callers, NEW m \in Kinds, NEW s \in Scopes,
               Enter(c, m, s)
        PROVE  TypeOK'
    BY <2>1 DEF Enter
  <2>2. ASSUME NEW c \in Callers, CacheHit(c) PROVE TypeOK'
    <3> DEFINE t == [grant |-> grant[want[c]], life |-> life[want[c]],
                     expiresIn |-> 0]
    <3>1. t \in Token
      BY DEF Token
    <3>2. Take(c, t, cacheOld[want[c]])
      BY <2>2 DEF CacheHit, Unlocked
    <3>3. cacheOld[want[c]] \in BOOLEAN
      OBVIOUS
    <3> HIDE DEF t
    <3>4. QED
      BY <2>2, <3>1, <3>2, <3>3, TakeType DEF CacheHit, Unlocked
  <2>3. ASSUME NEW c \in Callers, CacheMiss(c) PROVE TypeOK'
    BY <2>3 DEF CacheMiss, Unlocked
  <2>4. ASSUME NEW c \in Callers, TokenFails(c) PROVE TypeOK'
    BY <2>4 DEF TokenFails, Unlock
  <2>5. ASSUME NEW c \in Callers, StoreToken(c) PROVE TypeOK'
    <3>1. CacheTime(hand[c].expiresIn) \in Nat
      BY DEF CacheTime, Token
    <3>2. Take(c, hand[c], handOld[c])
      BY <2>5 DEF StoreToken, Accepts, Unlock
    <3>3. hand[c] \in Token /\ handOld[c] \in BOOLEAN
      OBVIOUS
    <3>4. hand[c].grant \in SUBSET Scopes /\ hand[c].life \in Nat
      BY <3>3 DEF Token
    <3>5. QED
      BY <2>5, <3>1, <3>2, <3>3, <3>4, TakeType DEF StoreToken, Accepts, Unlock
  <2>6. ASSUME NEW c \in Callers, RequestDone(c) PROVE TypeOK'
    BY <2>6 DEF RequestDone
  <2>7. ASSUME NEW c \in Callers, NEW n \in Lifetimes, NEW g \in SUBSET Scopes,
               Issue(c, n, g)
        PROVE  TypeOK'
    BY <2>7 DEF Issue, Token
  <2>8. ASSUME NEW S \in SUBSET Scopes \ {{}}, ClearTokenCache(S) PROVE TypeOK'
    BY <2>8 DEF ClearTokenCache, Unlocked, Delete
  <2>9. CASE Tick
    <3>1. \A n \in Nat : Less(n) \in Nat
      BY DEF Less
    <3>2. \A c \in Callers :
            [hand[c] EXCEPT !.life = Less(hand[c].life)] \in Token
      BY <3>1 DEF Token
    <3>3. QED
      BY <2>9, <3>1, <3>2 DEF Tick
  <2>10. CASE UNCHANGED vars
    BY <2>10 DEF vars
  <2>11. \A c \in Callers, m \in Methods :
           RequestJSON(c, m) => Enter(c, m, ScopeForMethod(m))
                                /\ ScopeForMethod(m) \in Scopes
    BY DEF RequestJSON, ScopeForMethod
  <2>12. QED
    BY <2>1, <2>2, <2>3, <2>4, <2>5, <2>6, <2>7, <2>8, <2>9, <2>10, <2>11
    DEF Next, Step, GetMachineToken, RequestJSONWithScope
<1>3. QED
  BY <1>1, <1>2, PTL DEF Spec
-----------------------------------------------------------------------------
(* The mutex, and tokens issued before a clear *)

Fetching(c) == pc[c] \in {"requesting", "issued"}

\* The mutex is held by exactly the goroutine that fetches a token.
OwnerFetches == \A c \in Callers : Fetching(c) <=> owner = c

\* Only tokens in hand outlive a clear: the cache holds none issued before it,
\* and a goroutine that has no token yet cannot get one.
NoOldToken ==
  /\ \A s \in Scopes : cacheOld[s] => ttl[s] = 0
  /\ \A c \in Callers :
       /\ pc[c] \in {"idle", "locking", "requesting"} =>
            hand[c] = NoToken /\ ~handOld[c]
       /\ pc[c] = "issued" => ~handOld[c]

ClearInv == TypeOK /\ OwnerFetches /\ NoOldToken /\ ClearedTokenIsGone

\* Nothing is cached or fetched when the client is built.
LEMMA ClearInit == Init => ClearInv
  BY ConstantsAssumption
  DEF Init, ClearInv, OwnerFetches, NoOldToken, ClearedTokenIsGone, Fetching,
      TypeOK, Token, NoToken, Kinds

\* Every step keeps the mutex with the fetching goroutine and old tokens out of
\* the cache.
LEMMA ClearStep == TypeOK' /\ ClearInv /\ [Next]_vars => ClearInv'
<1> DEFINE Rest == OwnerFetches /\ NoOldToken /\ ClearedTokenIsGone
<1> SUFFICES ASSUME TypeOK', ClearInv, [Next]_vars PROVE Rest'
  BY DEF ClearInv
<1> USE ConstantsAssumption
    DEF ClearInv, TypeOK, OwnerFetches, NoOldToken, ClearedTokenIsGone,
        Fetching, Kinds, client, calls, history
<1>1. ASSUME NEW c \in Callers, NEW m \in Kinds, NEW s \in Scopes, Enter(c, m, s)
      PROVE  Rest'
  BY <1>1 DEF Enter
<1>2. ASSUME NEW c \in Callers, CacheHit(c) PROVE Rest'
  BY <1>2 DEF CacheHit, Unlocked, Take
<1>3. ASSUME NEW c \in Callers, CacheMiss(c) PROVE Rest'
  BY <1>3 DEF CacheMiss, Unlocked
<1>4. ASSUME NEW c \in Callers, TokenFails(c) PROVE Rest'
  BY <1>4 DEF TokenFails, Unlock
<1>5. ASSUME NEW c \in Callers, StoreToken(c) PROVE Rest'
  <2>1. pc[c] = "issued" /\ owner = c /\ owner' = Nobody /\ ~handOld[c]
    BY <1>5 DEF StoreToken, Accepts, Unlock
  <2>2. /\ \A s \in Scopes : cacheOld'[s] => s # want[c] /\ cacheOld[s]
        /\ \A s \in Scopes : s # want[c] => ttl'[s] = ttl[s]
    <3>1. /\ cacheOld' = [cacheOld EXCEPT ![want[c]] = handOld[c]]
          /\ ttl' = [ttl EXCEPT ![want[c]] = CacheTime(hand[c].expiresIn)]
      BY <1>5 DEF StoreToken, Accepts, Unlock
    <3> HIDE DEF CacheTime
    <3>2. QED
      BY <2>1, <3>1
  <2>3. CASE method[c] # "token" /\ pc' = [pc EXCEPT ![c] = "holding"]
    BY <1>5, <2>1, <2>2, <2>3 DEF StoreToken, Accepts, Unlock, Take
  <2>4. CASE /\ pc' = [pc EXCEPT ![c] = "idle"]
             /\ hand' = [hand EXCEPT ![c] = NoToken]
             /\ handOld' = [handOld EXCEPT ![c] = FALSE]
    BY <1>5, <2>1, <2>2, <2>4 DEF StoreToken, Accepts, Unlock
  <2>5. QED
    BY <1>5, <2>3, <2>4 DEF StoreToken, Accepts, Unlock, Take
<1>6. ASSUME NEW c \in Callers, RequestDone(c) PROVE Rest'
  BY <1>6 DEF RequestDone
<1>7. ASSUME NEW c \in Callers, NEW n \in Lifetimes, NEW g \in SUBSET Scopes,
             Issue(c, n, g)
      PROVE  Rest'
  BY <1>7 DEF Issue
<1>8. ASSUME NEW S \in SUBSET Scopes \ {{}}, ClearTokenCache(S) PROVE Rest'
  BY <1>8 DEF ClearTokenCache, Unlocked, Delete
<1>9. CASE Tick
  <2>1. \A c \in Callers : hand[c] = NoToken => hand'[c] = NoToken
    <3>1. Less(0) = 0
      BY DEF Less
    <3>2. [NoToken EXCEPT !.life = Less(NoToken.life)] = NoToken
      BY <3>1 DEF NoToken
    <3>3. \A c \in Callers :
            hand'[c] = [hand[c] EXCEPT !.life = Less(hand[c].life)]
      BY <1>9 DEF Tick
    <3>4. QED
      BY <3>2, <3>3
  <2>2. \A s \in Scopes : ttl[s] = 0 => ttl'[s] = 0
    BY <1>9 DEF Tick, Less
  <2>3. UNCHANGED <<owner, pc, cacheOld, handOld, before>>
    BY <1>9 DEF Tick
  <2>4. QED
    BY <2>1, <2>2, <2>3
<1>10. CASE UNCHANGED vars
  BY <1>10 DEF vars
<1>11. \A c \in Callers, m \in Methods :
         RequestJSON(c, m) => Enter(c, m, ScopeForMethod(m))
                              /\ ScopeForMethod(m) \in Scopes
  BY DEF RequestJSON, ScopeForMethod
<1>12. QED
  BY <1>1, <1>2, <1>3, <1>4, <1>5, <1>6, <1>7, <1>8, <1>9, <1>10, <1>11
  DEF Next, Step, GetMachineToken, RequestJSONWithScope

\* A call that began after ClearTokenCache returned never carries a token that
\* was issued before it.
THEOREM ClearIsFinal == Spec => []ClearedTokenIsGone
<1>1. ClearInv => ClearedTokenIsGone
  BY DEF ClearInv
<1>2. QED
  BY <1>1, ClearInit, ClearStep, TypeCorrect, PTL DEF Spec

\* The mutex admits one token request at a time, whatever the scopes.
THEOREM TokenRequestsExclude == Spec => []OneTokenRequest
<1>1. ClearInv => OneTokenRequest
  BY DEF ClearInv, OwnerFetches, OneTokenRequest, Fetching
<1>2. QED
  BY <1>1, ClearInit, ClearStep, TypeCorrect, PTL DEF Spec
-----------------------------------------------------------------------------
(* How long a token in use stays valid *)

\* A cached token outlives its cache time by the skew less the time its
\* response took, because expires_in is counted from the receipt.
CachedAlive ==
  \A s \in Scopes : ttl[s] > 0 => life[s] >= ttl[s] + Skew - TokenLatency

\* A token in hand outlives what is left of the time to store or to send it.
InHandAlive ==
  \A c \in Callers :
    /\ pc[c] = "issued" =>
         /\ hand[c].expiresIn \in Lifetimes
         /\ elapsed[c] =< TokenLatency
         /\ hand[c].life >= hand[c].expiresIn - elapsed[c]
    /\ pc[c] = "holding" =>
         /\ elapsed[c] =< SendLatency
         /\ hand[c].life > SendLatency - elapsed[c]

AliveInv == TypeOK /\ CachedAlive /\ InHandAlive

\* No token is cached or in hand when the client is built.
LEMMA AliveInit == Init => AliveInv
  BY ConstantsAssumption
  DEF Init, AliveInv, CachedAlive, InHandAlive, TypeOK, Token, NoToken, Kinds

\* With timeouts within the skew every step keeps the margins.
LEMMA AliveStep ==
  TimingAssumption /\ TypeOK' /\ AliveInv /\ [Next]_vars => AliveInv'
<1> DEFINE Rest == CachedAlive /\ InHandAlive
<1> SUFFICES ASSUME TimingAssumption, TypeOK', AliveInv, [Next]_vars PROVE Rest'
  BY DEF AliveInv
<1> \A c \in Callers : hand[c].life \in Nat /\ hand[c].expiresIn \in Nat
  BY DEF AliveInv, TypeOK, Token
<1> \A n \in Lifetimes : n \in Nat
  BY ConstantsAssumption
<1> USE ConstantsAssumption
    DEF TimingAssumption, AliveInv, TypeOK, CachedAlive, InHandAlive, client,
        calls, history
<1>1. ASSUME NEW c \in Callers, NEW m \in Kinds, NEW s \in Scopes, Enter(c, m, s)
      PROVE  Rest'
  BY <1>1 DEF Enter
<1>2. ASSUME NEW c \in Callers, CacheHit(c) PROVE Rest'
  <2> DEFINE t == [grant |-> grant[want[c]], life |-> life[want[c]],
                   expiresIn |-> 0]
  <2>1. t.life = life[want[c]] /\ t.life > SendLatency
    BY <1>2 DEF CacheHit, Unlocked
  <2>2. Take(c, t, cacheOld[want[c]]) /\ UNCHANGED <<ttl, life>>
    BY <1>2 DEF CacheHit, Unlocked
  <2> HIDE DEF t
  <2>3. CASE pc' = [pc EXCEPT ![c] = "holding"] /\ hand' = [hand EXCEPT ![c] = t]
    BY <2>1, <2>2, <2>3 DEF Take
  <2>4. CASE /\ pc' = [pc EXCEPT ![c] = "idle"]
             /\ hand' = [hand EXCEPT ![c] = NoToken]
    BY <2>2, <2>4 DEF Take
  <2>5. QED
    BY <2>2, <2>3, <2>4 DEF Take
<1>3. ASSUME NEW c \in Callers, CacheMiss(c) PROVE Rest'
  BY <1>3 DEF CacheMiss, Unlocked
<1>4. ASSUME NEW c \in Callers, TokenFails(c) PROVE Rest'
  BY <1>4 DEF TokenFails, Unlock
<1>5. ASSUME NEW c \in Callers, StoreToken(c) PROVE Rest'
  <2>1. /\ pc[c] = "issued"
        /\ ttl' = [ttl EXCEPT ![want[c]] = CacheTime(hand[c].expiresIn)]
        /\ life' = [life EXCEPT ![want[c]] = hand[c].life]
        /\ Take(c, hand[c], handOld[c])
    BY <1>5 DEF StoreToken, Accepts, Unlock
  <2>2. /\ hand[c].life >= hand[c].expiresIn - TokenLatency
        /\ hand[c].life > SendLatency
    BY <2>1
  <2>3. CacheTime(hand[c].expiresIn) > 0 =>
          hand[c].life >= CacheTime(hand[c].expiresIn) + Skew - TokenLatency
    BY <2>2 DEF CacheTime
  <2> HIDE DEF CacheTime
  <2>4. CachedAlive'
    BY <2>1, <2>3
  <2>5. /\ elapsed'[c] = 0
        /\ \/ pc'[c] = "holding" /\ hand'[c] = hand[c]
           \/ pc'[c] = "idle"
    BY <2>1 DEF Take
  <2>6. \A u \in Callers \ {c} :
          pc'[u] = pc[u] /\ hand'[u] = hand[u] /\ elapsed'[u] = elapsed[u]
    BY <2>1 DEF Take
  <2>7. InHandAlive'
    BY <2>2, <2>5, <2>6
  <2>8. QED
    BY <2>4, <2>7
<1>6. ASSUME NEW c \in Callers, RequestDone(c) PROVE Rest'
  BY <1>6 DEF RequestDone
<1>7. ASSUME NEW c \in Callers, NEW n \in Lifetimes, NEW g \in SUBSET Scopes,
             Issue(c, n, g)
      PROVE  Rest'
  <2>1. /\ pc'[c] = "issued" /\ elapsed'[c] = 0
        /\ hand'[c] = [grant |-> g, life |-> n, expiresIn |-> n]
    BY <1>7 DEF Issue
  <2>2. \A u \in Callers \ {c} :
          pc'[u] = pc[u] /\ hand'[u] = hand[u] /\ elapsed'[u] = elapsed[u]
    BY <1>7 DEF Issue
  <2>3. /\ hand'[c].expiresIn \in Lifetimes /\ elapsed'[c] =< TokenLatency
        /\ hand'[c].life >= hand'[c].expiresIn - elapsed'[c]
    BY <2>1
  <2>4. InHandAlive'
    BY <2>1, <2>2, <2>3
  <2>5. CachedAlive'
    BY <1>7 DEF Issue
  <2>6. QED
    BY <2>4, <2>5
<1>8. ASSUME NEW S \in SUBSET Scopes \ {{}}, ClearTokenCache(S) PROVE Rest'
  BY <1>8 DEF ClearTokenCache, Unlocked, Delete
<1>9. CASE Tick
  <2>1. \A n \in Nat : Less(n) >= n - 1 /\ (n > 0 => Less(n) = n - 1)
    BY DEF Less
  <2>2. CachedAlive'
    <3>1. \A s \in Scopes : ttl'[s] = Less(ttl[s]) /\ life'[s] = Less(life[s])
      BY <1>9 DEF Tick
    <3>2. \A s \in Scopes : ttl'[s] > 0 => ttl[s] > 0 /\ ttl'[s] = ttl[s] - 1
      BY <3>1 DEF Less
    <3>3. QED
      BY <2>1, <3>1, <3>2
  <2>3. \A c \in Callers : /\ hand'[c].life >= hand[c].life - 1
                           /\ hand'[c].expiresIn = hand[c].expiresIn
    BY <1>9, <2>1 DEF Tick, Token
  <2>4. \A c \in Callers :
          pc[c] \in {"issued", "holding"} => elapsed'[c] = elapsed[c] + 1
    BY <1>9 DEF Tick
  <2>5. \A c \in Callers : /\ pc[c] = "issued" => elapsed[c] < TokenLatency
                           /\ pc[c] = "holding" => elapsed[c] < SendLatency
    BY <1>9 DEF Tick
  <2>6. pc' = pc /\ \A c \in Callers : hand'[c].life \in Nat
    BY <1>9 DEF Tick, Token
  <2>7. \A c \in Callers : /\ elapsed[c] \in Nat /\ hand[c].life \in Nat
                           /\ hand[c].expiresIn \in Nat
    OBVIOUS
  <2>8. ASSUME NEW c \in Callers, pc[c] = "issued"
        PROVE  /\ hand'[c].expiresIn \in Lifetimes /\ elapsed'[c] =< TokenLatency
               /\ hand'[c].life >= hand'[c].expiresIn - elapsed'[c]
    BY <2>3, <2>4, <2>5, <2>6, <2>7, <2>8
  <2>9. ASSUME NEW c \in Callers, pc[c] = "holding"
        PROVE  /\ elapsed'[c] =< SendLatency
               /\ hand'[c].life > SendLatency - elapsed'[c]
    BY <2>3, <2>4, <2>5, <2>6, <2>7, <2>9
  <2>10. InHandAlive'
    BY <2>6, <2>8, <2>9
  <2>11. QED
    BY <2>2, <2>10
<1>10. CASE UNCHANGED vars
  BY <1>10 DEF vars
<1>11. \A c \in Callers, m \in Methods :
         RequestJSON(c, m) => Enter(c, m, ScopeForMethod(m))
                              /\ ScopeForMethod(m) \in Scopes /\ m \in Kinds
  BY DEF RequestJSON, ScopeForMethod, Kinds
<1>12. \A c \in Callers, s \in Scopes :
         /\ GetMachineToken(c, s) => Enter(c, "token", s) /\ "token" \in Kinds
         /\ RequestJSONWithScope(c, s) =>
              Enter(c, "scoped", s) /\ "scoped" \in Kinds
  BY DEF GetMachineToken, RequestJSONWithScope, Kinds
<1>13. QED
  BY <1>1, <1>2, <1>3, <1>4, <1>5, <1>6, <1>7, <1>8, <1>9, <1>10, <1>11, <1>12
  DEF Next, Step

\* When the client's timeouts together stay within the skew, no resource
\* request arrives with an expired token, for any lifetimes beyond them.
THEOREM TokensStayAlive ==
  ASSUME TimingAssumption PROVE Spec => []TokenAliveOnArrival
<1>1. AliveInv => TokenAliveOnArrival
  <2> SUFFICES ASSUME AliveInv, NEW c \in Callers, pc[c] = "holding"
               PROVE  hand[c].life > 0
    BY DEF TokenAliveOnArrival
  <2>1. hand[c].life \in Nat /\ elapsed[c] \in Nat
    BY DEF AliveInv, TypeOK, Token
  <2>2. elapsed[c] =< SendLatency /\ hand[c].life > SendLatency - elapsed[c]
    BY DEF AliveInv, InHandAlive
  <2>3. QED
    BY <2>1, <2>2, ConstantsAssumption
<1>2. TypeOK' /\ AliveInv /\ [Next]_vars => AliveInv'
  BY AliveStep
<1>3. QED
  BY <1>1, <1>2, AliveInit, TypeCorrect, PTL DEF Spec
-----------------------------------------------------------------------------
(* What a token in use was granted *)

\* A resource request asks for the scope of its method.
AskedByMethod ==
  \A c \in Callers : method[c] \in Methods => want[c] = ScopeForMethod(method[c])

\* A usable cached token was granted the scope it is cached under.
CachedGrant == \A s \in Scopes : ttl[s] > 0 => s \in grant[s]

\* A resource request sends a token granted the scope it asked for.
HeldGrant ==
  \A c \in Callers : pc[c] = "holding" => want[c] \in hand[c].grant

GrantInv == AskedByMethod /\ CachedGrant /\ HeldGrant

\* Nothing is cached or asked for when the client is built.
LEMMA GrantInit == Init => GrantInv
  BY ConstantsAssumption
  DEF Init, GrantInv, AskedByMethod, CachedGrant, HeldGrant

\* Every step keeps scopes, cached grants and tokens in use together.
LEMMA GrantStep == TypeOK /\ GrantInv /\ [Next]_vars => GrantInv'
<1> SUFFICES ASSUME TypeOK, GrantInv, [Next]_vars PROVE GrantInv'
  OBVIOUS
<1> USE ConstantsAssumption
    DEF TypeOK, GrantInv, AskedByMethod, CachedGrant, HeldGrant, client, calls,
        history
<1>1. ASSUME NEW c \in Callers, NEW m \in Methods, RequestJSON(c, m)
      PROVE  GrantInv'
  <2>1. ScopeForMethod(m) \in Scopes
    BY DEF ScopeForMethod
  <2>2. Enter(c, m, ScopeForMethod(m))
    BY <1>1 DEF RequestJSON
  <2>3. QED
    BY <2>1, <2>2 DEF Enter
<1>2. ASSUME NEW c \in Callers, NEW s \in Scopes,
             GetMachineToken(c, s) \/ RequestJSONWithScope(c, s)
      PROVE  GrantInv'
  BY <1>2 DEF GetMachineToken, RequestJSONWithScope, Enter
<1>3. ASSUME NEW c \in Callers, CacheHit(c) PROVE GrantInv'
  <2> DEFINE t == [grant |-> grant[want[c]], life |-> life[want[c]],
                   expiresIn |-> 0]
  <2>1. want[c] \in t.grant
    BY <1>3 DEF CacheHit, Unlocked
  <2>2. Take(c, t, cacheOld[want[c]]) /\ UNCHANGED <<ttl, grant, want, method>>
    BY <1>3 DEF CacheHit, Unlocked
  <2> HIDE DEF t
  <2>3. QED
    BY <2>1, <2>2 DEF Take
<1>4. ASSUME NEW c \in Callers, CacheMiss(c) PROVE GrantInv'
  BY <1>4 DEF CacheMiss, Unlocked
<1>5. ASSUME NEW c \in Callers, TokenFails(c) PROVE GrantInv'
  BY <1>5 DEF TokenFails, Unlock
<1>6. ASSUME NEW c \in Callers, StoreToken(c) PROVE GrantInv'
  <2>1. /\ want[c] \in hand[c].grant
        /\ grant' = [grant EXCEPT ![want[c]] = hand[c].grant]
        /\ \A s \in Scopes \ {want[c]} : ttl'[s] = ttl[s]
        /\ Take(c, hand[c], handOld[c])
        /\ UNCHANGED <<want, method>>
    BY <1>6 DEF StoreToken, Accepts, Unlock
  <2>2. AskedByMethod' /\ CachedGrant'
    BY <2>1
  <2>3. /\ \A u \in Callers \ {c} : pc'[u] = pc[u] /\ hand'[u] = hand[u]
        /\ \/ method[c] # "token" /\ hand'[c] = hand[c]
           \/ pc'[c] = "idle"
    BY <2>1 DEF Take
  <2>4. HeldGrant'
    BY <2>1, <2>3
  <2>5. QED
    BY <2>2, <2>4
<1>7. ASSUME NEW c \in Callers, RequestDone(c) PROVE GrantInv'
  BY <1>7 DEF RequestDone
<1>8. ASSUME NEW c \in Callers, NEW n \in Lifetimes, NEW g \in SUBSET Scopes,
             Issue(c, n, g)
      PROVE  GrantInv'
  BY <1>8 DEF Issue
<1>9. ASSUME NEW S \in SUBSET Scopes \ {{}}, ClearTokenCache(S) PROVE GrantInv'
  BY <1>9 DEF ClearTokenCache, Unlocked, Delete
<1>10. CASE Tick
  <2>1. \A s \in Scopes : ttl'[s] > 0 => ttl[s] > 0
    BY <1>10 DEF Tick, Less
  <2>2. \A c \in Callers : hand'[c].grant = hand[c].grant
    BY <1>10 DEF Tick, Token
  <2>3. UNCHANGED <<grant, pc, want, method>>
    BY <1>10 DEF Tick
  <2>4. QED
    BY <2>1, <2>2, <2>3
<1>11. CASE UNCHANGED vars
  BY <1>11 DEF vars
<1>12. QED
  BY <1>1, <1>2, <1>3, <1>4, <1>5, <1>6, <1>7, <1>8, <1>9, <1>10, <1>11
  DEF Next, Step

\* A request carries a token the server granted the scope of its method: a
\* cached read token never serves a write method.
THEOREM GrantsCoverMethods == Spec => []GrantCoversMethod
<1>1. GrantInv => GrantCoversMethod
  BY ConstantsAssumption
  DEF GrantInv, AskedByMethod, HeldGrant, GrantCoversMethod, ScopeForMethod
<1>2. QED
  BY <1>1, GrantInit, GrantStep, TypeCorrect, PTL DEF Spec
=============================================================================
