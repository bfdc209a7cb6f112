-------------------------- MODULE ProfileCache_proofs --------------------------
(***************************************************************************)
(* Proofs about ProfileCache for every number of goroutines, cache keys    *)
(* and changes of the profile, every cache time and every response time,   *)
(* and about RetryClient, which carries GetMe, UpdateAccountProfile and    *)
(* the strict calls, for every set of calls and every number of retries,   *)
(* timeout, delay and elapsed time.  No theorem is about both.             *)
(***************************************************************************)
EXTENDS ProfileCache, RetryClient, TLAPS

Entries == [profile : Versions \cup {None}, ttl : 0 .. TTL]
Places == {"idle", "fetching", "answered", "patching", "patched"}

\* The numbers the model is built from.
LEMMA Numbers ==
  /\ TTL \in Nat /\ TTL > 0 /\ Latency \in Nat /\ MaxVersion \in Nat
  /\ Horizon = TTL + Latency + 1 /\ Versions = 0 .. MaxVersion
  /\ None \notin Versions /\ None = -1
  /\ Absent \in Entries /\ Absent.ttl = 0 /\ Absent.profile = None
<1>1. /\ TTL \in Nat /\ TTL > 0 /\ Latency \in Nat /\ MaxVersion \in Nat
      /\ Horizon = TTL + Latency + 1 /\ Versions = 0 .. MaxVersion
      /\ None \notin Versions /\ None = -1
  BY ConstantsAssumption DEF Horizon, Versions, None
<1>2. Absent \in Entries /\ Absent.ttl = 0 /\ Absent.profile = None
  BY <1>1 DEF Absent, Entries
<1>3. QED
  BY <1>1, <1>2

\* What a call that ends promises for its key is a pair of versions.
LEMMA PromiseType ==
  ASSUME NEW p \in Promise, NEW v \in Versions
  PROVE  /\ [p EXCEPT !.shown = v] \in Promise /\ [p EXCEPT !.updated = v] \in Promise
         /\ [p EXCEPT !.shown = v].updated = p.updated
         /\ [p EXCEPT !.updated = v].shown = p.shown
         /\ [p EXCEPT !.shown = v].shown = v /\ [p EXCEPT !.updated = v].updated = v
BY DEF Promise

\* Raising one part of the promise of a key leaves the other alone.
LEMMA Promised ==
  ASSUME TypeOK, NEW k \in Keys, NEW v \in Versions,
         promised' = [promised EXCEPT ![k].shown = v]
         \/ promised' = [promised EXCEPT ![k].updated = v]
  PROVE  /\ promised' \in [Keys -> Promise]
         /\ \A j \in Keys : j # k => promised'[j] = promised[j]
         /\ promised' = [promised EXCEPT ![k].shown = v]
              => promised'[k].updated = promised[k].updated
         /\ promised' = [promised EXCEPT ![k].updated = v] => promised'[k].updated = v
<1> DEFINE p == promised[k]
<1>1. p \in Promise
  BY DEF TypeOK
<1>2. CASE promised' = [promised EXCEPT ![k].shown = v]
  <2> DEFINE e == [p EXCEPT !.shown = v]
  <2>1. promised' = [promised EXCEPT ![k] = e]
    BY <1>2
  <2>2. e \in Promise /\ e.updated = p.updated
    BY <1>1, PromiseType
  <2> HIDE DEF e
  <2>3. promised'[k] = e /\ promised' \in [Keys -> Promise]
        /\ \A j \in Keys : j # k => promised'[j] = promised[j]
    BY <2>1, <2>2 DEF TypeOK
  <2>4. promised' = [promised EXCEPT ![k].updated = v] => promised'[k].updated = v
    BY <1>1, PromiseType DEF TypeOK
  <2>5. QED
    BY <2>2, <2>3, <2>4
<1>3. CASE promised' = [promised EXCEPT ![k].updated = v]
  <2> DEFINE e == [p EXCEPT !.updated = v]
  <2>1. promised' = [promised EXCEPT ![k] = e]
    BY <1>3
  <2>2. e \in Promise /\ e.updated = v
    BY <1>1, PromiseType
  <2> HIDE DEF e
  <2>3. promised'[k] = e /\ promised' \in [Keys -> Promise]
        /\ \A j \in Keys : j # k => promised'[j] = promised[j]
    BY <2>1, <2>2 DEF TypeOK
  <2>4. promised' = [promised EXCEPT ![k].shown = v]
          => promised'[k].updated = promised[k].updated
    BY <1>1, PromiseType DEF TypeOK
  <2>5. QED
    BY <2>2, <2>3, <2>4
<1>4. QED
  BY <1>2, <1>3

\* What GetMe leaves in the cache, and promises, when it returns.
LEMMA Stored ==
  ASSUME TypeOK, NEW c \in Callers, StoreProfile(c)
  PROVE  /\ cache' \in [Keys -> Entries]
         /\ \A j \in Keys : \/ cache'[j] = cache[j]
                            \/ /\ j = key[c] /\ cache'[j] # Absent
                               /\ cache'[j].profile = hand[c] /\ cache'[j].ttl = TTL
         /\ promised' \in [Keys -> Promise]
         /\ \A j \in Keys : promised'[j].updated = promised[j].updated
<1> USE Numbers
<1> DEFINE e == [profile |-> hand[c], ttl |-> KeepFor]
<1>1. hand[c] \in Versions \cup {None} /\ key[c] \in Keys
  BY DEF TypeOK
<1>2. e \in Entries /\ e.profile = hand[c] /\ e.ttl = TTL /\ e # Absent
  BY <1>1 DEF KeepFor, Entries
<1>3. cache' = [cache EXCEPT ![key[c]] = e] \/ cache' = cache
  BY DEF StoreProfile
<1>4. cache \in [Keys -> Entries]
  BY DEF TypeOK, Entries
<1> HIDE DEF e
<1>5. /\ cache' \in [Keys -> Entries]
      /\ \A j \in Keys : cache'[j] = cache[j] \/ (j = key[c] /\ cache'[j] = e)
  BY <1>1, <1>2, <1>3, <1>4
<1> DEFINE old == promised[key[c]].shown
           v == IF bypass[c] /\ hand[c] > old THEN hand[c] ELSE old
<1>6. old \in Versions
  BY <1>1 DEF TypeOK, Promise
<1>7. v \in Versions
  BY <1>1, <1>6
<1>8. promised' = [promised EXCEPT ![key[c]].shown = v]
  BY DEF StoreProfile
<1> HIDE DEF v
<1>9. /\ promised' \in [Keys -> Promise]
      /\ \A j \in Keys : promised'[j].updated = promised[j].updated
  BY <1>1, <1>7, <1>8, Promised
<1>10. QED
  BY <1>2, <1>5, <1>9

\* What an update promises when it returns.
LEMMA Done ==
  ASSUME TypeOK, NEW c \in Callers, UpdateDone(c)
  PROVE  /\ promised' \in [Keys -> Promise]
         /\ \A j \in Keys :
              \/ promised'[j].updated = promised[j].updated
              \/ /\ j = key[c] /\ ~overlap[j] /\ hand[c] \in Versions
                 /\ promised'[j].updated = hand[c] /\ promised[j].updated < hand[c]
<1> USE Numbers
<1> DEFINE old == promised[key[c]].updated
           v == IF ~overlap[key[c]] /\ hand[c] > old THEN hand[c] ELSE old
<1>1. hand[c] \in Versions \cup {None} /\ key[c] \in Keys
  BY DEF TypeOK
<1>2. old \in Versions
  BY <1>1 DEF TypeOK, Promise
<1>3. /\ v \in Versions
      /\ v = old \/ (~overlap[key[c]] /\ hand[c] \in Versions /\ hand[c] > old /\ v = hand[c])
  BY <1>1, <1>2
<1>4. promised' = [promised EXCEPT ![key[c]].updated = v]
  BY DEF UpdateDone
<1> HIDE DEF v
<1>5. /\ promised' \in [Keys -> Promise] /\ promised'[key[c]].updated = v
      /\ \A j \in Keys : j # key[c] => promised'[j] = promised[j]
  BY <1>1, <1>3, <1>4, Promised
<1>6. QED
  BY <1>1, <1>2, <1>3, <1>5

\* A unit of time shortens the time that profiles are still kept.
LEMMA Ticked ==
  ASSUME TypeOK, Tick
  PROVE  /\ cache' \in [Keys -> Entries]
         /\ \A k \in Keys : /\ cache'[k].profile = cache[k].profile
                            /\ cache[k].ttl > 0 => cache'[k].ttl = cache[k].ttl - 1
                            /\ cache[k].ttl = 0 => cache'[k] = cache[k]
<1>1. ASSUME NEW k \in Keys
      PROVE  /\ cache'[k] \in Entries /\ cache'[k].profile = cache[k].profile
             /\ cache[k].ttl > 0 => cache'[k].ttl = cache[k].ttl - 1
             /\ cache[k].ttl = 0 => cache'[k] = cache[k]
  <2> DEFINE e == cache[k]
             n == cache[k].ttl - 1
  <2>1. e \in Entries /\ e.ttl \in 0 .. TTL
    BY DEF TypeOK, Entries
  <2>2. cache'[k] = IF e.ttl > 0 THEN [e EXCEPT !.ttl = n] ELSE e
    BY DEF Tick
  <2>3. e.ttl > 0 => n \in 0 .. TTL
    BY <2>1, Numbers
  <2>4. e.ttl = 0 => ~(e.ttl > 0)
    OBVIOUS
  <2> HIDE DEF e, n
  <2>5. CASE e.ttl > 0
    BY <2>1, <2>2, <2>3, <2>4, <2>5 DEF Entries, e, n
  <2>6. CASE ~(e.ttl > 0)
    BY <2>1, <2>2, <2>6 DEF e
  <2>7. QED
    BY <2>5, <2>6
<1>2. cache' = [k \in Keys |-> cache'[k]]
  BY DEF Tick
<1>3. QED
  BY <1>1, <1>2

\* The types of the cache, of the calls and of the history are invariant.
LEMMA TypeStep == TypeOK /\ [Next]_vars => TypeOK'
<1> SUFFICES ASSUME TypeOK, [Next]_vars PROVE TypeOK'
  OBVIOUS
<1> USE Numbers
<1>1. ASSUME NEW c \in Callers, NEW k \in Keys, NEW option \in BOOLEAN, BeginCall(c, k, option)
      PROVE  /\ key' \in [Callers -> Keys] /\ bypass' \in [Callers -> BOOLEAN]
             /\ least' \in [Callers -> Promise]
  <2>1. bypass' \in [Callers -> BOOLEAN]
    BY <1>1, Zenon DEF BeginCall, TypeOK
  <2>2. key' \in [Callers -> Keys] /\ least' \in [Callers -> Promise]
    BY <1>1 DEF BeginCall, TypeOK
  <2>3. QED
    BY <2>1, <2>2
<1>2. ASSUME NEW c \in Callers, Return(c)
      PROVE  /\ pc' \in [Callers -> Places] /\ hand' \in [Callers -> Versions \cup {None}]
             /\ elapsed' \in [Callers -> 0 .. Latency]
  BY <1>2 DEF Return, TypeOK, Places
<1>3. ASSUME NEW c \in Callers, NEW k \in Keys, GetMeCached(c, k) PROVE TypeOK'
  <2>1. result' \in [Callers -> Versions \cup {None}]
    BY <1>3 DEF GetMeCached, TypeOK
  <2>2. QED
    BY <1>1, <1>3, <2>1 DEF GetMeCached, TypeOK
<1>4. ASSUME NEW c \in Callers, NEW k \in Keys, NEW option \in BOOLEAN,
             GetMeFetch(c, k, option)
      PROVE  TypeOK'
  <2>1. overlap' \in [Keys -> BOOLEAN]
    BY <1>4, Zenon DEF GetMeFetch, TypeOK
  <2>2. result' \in [Callers -> Versions \cup {None}] /\ pc' \in [Callers -> Places]
    BY <1>4 DEF GetMeFetch, TypeOK, Places
  <2>3. QED
    BY <1>1, <1>4, <2>1, <2>2 DEF GetMeFetch, TypeOK, Places
<1>5. ASSUME NEW c \in Callers, Answer(c) PROVE TypeOK'
  BY <1>5 DEF Answer, arguments, history, TypeOK
<1>6. ASSUME NEW c \in Callers, StoreProfile(c) PROVE TypeOK'
  <2>1. /\ result' \in [Callers -> Versions \cup {None}]
        /\ hand[c] \in Versions \cup {None} /\ key[c] \in Keys
    BY <1>6 DEF StoreProfile, TypeOK
  <2>3. cache' \in [Keys -> Entries] /\ promised' \in [Keys -> Promise]
    BY <1>6, Stored
  <2>5. QED
    BY <1>2, <1>6, <2>1, <2>3 DEF StoreProfile, arguments, TypeOK, Entries, Places
<1>7. ASSUME NEW c \in Callers, GetMeFails(c) \/ UpdateFails(c) PROVE TypeOK'
  BY <1>2, <1>7 DEF GetMeFails, UpdateFails, arguments, history, TypeOK, Places
<1>8. ASSUME NEW c \in Callers, NEW k \in Keys, Update(c, k) PROVE TypeOK'
  <2>1. overlap' \in [Keys -> BOOLEAN]
    BY <1>8, Zenon DEF Update, Reading, TypeOK
  <2>2. /\ result' \in [Callers -> Versions \cup {None}] /\ pc' \in [Callers -> Places]
        /\ cache' \in [Keys -> Entries]
    BY <1>8 DEF Update, Deleted, TypeOK, Places, Entries
  <2>3. QED
    BY <1>1, <1>8, <2>1, <2>2 DEF Update, TypeOK, Places, Entries
<1>9. ASSUME Change PROVE version' \in Versions /\ replaced' \in [Versions -> 0 .. Horizon]
  BY <1>9 DEF Change, TypeOK
<1>10. ASSUME NEW c \in Callers, Patch(c) PROVE TypeOK'
  BY <1>9, <1>10 DEF Patch, arguments, TypeOK
<1>11. ASSUME NEW c \in Callers, SendAgain(c) PROVE TypeOK'
  BY <1>11 DEF SendAgain, arguments, history, TypeOK
<1>12. ASSUME NEW c \in Callers, UpdateDone(c) PROVE TypeOK'
  <2>1. promised' \in [Keys -> Promise]
    BY <1>12, Done
  <2>2. QED
    BY <1>2, <1>12, <2>1 DEF UpdateDone, arguments, TypeOK, Places
<1>13. CASE ChangeElsewhere
  BY <1>9, <1>13 DEF ChangeElsewhere, arguments, TypeOK
<1>14. ASSUME NEW k \in Keys, Evict(k) PROVE TypeOK'
  BY <1>14 DEF Evict, arguments, history, TypeOK, Entries
<1>15. CASE Tick
  <2>1. cache' \in [Keys -> Entries]
    BY <1>15, Ticked
  <2>2. elapsed' \in [Callers -> 0 .. Latency]
    BY <1>15 DEF Tick, TypeOK
  <2>3. replaced' \in [Versions -> 0 .. Horizon]
    BY <1>15 DEF Tick, TypeOK
  <2>4. QED
    BY <1>15, <2>1, <2>2, <2>3 DEF Tick, arguments, TypeOK, Entries
<1>16. CASE UNCHANGED vars
  BY <1>16 DEF vars, arguments, history, TypeOK
<1>17. QED
  BY <1>3, <1>4, <1>5, <1>6, <1>7, <1>8, <1>10, <1>11, <1>12, <1>13, <1>14, <1>15, <1>16
  DEF Next

LEMMA TypeInit == Init => TypeOK
BY Numbers DEF Init, TypeOK, Promise, Entries

\* The types of the profile cache, of its calls and of the history.
THEOREM TypeCorrect == Spec => []TypeOK
BY TypeInit, TypeStep, PTL DEF Spec

-----------------------------------------------------------------------------
(* How stale a profile can be *)

\* A call holds, and the cache keeps, a profile the account has had.
HandKnown ==
  \A c \in Callers : pc[c] \in {"answered", "patched"} =>
    hand[c] \in Versions /\ hand[c] =< version
CacheKnown ==
  \A k \in Keys : cache[k] # Absent =>
    cache[k].profile \in Versions /\ cache[k].profile =< version

\* An answer was replaced no longer ago than it was given; what the cache can
\* serve was replaced so long ago that it is gone in time.
HandStale ==
  \A c \in Callers : pc[c] = "answered" =>
    hand[c] = version \/ replaced[hand[c]] =< elapsed[c]
CacheStale ==
  \A k \in Keys : Found(k) =>
    \/ cache[k].profile = version
    \/ replaced[cache[k].profile] + cache[k].ttl =< TTL + Latency

StaleInv == HandKnown /\ CacheKnown /\ HandStale /\ CacheStale

\* A new version is newer than what is held or kept, and replaced nothing else.
LEMMA Changed ==
  ASSUME TypeOK, StaleInv, Change
  PROVE  /\ version \in Versions /\ version' = version + 1 /\ version' \in Versions
         /\ replaced'[version] = 0
         /\ \A v \in Versions : v # version => replaced'[v] = replaced[v]
BY Numbers DEF Change, TypeOK

LEMMA StaleStep == TypeOK /\ StaleInv /\ [Next]_vars => StaleInv'
<1> SUFFICES ASSUME TypeOK, StaleInv, [Next]_vars PROVE StaleInv'
  OBVIOUS
<1> USE Numbers DEF StaleInv
<1>1. ASSUME NEW c \in Callers, UNCHANGED <<version, cache, replaced>>,
             \A d \in Callers : d # c => /\ pc'[d] = pc[d] /\ hand'[d] = hand[d]
                                         /\ elapsed'[d] = elapsed[d],
             pc'[c] \notin {"answered", "patched"}
      PROVE  StaleInv'
  BY <1>1 DEF HandKnown, CacheKnown, HandStale, CacheStale, Found
<1>2. ASSUME NEW c \in Callers, NEW k \in Keys, GetMeCached(c, k) PROVE StaleInv'
  BY <1>2 DEF GetMeCached, HandKnown, CacheKnown, HandStale, CacheStale, Found
<1>3. ASSUME NEW c \in Callers, NEW k \in Keys, NEW option \in BOOLEAN,
             GetMeFetch(c, k, option)
      PROVE  StaleInv'
  BY <1>1, <1>3 DEF GetMeFetch, TypeOK
<1>4. ASSUME NEW c \in Callers, Answer(c) PROVE StaleInv'
  <2>1. /\ UNCHANGED <<version, cache, replaced>>
        /\ pc'[c] = "answered" /\ hand'[c] = version
        /\ \A d \in Callers : d # c => /\ pc'[d] = pc[d] /\ hand'[d] = hand[d]
                                       /\ elapsed'[d] = elapsed[d]
    BY <1>4 DEF Answer, history, TypeOK
  <2>2. version \in Versions
    BY DEF TypeOK
  <2>3. QED
    BY <2>1, <2>2 DEF HandKnown, CacheKnown, HandStale, CacheStale, Found
<1>5. ASSUME NEW c \in Callers, Return(c)
      PROVE  /\ pc'[c] = "idle"
             /\ \A d \in Callers : d # c => /\ pc'[d] = pc[d] /\ hand'[d] = hand[d]
                                            /\ elapsed'[d] = elapsed[d]
  BY <1>5 DEF Return, TypeOK
<1>6. ASSUME NEW c \in Callers, StoreProfile(c) PROVE StaleInv'
  <2>1. UNCHANGED <<version, replaced>> /\ Return(c) /\ pc[c] = "answered"
    BY <1>6 DEF StoreProfile
  <2>2. HandKnown' /\ HandStale'
    BY <2>1, <1>5 DEF HandKnown, HandStale
  <2>3. /\ hand[c] \in Versions /\ hand[c] =< version
        /\ hand[c] = version \/ replaced[hand[c]] + TTL =< TTL + Latency
    BY <2>1 DEF HandKnown, HandStale, TypeOK
  <2>4. \A j \in Keys : \/ cache'[j] = cache[j]
                        \/ cache'[j].profile = hand[c] /\ cache'[j].ttl = TTL
    BY <1>6, Stored
  <2>5. CacheKnown' /\ CacheStale'
    BY <2>1, <2>3, <2>4 DEF CacheKnown, CacheStale, Found
  <2>6. QED
    BY <2>2, <2>5
<1>7. ASSUME NEW c \in Callers, GetMeFails(c) \/ UpdateFails(c) PROVE StaleInv'
  BY <1>1, <1>5, <1>7 DEF GetMeFails, UpdateFails, history
<1>8. ASSUME NEW c \in Callers, NEW k \in Keys, Update(c, k) PROVE StaleInv'
  <2>1. /\ UNCHANGED <<version, replaced, hand, elapsed>>
        /\ cache' = [cache EXCEPT ![k] = Absent] /\ pc' = [pc EXCEPT ![c] = "patching"]
    BY <1>8 DEF Update, Deleted
  <2>2. HandKnown' /\ HandStale'
    BY <2>1 DEF HandKnown, HandStale, TypeOK
  <2>3. \A j \in Keys : cache'[j] = cache[j] \/ cache'[j] = Absent
    BY <2>1 DEF TypeOK
  <2>4. CacheKnown' /\ CacheStale'
    BY <2>1, <2>3 DEF CacheKnown, CacheStale, Found
  <2>5. QED
    BY <2>2, <2>4
<1>9. ASSUME Change, UNCHANGED cache PROVE CacheKnown' /\ CacheStale'
  <2>1. ASSUME NEW k \in Keys, cache[k] # Absent
        PROVE  cache[k].profile \in Versions /\ cache[k].profile =< version'
    BY <1>9, <2>1, Changed DEF CacheKnown
  <2>2. ASSUME NEW k \in Keys, cache[k].ttl > 0
        PROVE  replaced'[cache[k].profile] + cache[k].ttl =< TTL + Latency
    <3>1. cache[k] # Absent /\ cache[k].ttl =< TTL /\ cache[k].ttl \in Nat
      BY <2>2 DEF TypeOK
    <3>2. cache[k].profile \in Versions
      BY <3>1 DEF CacheKnown
    <3>3. QED
      BY <1>9, <2>2, <3>1, <3>2, Changed DEF CacheStale, Found
  <2>3. QED
    BY <1>9, <2>1, <2>2 DEF CacheKnown, CacheStale, Found
<1>10. ASSUME Change, NEW c \in Callers, pc[c] \in {"answered", "patched"}
       PROVE  /\ hand[c] \in Versions /\ hand[c] =< version'
              /\ pc[c] = "answered" => replaced'[hand[c]] =< elapsed[c]
  <2>1. hand[c] \in Versions /\ hand[c] =< version /\ elapsed[c] \in Nat
    BY <1>10 DEF HandKnown, TypeOK
  <2>2. QED
    BY <1>10, <2>1, Changed DEF HandStale
<1>11. ASSUME NEW c \in Callers, Patch(c) PROVE StaleInv'
  <2>1. /\ Change /\ UNCHANGED <<cache, elapsed>> /\ version' \in Versions
        /\ pc'[c] = "patched" /\ hand'[c] = version'
        /\ \A d \in Callers : d # c => pc'[d] = pc[d] /\ hand'[d] = hand[d]
    BY <1>11, Changed DEF Patch, TypeOK
  <2>2. HandKnown' /\ HandStale'
    BY <1>10, <2>1 DEF HandKnown, HandStale
  <2>3. QED
    BY <1>9, <2>1, <2>2
<1>12. CASE ChangeElsewhere
  <2>1. Change /\ UNCHANGED <<cache, elapsed, pc, hand>>
    BY <1>12 DEF ChangeElsewhere
  <2>2. HandKnown' /\ HandStale'
    BY <1>10, <2>1 DEF HandKnown, HandStale
  <2>3. QED
    BY <1>9, <2>1, <2>2
<1>13. ASSUME NEW c \in Callers, SendAgain(c) PROVE StaleInv'
  BY <1>1, <1>13 DEF SendAgain, history, TypeOK
<1>14. ASSUME NEW c \in Callers, UpdateDone(c) PROVE StaleInv'
  BY <1>1, <1>5, <1>14 DEF UpdateDone
<1>15. ASSUME NEW k \in Keys, Evict(k) PROVE StaleInv'
  <2>1. UNCHANGED <<version, replaced, hand, elapsed, pc>>
        /\ \A j \in Keys : cache'[j] = cache[j] \/ cache'[j] = Absent
    BY <1>15 DEF Evict, history, TypeOK
  <2>2. QED
    BY <2>1 DEF HandKnown, HandStale, CacheKnown, CacheStale, Found
<1>16. CASE Tick
  <2>1. UNCHANGED <<version, hand, pc>>
    BY <1>16 DEF Tick
  <2>2. \A v \in Versions : replaced[v] \in Nat /\ replaced'[v] \in Nat
                            /\ replaced'[v] =< replaced[v] + 1
    BY <1>16 DEF Tick, TypeOK
  <2>3. \A c \in Callers : pc[c] = "answered" => elapsed'[c] = elapsed[c] + 1
    BY <1>16 DEF Tick
  <2>4. HandKnown' /\ HandStale'
    <3>1. ASSUME NEW c \in Callers, pc[c] = "answered", hand[c] # version
          PROVE  replaced'[hand[c]] =< elapsed'[c]
      <4>1. hand[c] \in Versions /\ replaced[hand[c]] =< elapsed[c] /\ elapsed[c] \in Nat
        BY <3>1 DEF HandKnown, HandStale, TypeOK
      <4>2. /\ replaced[hand[c]] \in Nat /\ replaced'[hand[c]] \in Nat
            /\ replaced'[hand[c]] =< replaced[hand[c]] + 1
        BY <2>2, <4>1, Zenon
      <4>3. elapsed'[c] = elapsed[c] + 1
        BY <2>3, <3>1
      <4>4. QED
        BY <4>1, <4>2, <4>3
    <3>2. QED
      BY <2>1, <3>1 DEF HandKnown, HandStale
  <2>5. CacheKnown'
    <3>1. \A k \in Keys : cache'[k] # Absent =>
            cache[k] # Absent /\ cache'[k].profile = cache[k].profile
      BY <1>16, Ticked
    <3>2. QED
      BY <2>1, <3>1 DEF CacheKnown
  <2>6. CacheStale'
    <3>1. ASSUME NEW k \in Keys, cache'[k].ttl > 0, cache'[k].profile # version
          PROVE  replaced'[cache'[k].profile] + cache'[k].ttl =< TTL + Latency
      <4>1. cache[k].ttl \in 0 .. TTL
        BY DEF TypeOK
      <4>2. /\ cache[k].ttl > 0 /\ cache'[k].ttl = cache[k].ttl - 1
            /\ cache'[k].profile = cache[k].profile /\ cache[k] # Absent
        BY <1>16, <3>1, <4>1, Ticked
      <4>3. /\ cache[k].profile \in Versions
            /\ replaced[cache[k].profile] + cache[k].ttl =< TTL + Latency
        BY <3>1, <4>2 DEF CacheKnown, CacheStale, Found
      <4> DEFINE p == cache[k].profile
      <4>4. /\ replaced[p] \in Nat /\ replaced'[p] \in Nat
            /\ replaced'[p] =< replaced[p] + 1
        BY <2>2, <4>3, Zenon
      <4>5. /\ cache'[k].profile = p /\ cache'[k].ttl = cache[k].ttl - 1
            /\ replaced[p] + cache[k].ttl =< TTL + Latency
        BY <4>2, <4>3
      <4> HIDE DEF p
      <4>6. QED
        BY <4>1, <4>4, <4>5
    <3>2. QED
      BY <2>1, <3>1 DEF CacheStale, Found
  <2>7. QED
    BY <2>4, <2>5, <2>6
<1>17. CASE UNCHANGED vars
  BY <1>17 DEF vars, history, HandKnown, HandStale, CacheKnown, CacheStale, Found
<1>18. QED
  BY <1>2, <1>3, <1>4, <1>6, <1>7, <1>8, <1>11, <1>12, <1>13, <1>14, <1>15, <1>16, <1>17
  DEF Next

LEMMA StaleInit == Init => StaleInv
BY Numbers DEF Init, StaleInv, HandKnown, HandStale, CacheKnown, CacheStale, Found

\* A profile that GetMe can serve from the cache was replaced at the server no
\* longer ago than the cache time and the delay of one answer.
THEOREM StalenessIsBounded == Spec => []StaleIsBounded
<1>1. TypeOK /\ StaleInv => StaleIsBounded
  <2> SUFFICES ASSUME TypeOK, StaleInv, NEW k \in Keys, Found(k), cache[k].profile # version
               PROVE  replaced[cache[k].profile] =< TTL + Latency
    BY DEF StaleIsBounded
  <2>1. cache[k].ttl \in Nat /\ cache[k].ttl > 0 /\ cache[k] # Absent
    BY Numbers DEF Found, TypeOK
  <2>2. /\ cache[k].profile \in Versions
        /\ replaced[cache[k].profile] + cache[k].ttl =< TTL + Latency
    BY <2>1 DEF StaleInv, CacheKnown, CacheStale
  <2>3. replaced[cache[k].profile] \in Nat
    BY <2>2, Numbers DEF TypeOK
  <2>4. QED
    BY <2>1, <2>2, <2>3, Numbers
<1>2. QED
  BY <1>1, TypeInit, TypeStep, StaleInit, StaleStep, PTL DEF Spec

-----------------------------------------------------------------------------
(* What an update that ended promises *)

Updating(k) == \E c \in Callers : pc[c] \in {"patching", "patched"} /\ key[c] = k

\* The promise of a key is a version the account has had, and is not older than
\* what a call of the key was told when it began.
PromiseKnown == \A k \in Keys : promised[k].updated =< version
PromiseGrows == \A c \in Callers : least[c].updated =< promised[key[c]].updated

\* What the cache keeps, and what a read holds, is at least what was promised.
CacheSeen ==
  \A k \in Keys : cache[k] # Absent => cache[k].profile >= promised[k].updated
HandSeen ==
  \A c \in Callers : pc[c] = "answered" => hand[c] >= promised[key[c]].updated

\* While an update goes on that no read overlaps, there is nothing older left
\* that could be kept when it is over.
UpdateAlone ==
  \A k \in Keys : Updating(k) /\ ~overlap[k] => cache[k] = Absent /\ ~Reading(k)

SeenInv == /\ PromiseKnown /\ PromiseGrows /\ CacheSeen /\ HandSeen
           /\ UpdateAlone /\ UpdateIsSeen

\* Every promise is a version.
LEMMA Promises ==
  ASSUME TypeOK
  PROVE  /\ \A k \in Keys : promised[k].updated \in Nat
         /\ \A c \in Callers : least[c].updated \in Nat /\ key[c] \in Keys
         /\ version \in Nat
BY Numbers DEF TypeOK, Promise

\* A call that begins knows what its key promises.
LEMMA Begun ==
  ASSUME TypeOK, SeenInv, NEW c \in Callers, NEW k \in Keys, NEW option \in BOOLEAN,
         BeginCall(c, k, option), UNCHANGED promised
  PROVE  /\ pc[c] = "idle" /\ key'[c] = k /\ least'[c] = promised[k]
         /\ \A d \in Callers : d # c => key'[d] = key[d] /\ least'[d] = least[d]
         /\ PromiseGrows'
<1>1. /\ pc[c] = "idle" /\ key'[c] = k /\ least'[c] = promised[k]
      /\ \A d \in Callers : d # c => key'[d] = key[d] /\ least'[d] = least[d]
  BY DEF BeginCall, TypeOK
<1>2. PromiseGrows'
  BY <1>1, Promises DEF SeenInv, PromiseGrows
<1>3. QED
  BY <1>1, <1>2

LEMMA SeenStep == TypeOK /\ StaleInv /\ SeenInv /\ [Next]_vars => SeenInv'
<1> SUFFICES ASSUME TypeOK, StaleInv, SeenInv, [Next]_vars PROVE SeenInv'
  OBVIOUS
<1> USE Numbers DEF SeenInv
<1>1. ASSUME NEW c \in Callers, NEW k \in Keys, GetMeCached(c, k) PROVE SeenInv'
  <2>1. /\ UNCHANGED <<version, cache, pc, hand, promised, overlap>>
        /\ BeginCall(c, k, FALSE) /\ Found(k)
        /\ result'[c] = cache[k].profile
        /\ \A d \in Callers : d # c => result'[d] = result[d]
    BY <1>1 DEF GetMeCached, TypeOK
  <2>2. /\ pc[c] = "idle" /\ key'[c] = k /\ least'[c] = promised[k]
        /\ \A d \in Callers : d # c => key'[d] = key[d] /\ least'[d] = least[d]
        /\ PromiseGrows'
    BY <2>1, Begun
  <2>3. cache[k].profile >= promised[k].updated
    BY <2>1 DEF CacheSeen, Found
  <2>4. UpdateIsSeen'
    BY <2>1, <2>2, <2>3 DEF UpdateIsSeen
  <2>5. HandSeen' /\ UpdateAlone'
    BY <2>1, <2>2 DEF HandSeen, UpdateAlone, Updating, Reading
  <2>6. QED
    BY <2>1, <2>2, <2>4, <2>5 DEF PromiseKnown, CacheSeen
<1>2. ASSUME NEW c \in Callers, NEW k \in Keys, NEW option \in BOOLEAN,
             GetMeFetch(c, k, option)
      PROVE  SeenInv'
  <2>1. /\ UNCHANGED <<version, cache, hand, promised>>
        /\ BeginCall(c, k, option) /\ result'[c] = None /\ pc'[c] = "fetching"
        /\ \A d \in Callers : d # c => result'[d] = result[d] /\ pc'[d] = pc[d]
    BY <1>2 DEF GetMeFetch, TypeOK
  <2>2. overlap'[k] = (overlap[k] \/ Updating(k))
        /\ \A j \in Keys : j # k => overlap'[j] = overlap[j]
    BY <1>2, Zenon DEF GetMeFetch, TypeOK, Updating
  <2>3. /\ pc[c] = "idle" /\ key'[c] = k /\ least'[c] = promised[k]
        /\ \A d \in Callers : d # c => key'[d] = key[d] /\ least'[d] = least[d]
        /\ PromiseGrows'
    BY <2>1, Begun
  <2>4. UpdateIsSeen' /\ HandSeen'
    BY <2>1, <2>3 DEF UpdateIsSeen, HandSeen
  <2>5. UpdateAlone'
    <3>1. ASSUME NEW j \in Keys, Updating(j)', ~overlap'[j]
          PROVE  cache'[j] = Absent /\ ~Reading(j)'
      <4>1. Updating(j)
        BY <2>1, <2>3, <3>1 DEF Updating
      <4>2. j # k /\ ~overlap[j]
        BY <2>2, <3>1, <4>1
      <4>3. cache[j] = Absent /\ ~Reading(j)
        BY <4>1, <4>2 DEF UpdateAlone
      <4>4. QED
        BY <2>1, <2>3, <4>2, <4>3 DEF Reading
    <3>2. QED
      BY <3>1 DEF UpdateAlone
  <2>6. QED
    BY <2>1, <2>3, <2>4, <2>5 DEF PromiseKnown, CacheSeen
<1>3. ASSUME NEW c \in Callers, Answer(c) PROVE SeenInv'
  <2>1. /\ UNCHANGED <<version, cache, key, promised, least, overlap, result>>
        /\ pc[c] = "fetching" /\ pc'[c] = "answered" /\ hand'[c] = version
        /\ \A d \in Callers : d # c => pc'[d] = pc[d] /\ hand'[d] = hand[d]
    BY <1>3 DEF Answer, arguments, history, TypeOK
  <2>2. HandSeen'
    BY <2>1, Promises DEF HandSeen, PromiseKnown
  <2>3. UpdateAlone'
    BY <2>1 DEF UpdateAlone, Updating, Reading
  <2>4. QED
    BY <2>1, <2>2, <2>3 DEF PromiseKnown, PromiseGrows, CacheSeen, UpdateIsSeen
<1>4. ASSUME NEW c \in Callers, Return(c)
      PROVE  /\ pc'[c] = "idle" /\ hand'[c] = None
             /\ \A d \in Callers : d # c => pc'[d] = pc[d] /\ hand'[d] = hand[d]
  BY <1>4 DEF Return, TypeOK
<1>5. ASSUME NEW c \in Callers, StoreProfile(c) PROVE SeenInv'
  <2>1. /\ UNCHANGED <<version, key, least, overlap>> /\ Return(c) /\ pc[c] = "answered"
        /\ result'[c] = hand[c] /\ \A d \in Callers : d # c => result'[d] = result[d]
    BY <1>5 DEF StoreProfile, arguments, TypeOK
  <2>2. \A j \in Keys : promised'[j].updated = promised[j].updated
    BY <1>5, Stored
  <2>3. hand[c] >= promised[key[c]].updated /\ hand[c] \in Nat
    BY <2>1 DEF HandSeen, StaleInv, HandKnown
  <2>4. UpdateIsSeen'
    BY <2>1, <2>3, Promises DEF UpdateIsSeen, PromiseGrows
  <2>5. HandSeen' /\ PromiseKnown' /\ PromiseGrows'
    BY <1>4, <2>1, <2>2, Promises DEF HandSeen, PromiseKnown, PromiseGrows
  <2>6. CacheSeen'
    <3>1. \A j \in Keys : cache'[j] = cache[j] \/ (j = key[c] /\ cache'[j].profile = hand[c])
      BY <1>5, Stored
    <3>2. QED
      BY <2>2, <2>3, <3>1 DEF CacheSeen
  <2>7. UpdateAlone'
    <3>1. ASSUME NEW j \in Keys, Updating(j)', ~overlap'[j]
          PROVE  cache'[j] = Absent /\ ~Reading(j)'
      <4>1. Updating(j) /\ ~overlap[j]
        BY <1>4, <2>1, <3>1 DEF Updating
      <4>2. cache[j] = Absent /\ ~Reading(j)
        BY <4>1 DEF UpdateAlone
      <4>3. j # key[c]
        BY <2>1, <4>2 DEF Reading
      <4>4. cache'[j] = cache[j]
        BY <1>5, <4>3, Stored
      <4>5. QED
        BY <1>4, <2>1, <4>2, <4>4 DEF Reading
    <3>2. QED
      BY <3>1 DEF UpdateAlone
  <2>8. QED
    BY <2>4, <2>5, <2>6, <2>7
<1>6. ASSUME NEW c \in Callers, GetMeFails(c) \/ UpdateFails(c) PROVE SeenInv'
  <2>1. /\ UNCHANGED <<version, cache, key, promised, least, overlap, result>> /\ Return(c)
    BY <1>6 DEF GetMeFails, UpdateFails, arguments, history
  <2>2. HandSeen'
    BY <1>4, <2>1 DEF HandSeen
  <2>3. UpdateAlone'
    BY <1>4, <2>1 DEF UpdateAlone, Updating, Reading
  <2>4. QED
    BY <2>1, <2>2, <2>3 DEF PromiseKnown, PromiseGrows, CacheSeen, UpdateIsSeen
<1>7. ASSUME NEW c \in Callers, NEW k \in Keys, Update(c, k) PROVE SeenInv'
  <2>1. /\ UNCHANGED <<version, hand, promised>> /\ BeginCall(c, k, FALSE)
        /\ result'[c] = None /\ pc'[c] = "patching" /\ cache'[k] = Absent
        /\ \A d \in Callers : d # c => result'[d] = result[d] /\ pc'[d] = pc[d]
        /\ \A j \in Keys : j # k => cache'[j] = cache[j]
    BY <1>7 DEF Update, Deleted, TypeOK
  <2>2. overlap'[k] = Reading(k) /\ \A j \in Keys : j # k => overlap'[j] = overlap[j]
    BY <1>7, Zenon DEF Update, TypeOK
  <2>3. /\ pc[c] = "idle" /\ key'[c] = k /\ least'[c] = promised[k]
        /\ \A d \in Callers : d # c => key'[d] = key[d] /\ least'[d] = least[d]
        /\ PromiseGrows'
    BY <2>1, Begun
  <2>4. UpdateIsSeen' /\ HandSeen'
    BY <2>1, <2>3 DEF UpdateIsSeen, HandSeen
  <2>5. UpdateAlone'
    <3>1. ASSUME NEW j \in Keys, Updating(j)', ~overlap'[j]
          PROVE  cache'[j] = Absent /\ ~Reading(j)'
      <4>1. \A i \in Keys : Reading(i)' => Reading(i)
        BY <2>1, <2>3 DEF Reading
      <4>2. CASE j = k
        BY <2>1, <2>2, <3>1, <4>1, <4>2
      <4>3. CASE j # k
        <5>1. Updating(j)
          BY <2>1, <2>3, <3>1, <4>3 DEF Updating
        <5>2. QED
          BY <2>1, <2>2, <3>1, <4>1, <4>3, <5>1 DEF UpdateAlone
      <4>4. QED
        BY <4>2, <4>3
    <3>2. QED
      BY <3>1 DEF UpdateAlone
  <2>6. CacheSeen'
    BY <2>1 DEF CacheSeen
  <2>7. QED
    BY <2>1, <2>3, <2>4, <2>5, <2>6 DEF PromiseKnown
<1>8. ASSUME NEW c \in Callers, Patch(c) PROVE SeenInv'
  <2>1. /\ UNCHANGED <<cache, key, promised, least, overlap, result>> /\ Change
        /\ pc[c] = "patching" /\ pc'[c] = "patched"
        /\ \A d \in Callers : d # c => pc'[d] = pc[d] /\ hand'[d] = hand[d]
    BY <1>8 DEF Patch, arguments, TypeOK
  <2>2. HandSeen' /\ UpdateAlone'
    BY <2>1 DEF HandSeen, UpdateAlone, Updating, Reading
  <2>3. PromiseKnown'
    BY <2>1, Promises DEF PromiseKnown, Change
  <2>4. QED
    BY <2>1, <2>2, <2>3 DEF PromiseGrows, CacheSeen, UpdateIsSeen
<1>9. ASSUME NEW c \in Callers, SendAgain(c) PROVE SeenInv'
  <2>1. /\ UNCHANGED <<version, cache, key, promised, least, overlap, result, hand>>
        /\ pc[c] = "patched" /\ pc'[c] = "patching"
        /\ \A d \in Callers : d # c => pc'[d] = pc[d]
    BY <1>9 DEF SendAgain, arguments, history, TypeOK
  <2>2. HandSeen' /\ UpdateAlone'
    BY <2>1 DEF HandSeen, UpdateAlone, Updating, Reading
  <2>3. QED
    BY <2>1, <2>2 DEF PromiseKnown, PromiseGrows, CacheSeen, UpdateIsSeen
<1>10. ASSUME NEW c \in Callers, UpdateDone(c) PROVE SeenInv'
  <2>1. /\ UNCHANGED <<version, cache, key, least, overlap, result>> /\ Return(c)
        /\ pc[c] = "patched"
    BY <1>10 DEF UpdateDone, arguments
  <2>2. \A j \in Keys :
          \/ promised'[j].updated = promised[j].updated
          \/ /\ j = key[c] /\ ~overlap[j] /\ hand[c] \in Versions
             /\ promised'[j].updated = hand[c] /\ promised[j].updated < hand[c]
    BY <1>10, Done
  <2>3. hand[c] \in Versions /\ hand[c] =< version
    BY <2>1 DEF StaleInv, HandKnown
  <2>4. PromiseKnown' /\ PromiseGrows'
    BY <2>1, <2>2, <2>3, Promises DEF PromiseKnown, PromiseGrows
  <2>5. Updating(key[c])
    BY <2>1 DEF Updating
  <2>6. CacheSeen'
    BY <2>1, <2>2, <2>5 DEF CacheSeen, UpdateAlone
  <2>7. HandSeen'
    <3>1. ASSUME NEW d \in Callers, pc'[d] = "answered"
          PROVE  hand'[d] >= promised'[key[d]].updated
      <4>1. d # c /\ pc[d] = "answered" /\ hand'[d] = hand[d]
        BY <1>4, <2>1, <3>1
      <4>2. Reading(key[d]) /\ key[d] \in Keys
        BY <4>1, Promises DEF Reading
      <4>3. promised'[key[d]].updated = promised[key[d]].updated
        BY <2>2, <2>5, <4>2 DEF UpdateAlone
      <4>4. QED
        BY <4>1, <4>3 DEF HandSeen
    <3>2. QED
      BY <2>1, <3>1 DEF HandSeen
  <2>8. UpdateAlone'
    BY <1>4, <2>1 DEF UpdateAlone, Updating, Reading
  <2>9. QED
    BY <2>1, <2>4, <2>6, <2>7, <2>8 DEF UpdateIsSeen
<1>11. CASE ChangeElsewhere
  <2>1. /\ UNCHANGED <<cache, pc, key, promised, least, overlap, result, hand>> /\ Change
    BY <1>11 DEF ChangeElsewhere, arguments
  <2>2. PromiseKnown'
    BY <2>1, Promises DEF PromiseKnown, Change
  <2>3. QED
    BY <2>1, <2>2
    DEF PromiseGrows, CacheSeen, HandSeen, UpdateAlone, Updating, Reading, UpdateIsSeen
<1>12. ASSUME NEW k \in Keys, Evict(k) PROVE SeenInv'
  <2>1. /\ UNCHANGED <<version, pc, key, promised, least, overlap, result, hand>>
        /\ \A j \in Keys : cache'[j] = cache[j] \/ cache'[j] = Absent
    BY <1>12 DEF Evict, arguments, history, TypeOK
  <2>2. CacheSeen' /\ UpdateAlone'
    BY <2>1 DEF CacheSeen, UpdateAlone, Updating, Reading
  <2>3. QED
    BY <2>1, <2>2 DEF PromiseKnown, PromiseGrows, HandSeen, UpdateIsSeen
<1>13. CASE Tick
  <2>1. UNCHANGED <<version, pc, key, promised, least, overlap, result, hand>>
    BY <1>13 DEF Tick, arguments
  <2>2. \A j \in Keys : /\ cache'[j].profile = cache[j].profile
                        /\ cache[j] = Absent => cache'[j] = Absent
    BY <1>13, Ticked
  <2>3. CacheSeen' /\ UpdateAlone'
    BY <2>1, <2>2 DEF CacheSeen, UpdateAlone, Updating, Reading
  <2>4. QED
    BY <2>1, <2>3 DEF PromiseKnown, PromiseGrows, HandSeen, UpdateIsSeen
<1>14. CASE UNCHANGED vars
  BY <1>14 DEF vars, arguments, history, PromiseKnown, PromiseGrows, CacheSeen, HandSeen,
               UpdateAlone, Updating, Reading, UpdateIsSeen
<1>15. QED
  BY <1>1, <1>2, <1>3, <1>5, <1>6, <1>7, <1>8, <1>9, <1>10, <1>11, <1>12, <1>13, <1>14
  DEF Next

LEMMA SeenInit == Init => SeenInv
BY Numbers DEF Init, SeenInv, PromiseKnown, PromiseGrows, CacheSeen, HandSeen, UpdateAlone,
               Updating, UpdateIsSeen

\* A GetMe that began after UpdateAccountProfile returned sees that update,
\* unless another GetMe of the key was under way while the update was.
THEOREM UpdatesAreSeen == Spec => []UpdateIsSeen
<1>1. SeenInv => UpdateIsSeen
  BY DEF SeenInv
<1>2. QED
  BY <1>1, TypeInit, TypeStep, StaleInit, StaleStep, SeenInit, SeenStep, PTL DEF Spec

-----------------------------------------------------------------------------
(* RetryClient: the inductive invariant of its calls *)

CallTypes ==
  /\ kind \in [Calls -> Kinds]
  /\ step \in [Calls -> {"idle", "ready", "sent", "waiting"}]
  /\ retries \in [Calls -> 0 .. MaxRetries]
  /\ timer \in [Calls -> Nat]
  /\ age \in [Calls -> Nat]
  /\ cancelled \in [Calls -> BOOLEAN]
  /\ reply \in [Calls -> Replies \cup {"none"}]
  /\ outcome \in [Calls -> {"none", "success", "refused", "failed"}]
  /\ sent \in [Calls -> Nat]
  /\ heard \in [Calls -> Replies \cup {"none"}]
  /\ accepted \in [Calls -> BOOLEAN]

\* What is left of an attempt or of a delay never passes the call's limits.
Timely ==
  \A c \in Calls :
    /\ step[c] = "idle" => age[c] = 0
    /\ step[c] = "ready" => age[c] =< MaxElapsed
    /\ step[c] = "sent" => age[c] + timer[c] =< MaxElapsed + HTTPTimeout
    /\ step[c] = "waiting" => age[c] + timer[c] =< MaxElapsed

\* Between attempts a call has sent as many requests as backoff counted.
Counted ==
  \A c \in Calls :
    /\ step[c] \in {"ready", "waiting"} => sent[c] = retries[c]
    /\ step[c] = "sent" => sent[c] = retries[c] + 1
    /\ sent[c] =< MaxRetries + 1

\* A good answer is the answer of a server that accepted the request.
Honest ==
  \A c \in Calls :
    /\ reply[c] # "none" => step[c] = "sent"
    /\ reply[c] \in {"ok", "garbled"} => accepted[c]

\* What a strict call last heard leaves it a reason to go on.
Silent ==
  \A c \in Calls :
    /\ step[c] = "sent" => heard[c] = "none"
    /\ step[c] = "waiting" /\ kind[c] = "strict" => heard[c] \in {"none", "transient"}

CallInv == CallTypes /\ Timely /\ Counted /\ Honest /\ Silent

\* No call has started, so nothing is counted, answered or heard.
LEMMA InitCallInv == RCInit => CallInv
BY RCAssumption
   DEF RCInit, CallInv, CallTypes, Timely, Counted, Honest, Silent, Kinds, Replies

\* Starting a call keeps the invariant.
LEMMA StartCallInv ==
  ASSUME CallInv, NEW c \in Calls, NEW k \in Kinds, Start(c, k) PROVE CallInv'
BY RCAssumption
   DEF Start, CallInv, CallTypes, Timely, Counted, Honest, Silent, Kinds, Replies

\* So does returning from one, whatever the call heard last.
LEMMA ReturnCallInv ==
  ASSUME CallInv, NEW c \in Calls, NEW o \in {"success", "refused", "failed"},
         RCReturn(c, o), UNCHANGED <<sent, accepted>>,
         NEW h \in Replies \cup {"none"}, heard' = [heard EXCEPT ![c] = h]
  PROVE  CallInv'
BY RCAssumption
   DEF RCReturn, CallInv, CallTypes, Timely, Counted, Honest, Silent, Replies

\* So does a failed attempt, when a strict call heard nothing or a transient.
LEMMA BackoffCallInv ==
  ASSUME CallInv, NEW c \in Calls, step[c] = "sent", Backoff(c),
         UNCHANGED <<sent, accepted>>,
         NEW h \in Replies \cup {"none"}, heard' = [heard EXCEPT ![c] = h],
         kind[c] = "strict" => h \in {"none", "transient"}
  PROVE  CallInv'
<1>1. PICK d \in 0 .. MaxInterval :
        \/ /\ Allowed(c, d)
           /\ step' = [step EXCEPT ![c] = "waiting"]
           /\ timer' = [timer EXCEPT ![c] = d]
           /\ retries' = [retries EXCEPT ![c] = @ + 1]
           /\ reply' = [reply EXCEPT ![c] = "none"]
           /\ UNCHANGED <<kind, age, cancelled, outcome>>
        \/ ~Allowed(c, d) /\ RCReturn(c, "failed")
  BY DEF Backoff
<1>2. CASE RCReturn(c, "failed")
  BY <1>2, ReturnCallInv
<1>3. CASE /\ Allowed(c, d)
           /\ step' = [step EXCEPT ![c] = "waiting"]
           /\ timer' = [timer EXCEPT ![c] = d]
           /\ retries' = [retries EXCEPT ![c] = @ + 1]
           /\ reply' = [reply EXCEPT ![c] = "none"]
           /\ UNCHANGED <<kind, age, cancelled, outcome>>
  <2> d \in Nat
    BY RCAssumption
  <2> USE <1>3, RCAssumption DEF CallInv, Allowed
  <2>1. CallTypes' BY DEF CallTypes, Replies
  <2>2. Timely' BY DEF CallTypes, Timely
  <2>3. Counted' BY DEF CallTypes, Counted
  <2>4. Honest' BY DEF CallTypes, Honest
  <2>5. Silent' BY DEF CallTypes, Silent
  <2>6. QED BY <2>1, <2>2, <2>3, <2>4, <2>5
<1>4. QED
  BY <1>1, <1>2, <1>3

\* Every other step keeps it too.
LEMMA StepCallInv == CallInv /\ [RCNext]_RCvars => CallInv'
<1> SUFFICES ASSUME CallInv, [RCNext]_RCvars PROVE CallInv'
  OBVIOUS
<1>1. ASSUME NEW c \in Calls, StartStrict(c) \/ StartResult(c) \/ StartBare(c)
      PROVE  CallInv'
  BY <1>1, StartCallInv DEF StartStrict, StartResult, StartBare, Kinds
<1>2. ASSUME NEW c \in Calls, Send(c) PROVE CallInv'
  BY <1>2, RCAssumption
     DEF Send, CallInv, CallTypes, Timely, Counted, Honest, Silent, Replies
<1>3. ASSUME NEW c \in Calls, UNCHANGED RChistory
      PROVE  /\ UNCHANGED <<sent, accepted>>
             /\ heard[c] \in Replies \cup {"none"}
             /\ heard' = [heard EXCEPT ![c] = heard[c]]
  BY <1>3 DEF RChistory, CallInv, CallTypes
<1>4. ASSUME NEW c \in Calls, SendCancelled(c) \/ WaitCancelled(c) PROVE CallInv'
  BY <1>3, <1>4, ReturnCallInv DEF SendCancelled, WaitCancelled
<1>5. ASSUME NEW c \in Calls, TransportError(c) \/ TimedOut(c) PROVE CallInv'
  <2>1. step[c] = "sent" /\ UNCHANGED RChistory /\ (Backoff(c) \/ RCReturn(c, "failed"))
    BY <1>5 DEF TransportError, TimedOut
  <2>2. heard[c] = "none"
    BY <2>1 DEF CallInv, Silent
  <2>3. QED
    BY <1>3, <2>1, <2>2, ReturnCallInv, BackoffCallInv
<1>6. ASSUME NEW c \in Calls, Retry(c) PROVE CallInv'
  BY <1>6, RCAssumption
     DEF Retry, loop, RChistory, CallInv, CallTypes, Timely, Counted, Honest, Silent
<1>7. ASSUME NEW c \in Calls, NEW whole \in BOOLEAN,
             Success(c, whole) \/ Stop(c, whole) \/ Again(c, whole)
      PROVE  CallInv'
  <2> DEFINE h == IF whole THEN reply[c] ELSE "none"
  <2>1. /\ h \in Replies \cup {"none"}
        /\ step[c] = "sent" /\ reply[c] \in Replies
        /\ UNCHANGED <<sent, accepted>>
        /\ heard' = [heard EXCEPT ![c] = h]
    BY <1>7 DEF Success, Stop, Again, Hear, CallInv, CallTypes
  <2>2. Again(c, whole) /\ kind[c] = "strict" => h \in {"none", "transient"}
    BY <2>1 DEF Again, Succeeds, Permanent, Replies
  <2> HIDE DEF h
  <2>3. CASE RCReturn(c, "success") \/ RCReturn(c, "refused")
    BY <2>1, <2>3, ReturnCallInv
  <2>4. CASE Again(c, whole)
    BY <2>1, <2>2, <2>4, BackoffCallInv DEF Again
  <2>5. QED
    BY <1>7, <2>3, <2>4 DEF Success, Stop
<1>8. ASSUME NEW c \in Calls, Cancel(c) PROVE CallInv'
  BY <1>8 DEF Cancel, loop, RChistory, CallInv, CallTypes, Timely, Counted, Honest, Silent
<1>9. ASSUME NEW c \in Calls, NEW r \in Replies, Arrive(c, r) PROVE CallInv'
  BY <1>9 DEF Arrive, CallInv, CallTypes, Timely, Counted, Honest, Silent, Replies
<1>10. CASE RCTick
  <2> USE <1>10, RCAssumption DEF CallInv, RCTick, Busy, RChistory
  <2>1. CallTypes' BY DEF CallTypes
  <2>2. Timely' BY DEF CallTypes, Timely
  <2>3. Counted' /\ Honest' /\ Silent' BY DEF CallTypes, Counted, Honest, Silent
  <2>4. QED BY <2>1, <2>2, <2>3
<1>11. CASE UNCHANGED RCvars
  BY <1>11 DEF RCvars, loop, RChistory, CallInv, CallTypes, Timely, Counted, Honest, Silent
<1>12. QED
  BY <1>1, <1>2, <1>4, <1>5, <1>6, <1>7, <1>8, <1>9, <1>10, <1>11
     DEF RCNext, Proceed

\* The limits, the count of requests and what was heard hold together.
LEMMA CallInvCorrect == RCSpec => []CallInv
BY InitCallInv, StepCallInv, PTL DEF RCSpec

\* What the invariant says of the numbers of one call.
LEMMA CallNumbers ==
  ASSUME CallInv, NEW c \in Calls
  PROVE  /\ age[c] \in Nat /\ timer[c] \in Nat /\ sent[c] \in Nat
         /\ age[c] =< MaxElapsed + HTTPTimeout
         /\ step[c] = "ready" => age[c] =< MaxElapsed
         /\ sent[c] =< MaxRetries + 1
<1>1. /\ age[c] \in Nat /\ timer[c] \in Nat /\ sent[c] \in Nat
      /\ step[c] \in {"idle", "ready", "sent", "waiting"}
  BY DEF CallInv, CallTypes
<1>2. /\ MaxElapsed \in Nat /\ HTTPTimeout \in Nat
      /\ step[c] = "idle" => age[c] = 0
      /\ step[c] = "ready" => age[c] =< MaxElapsed
      /\ step[c] = "sent" => age[c] + timer[c] =< MaxElapsed + HTTPTimeout
      /\ step[c] = "waiting" => age[c] + timer[c] =< MaxElapsed
  BY RCAssumption DEF CallInv, Timely
<1>3. sent[c] =< MaxRetries + 1
  BY DEF CallInv, Counted
<1>4. QED
  BY <1>1, <1>2, <1>3

\* The types of the calls are invariant; the bounds of retries, requests and
\* ages among them are those of the configuration.
THEOREM CallTypesCorrect == RCSpec => []RCTypeOK
<1>1. CallInv => RCTypeOK
  <2> SUFFICES ASSUME CallInv PROVE RCTypeOK
    OBVIOUS
  <2>1. ASSUME NEW c \in Calls
        PROVE  /\ age[c] \in 0 .. MaxElapsed + HTTPTimeout + 1
               /\ sent[c] \in 0 .. MaxRetries + 1
    <3>1. /\ age[c] \in Nat /\ age[c] =< MaxElapsed + HTTPTimeout
          /\ sent[c] \in Nat /\ sent[c] =< MaxRetries + 1
      BY CallNumbers
    <3>2. MaxElapsed \in Nat /\ HTTPTimeout \in Nat /\ MaxRetries \in Nat
      BY RCAssumption
    <3>3. QED
      BY <3>1, <3>2
  <2>2. QED
    BY <2>1 DEF CallInv, CallTypes, Timely, RCTypeOK
<1>2. QED
  BY <1>1, CallInvCorrect, PTL

\* A call is over once MaxElapsedTime and one more attempt have passed.
THEOREM CallsEndInTime == RCSpec => []EndsInTime
<1>1. CallInv => EndsInTime
  BY CallNumbers DEF EndsInTime
<1>2. QED
  BY <1>1, CallInvCorrect, PTL

\* A strict call sends nothing more after a whole answer that is not transient.
THEOREM StrictCallsNeverRepeat == RCSpec => StrictNeverRepeats
<1>1. CallInv /\ [RCNext]_RCvars =>
        [\A c \in Calls :
           kind[c] = "strict" /\ step[c] = "waiting" /\ step'[c] = "ready"
             => heard[c] \in {"none", "transient"}]_RCvars
  BY DEF CallInv, Silent
<1>2. QED
  BY <1>1, CallInvCorrect, PTL DEF RCSpec, StrictNeverRepeats

-----------------------------------------------------------------------------
(* Refinement *)

\* Returning is the abstract Return, unless a success was not accepted.
LEMMA CallReturnRefines ==
  ASSUME CallInv, NEW c \in Calls, NEW o \in {"success", "refused", "failed"},
         step[c] # "idle", RCReturn(c, o), UNCHANGED <<sent, accepted>>,
         o = "success" => accepted[c]
  PROVE  Call!Next
<1>1. c \in {d \in Calls : Busy(d)}
  BY DEF Busy
<1>2. {d \in Calls : Busy(d)}' = {d \in Calls : Busy(d)} \ {c}
  BY DEF Busy, RCReturn, CallInv, CallTypes
<1>3. Call!Return(c, o)
  BY <1>1, <1>2 DEF Call!Return, RCReturn
<1>4. QED
  BY <1>3 DEF Call!Next

\* A failed attempt is no step of the abstract call, or its return.
LEMMA CallBackoffRefines ==
  ASSUME CallInv, NEW c \in Calls, step[c] = "sent", Backoff(c),
         UNCHANGED <<sent, accepted>>
  PROVE  [Call!Next]_(Call!vars)
<1>1. CASE RCReturn(c, "failed")
  BY <1>1, CallReturnRefines
<1>2. CASE step' = [step EXCEPT ![c] = "waiting"] /\ UNCHANGED outcome
  BY <1>2 DEF Call!vars, Busy, CallInv, CallTypes
<1>3. QED
  BY <1>1, <1>2 DEF Backoff

\* RetryClient implements BoundedCall: the requests of a call are at most
\* MaxRetries + 1, and only an accepted call succeeds.
THEOREM CallsImplement == RCSpec => BoundedRetries
<1>1. RCInit => Call!Init
  BY DEF RCInit, Call!Init, Busy
<1>2. CallInv /\ [RCNext]_RCvars => [Call!Next]_(Call!vars)
  <2> SUFFICES ASSUME CallInv, [RCNext]_RCvars PROVE [Call!Next]_(Call!vars)
    OBVIOUS
  <2> USE DEF Busy
  <2>1. ASSUME NEW c \in Calls, NEW k \in Kinds, Start(c, k)
        PROVE  [Call!Next]_(Call!vars)
    <3>1. {d \in Calls : Busy(d)}' = {d \in Calls : Busy(d)} \cup {c}
      BY <2>1 DEF Start, CallInv, CallTypes
    <3>2. Call!Start(c)
      BY <2>1, <3>1 DEF Start, Call!Start
    <3>3. QED
      BY <3>2 DEF Call!Next
  <2>2. ASSUME NEW c \in Calls, Send(c) PROVE [Call!Next]_(Call!vars)
    <3>1. {d \in Calls : Busy(d)}' = {d \in Calls : Busy(d)}
      BY <2>2 DEF Send, CallInv, CallTypes
    <3>2. sent[c] < MaxRetries + 1
      BY <2>2, RCAssumption DEF Send, CallInv, CallTypes, Counted
    <3>3. Call!Send(c)
      BY <2>2, <3>1, <3>2 DEF Send, Call!Send
    <3>4. QED
      BY <3>3 DEF Call!Next
  <2>3. ASSUME NEW c \in Calls, SendCancelled(c) \/ WaitCancelled(c)
        PROVE  [Call!Next]_(Call!vars)
    BY <2>3, CallReturnRefines DEF SendCancelled, WaitCancelled, RChistory
  <2>4. ASSUME NEW c \in Calls, TransportError(c) \/ TimedOut(c)
        PROVE  [Call!Next]_(Call!vars)
    <3>1. /\ step[c] = "sent" /\ UNCHANGED <<sent, accepted>>
          /\ Backoff(c) \/ RCReturn(c, "failed")
      BY <2>4 DEF TransportError, TimedOut, RChistory
    <3>2. QED
      BY <3>1, CallReturnRefines, CallBackoffRefines
  <2>5. ASSUME NEW c \in Calls, Retry(c) PROVE [Call!Next]_(Call!vars)
    BY <2>5 DEF Retry, RChistory, Call!vars, CallInv, CallTypes
  <2>6. ASSUME NEW c \in Calls, NEW whole \in BOOLEAN,
               Success(c, whole) \/ Stop(c, whole) \/ Again(c, whole)
        PROVE  [Call!Next]_(Call!vars)
    <3>1. step[c] = "sent" /\ UNCHANGED <<sent, accepted>>
      BY <2>6 DEF Success, Stop, Again, Hear
    <3>2. CASE Success(c, whole)
      <4>1. accepted[c]
        BY <3>2 DEF Success, Succeeds, CallInv, Honest
      <4>2. QED
        BY <3>1, <3>2, <4>1, CallReturnRefines DEF Success
    <3>3. CASE Stop(c, whole)
      BY <3>1, <3>3, CallReturnRefines DEF Stop
    <3>4. CASE Again(c, whole)
      BY <3>1, <3>4, CallBackoffRefines DEF Again
    <3>5. QED
      BY <2>6, <3>2, <3>3, <3>4
  <2>7. ASSUME NEW c \in Calls, Cancel(c) PROVE [Call!Next]_(Call!vars)
    BY <2>7 DEF Cancel, loop, RChistory, Call!vars
  <2>8. ASSUME NEW c \in Calls, NEW r \in Replies, Arrive(c, r)
        PROVE  [Call!Next]_(Call!vars)
    <3>1. /\ {d \in Calls : Busy(d)}' = {d \in Calls : Busy(d)}
          /\ c \in {d \in Calls : Busy(d)}
          /\ UNCHANGED <<sent, outcome>>
      BY <2>8 DEF Arrive
    <3>2. sent[c] > 0
      BY <2>8, RCAssumption DEF Arrive, CallInv, CallTypes, Counted
    <3>3. CASE r \in {"ok", "garbled"}
      <4>1. Call!Accept(c)
        BY <2>8, <3>1, <3>2, <3>3 DEF Arrive, Call!Accept
      <4>2. QED
        BY <4>1 DEF Call!Next
    <3>4. CASE r \notin {"ok", "garbled"}
      <4>1. accepted' = accepted
        BY <2>8, <3>4 DEF Arrive, CallInv, CallTypes
      <4>2. QED
        BY <3>1, <4>1 DEF Call!vars
    <3>5. QED
      BY <3>3, <3>4
  <2>9. CASE RCTick
    BY <2>9 DEF RCTick, RChistory, Call!vars
  <2>10. CASE UNCHANGED RCvars
    BY <2>10 DEF RCvars, loop, RChistory, Call!vars
  <2>11. QED
    BY <2>1, <2>2, <2>3, <2>4, <2>5, <2>6, <2>7, <2>8, <2>9, <2>10
       DEF RCNext, Proceed, StartStrict, StartResult, StartBare, Kinds
<1>3. QED
  BY <1>1, <1>2, CallInvCorrect, PTL DEF RCSpec, BoundedRetries, Call!Spec
=============================================================================
