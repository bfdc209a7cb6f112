---------------------------- MODULE JWKS_proofs ----------------------------
(***************************************************************************)
(* Proofs about JWKS for every set of kids and goroutines and every        *)
(* refresh, cooldown and latency.                                          *)
(***************************************************************************)
EXTENDS JWKS, TLAPS

\* The types of the state are an invariant of the provider, its callers and
\* the history kept of them.
THEOREM TypeCorrect == Spec => []TypeOK
<1>1. Init => TypeOK
  BY ConstantsAssumption DEF Init, TypeOK, Horizon, Threads
<1>2. TypeOK /\ [Next]_vars => TypeOK'
  <2> SUFFICES ASSUME TypeOK, [Next]_vars PROVE TypeOK'
    OBVIOUS
  <2> USE ConstantsAssumption DEF TypeOK, Horizon, Threads, provider, external,
          calls
  <2>1. ASSUME NEW v \in Verifiers, NEW k \in Kids, Begin(v, k) PROVE TypeOK'
    BY <2>1 DEF Begin
  <2>2. ASSUME NEW v \in Verifiers, Refuse(v) PROVE TypeOK'
    BY <2>2 DEF Refuse, CoolingDown
  <2>3. ASSUME NEW v \in Verifiers, ClaimRefresh(v) PROVE TypeOK'
    BY <2>3 DEF ClaimRefresh, CoolingDown
  <2>4. ASSUME NEW v \in Verifiers, Recheck(v) PROVE TypeOK'
    BY <2>4 DEF Recheck
  <2>5. ASSUME NEW p \in Preloaders, Preload(p) PROVE TypeOK'
    BY <2>5 DEF Preload
  <2>6. ASSUME NEW t \in Threads, Answer(t) PROVE TypeOK'
    BY <2>6 DEF Answer
  <2>7. ASSUME NEW t \in Threads, FetchFails(t) PROVE TypeOK'
    BY <2>7 DEF FetchFails
  <2>8. ASSUME NEW t \in Threads, Install(t) PROVE TypeOK'
    <3>1. CASE t \in Verifiers
      BY <2>8, <3>1 DEF Install
    <3>2. CASE t \notin Verifiers
      <4>1. /\ pc' = [pc EXCEPT ![t] = "idle"]
            /\ elapsed' = [elapsed EXCEPT ![t] = 0]
        BY <2>8, <3>2 DEF Install
      <4>2. throughout' = [v \in Verifiers |-> FALSE]
        BY <2>8, <3>2 DEF Install
      <4>3. throughout' \in [Verifiers -> BOOLEAN]
        BY <4>2
      <4>4. QED
        BY <2>8, <4>1, <4>3 DEF Install
    <3>3. QED
      BY <3>1, <3>2
  <2>9. ASSUME NEW k \in Issuable, Publish(k) PROVE TypeOK'
    BY <2>9 DEF Publish
  <2>10. ASSUME NEW k \in Issuable, Withdraw(k) PROVE TypeOK'
    BY <2>10 DEF Withdraw
  <2>11. CASE Tick
    BY <2>11 DEF Tick, FetchesInTime, Older, InFlight
  <2>12. CASE UNCHANGED vars
    BY <2>12 DEF vars
  <2>13. QED
    BY <2>1, <2>2, <2>3, <2>4, <2>5, <2>6, <2>7, <2>8, <2>9, <2>10, <2>11,
       <2>12 DEF Next
<1>3. QED
  BY <1>1, <1>2, PTL DEF Spec
-----------------------------------------------------------------------------
(* How old a key in use can be *)

\* A kid in an answer on its way was published when the answer was given, so it
\* can have been withdrawn only since the fetch began.
AnswersDated ==
  \A t \in Threads : pc[t] = "answered" =>
    \A k \in answer[t] : k \in server \/ withdrawn[k] =< elapsed[t]

\* The same of the cached set, which was fetched within Latency.
SetDated ==
  \A k \in set : k \in server \/ withdrawn[k] =< sinceFetch + Latency

DatedInv == TypeOK /\ AnswersDated /\ SetDated

\* A provider that is just built has no key and no answer to date.
LEMMA DatedInit == Init => DatedInv
  BY ConstantsAssumption DEF Init, DatedInv, AnswersDated, SetDated, TypeOK,
     Horizon, Threads

\* Every step keeps keys dated: answers and the cached set age no faster than
\* the withdrawals they missed.
LEMMA DatedStep == TypeOK' /\ DatedInv /\ [Next]_vars => DatedInv'
<1> SUFFICES ASSUME TypeOK', DatedInv, [Next]_vars
             PROVE  AnswersDated' /\ SetDated'
  BY DEF DatedInv
<1> USE ConstantsAssumption DEF DatedInv, TypeOK, AnswersDated, SetDated,
        Horizon, Threads, provider, external, calls
<1>1. ASSUME NEW v \in Verifiers, NEW k \in Kids, Begin(v, k)
      PROVE  AnswersDated' /\ SetDated'
  BY <1>1 DEF Begin
<1>2. ASSUME NEW v \in Verifiers, Refuse(v) PROVE AnswersDated' /\ SetDated'
  BY <1>2 DEF Refuse, CoolingDown
<1>3. ASSUME NEW v \in Verifiers, ClaimRefresh(v)
      PROVE  AnswersDated' /\ SetDated'
  BY <1>3 DEF ClaimRefresh, CoolingDown
<1>4. ASSUME NEW v \in Verifiers, Recheck(v) PROVE AnswersDated' /\ SetDated'
  BY <1>4 DEF Recheck
<1>5. ASSUME NEW p \in Preloaders, Preload(p) PROVE AnswersDated' /\ SetDated'
  BY <1>5 DEF Preload
<1>6. ASSUME NEW t \in Threads, Answer(t) PROVE AnswersDated' /\ SetDated'
  BY <1>6 DEF Answer
<1>7. ASSUME NEW t \in Threads, FetchFails(t)
      PROVE  AnswersDated' /\ SetDated'
  BY <1>7 DEF FetchFails
<1>8. ASSUME NEW t \in Threads, Install(t) PROVE AnswersDated' /\ SetDated'
  <2>1. SetDated'
    BY <1>8 DEF Install
  <2>2. \A u \in Threads : pc'[u] = "answered" => u # t /\ pc[u] = "answered"
    <3>1. CASE t \in Verifiers
      BY <1>8, <3>1 DEF Install
    <3>2. CASE t \notin Verifiers
      BY <1>8, <3>2 DEF Install
    <3>3. QED
      BY <3>1, <3>2
  <2>3. \A u \in Threads : u # t => elapsed'[u] = elapsed[u]
    <3>1. CASE t \in Verifiers
      BY <1>8, <3>1 DEF Install
    <3>2. CASE t \notin Verifiers
      BY <1>8, <3>2 DEF Install
    <3>3. QED
      BY <3>1, <3>2
  <2>4. AnswersDated'
    BY <1>8, <2>2, <2>3 DEF Install
  <2>5. QED
    BY <2>1, <2>4
<1>9. ASSUME NEW k \in Issuable, Publish(k) PROVE AnswersDated' /\ SetDated'
  BY <1>9 DEF Publish
<1>10. ASSUME NEW k \in Issuable, Withdraw(k)
       PROVE  AnswersDated' /\ SetDated'
  BY <1>10 DEF Withdraw
<1>11. CASE Tick
  <2>1. \A n \in Nat, m \in Nat, l \in Nat : n =< m => Older(n, l) =< m + 1
    BY DEF Older
  <2>2. \A n \in Nat, m \in Nat, l \in Nat :
          n =< m => Older(n, l) =< Older(m, l)
    BY DEF Older
  <2>3. AnswersDated'
    BY <1>11, <2>1 DEF Tick, FetchesInTime, InFlight
  <2>4. SetDated'
    BY <1>11, <2>1, <2>2 DEF Tick, FetchesInTime, Older
  <2>5. QED
    BY <2>3, <2>4
<1>12. CASE UNCHANGED vars
  BY <1>12 DEF vars
<1>13. QED
  BY <1>1, <1>2, <1>3, <1>4, <1>5, <1>6, <1>7, <1>8, <1>9, <1>10, <1>11, <1>12
  DEF Next

\* KeyByID never hands out a key that was withdrawn longer ago than a refresh
\* period and a fetch, for any number of goroutines and any timing of theirs.
THEOREM KeysExpire == Spec => []WithdrawnKeysExpire
<1>1. DatedInv => WithdrawnKeysExpire
  BY ConstantsAssumption
  DEF DatedInv, TypeOK, SetDated, WithdrawnKeysExpire, Lookup, NeedsRefresh,
      Horizon
<1>2. QED
  BY <1>1, DatedInit, DatedStep, TypeCorrect, PTL DEF Spec
-----------------------------------------------------------------------------
(* One forced refresh at a time, and what "unknown kid" says *)

\* The default timing: a fetch (5s) is over before the cooldown (10s) lets the
\* next one start, and well within the refresh period (1h).
Serial == Latency < Cooldown /\ Latency =< Refresh

\* The fetch under way is the one the cooldown was started for.
CooldownCoversFetch ==
  \A v \in Verifiers :
    /\ InFlight(v) => sinceForced = elapsed[v]
    /\ ~InFlight(v) => elapsed[v] = 0

\* A kid that stayed published during the call is in the answer to its fetch,
\* and then in the cached set, which is fresh until the second lookup.
CallSeesKid ==
  \A v \in Verifiers :
    /\ throughout[v] => kid[v] \in server
    /\ pc[v] = "answered" /\ throughout[v] => kid[v] \in answer[v]
    /\ pc[v] = "rechecking" =>
         /\ sinceFetch =< elapsed[v]
         /\ throughout[v] => kid[v] \in set

SerialInv ==
  TypeOK /\ CooldownCoversFetch /\ OneForcedFetch /\ CallSeesKid
         /\ UnknownMeansAbsent

\* Nothing is in flight when the provider is built.
LEMMA SerialInit == Init => SerialInv
  BY ConstantsAssumption
  DEF Init, SerialInv, CooldownCoversFetch, OneForcedFetch, CallSeesKid,
      UnknownMeansAbsent, InFlight, TypeOK, Horizon, Threads

\* With the default timing every step keeps forced refreshes serial and what
\* each call knows about its kid.
LEMMA SerialStep ==
  Serial /\ TypeOK' /\ SerialInv /\ [Next]_vars => SerialInv'
<1> DEFINE Rest == CooldownCoversFetch /\ OneForcedFetch /\ CallSeesKid
                   /\ UnknownMeansAbsent
<1> SUFFICES ASSUME Serial, TypeOK', SerialInv, [Next]_vars PROVE Rest'
  BY DEF SerialInv
<1> USE ConstantsAssumption
    DEF Serial, SerialInv, TypeOK, CooldownCoversFetch, OneForcedFetch,
        CallSeesKid, UnknownMeansAbsent, InFlight, Threads, provider, external,
        calls
<1>1. ASSUME NEW v \in Verifiers, NEW k \in Kids, Begin(v, k) PROVE Rest'
  BY <1>1 DEF Begin
<1>2. ASSUME NEW v \in Verifiers, Refuse(v) PROVE Rest'
  BY <1>2 DEF Refuse, CoolingDown
<1>3. ASSUME NEW v \in Verifiers, ClaimRefresh(v) PROVE Rest'
  <2>1. \A u \in Verifiers : ~InFlight(u)
    BY <1>3 DEF ClaimRefresh, CoolingDown
  <2>2. \A u \in Verifiers : InFlight(u)' <=> u = v
    BY <1>3, <2>1 DEF ClaimRefresh, CoolingDown
  <2>3. CooldownCoversFetch' /\ OneForcedFetch'
    BY <1>3, <2>1, <2>2 DEF ClaimRefresh, CoolingDown
  <2>4. CallSeesKid' /\ UnknownMeansAbsent'
    BY <1>3, <2>1 DEF ClaimRefresh, CoolingDown
  <2>5. QED
    BY <2>3, <2>4
<1>4. ASSUME NEW v \in Verifiers, Recheck(v) PROVE Rest'
  BY <1>4 DEF Recheck, Lookup, NeedsRefresh
<1>5. ASSUME NEW p \in Preloaders, Preload(p) PROVE Rest'
  BY <1>5 DEF Preload
<1>6. ASSUME NEW t \in Threads, Answer(t) PROVE Rest'
  BY <1>6 DEF Answer
<1>7. ASSUME NEW t \in Threads, FetchFails(t) PROVE Rest'
  BY <1>7 DEF FetchFails
<1>8. ASSUME NEW t \in Threads, Install(t) PROVE Rest'
  <2>1. CASE t \in Verifiers
    <3>1. /\ pc' = [pc EXCEPT ![t] = "rechecking"]
          /\ set' = answer[t]
          /\ sinceFetch' = 0
          /\ UNCHANGED <<elapsed, sinceForced, server, kid, result, throughout>>
      BY <1>8, <2>1 DEF Install
    <3>2. pc[t] = "answered"
      BY <1>8 DEF Install
    <3>3. answer' = [answer EXCEPT ![t] = {}]
      BY <1>8 DEF Install
    <3>4. CooldownCoversFetch' /\ OneForcedFetch' /\ UnknownMeansAbsent'
      BY <2>1, <3>1, <3>2
    <3>5. \A v \in Verifiers : v # t => pc[v] \notin {"answered", "rechecking"}
      BY <2>1, <3>2
    <3>6. CallSeesKid'
      BY <2>1, <3>1, <3>2, <3>3, <3>5
    <3>7. QED
      BY <3>4, <3>6
  <2>2. CASE t \notin Verifiers
    <3>1. \A v \in Verifiers : /\ pc'[v] = pc[v]
                              /\ elapsed'[v] = elapsed[v]
                              /\ ~throughout'[v]
      BY <1>8, <2>2 DEF Install
    <3>2. sinceFetch' = 0 /\ UNCHANGED <<sinceForced, server, kid, result>>
      BY <1>8 DEF Install
    <3>3. QED
      BY <3>1, <3>2
  <2>3. QED
    BY <2>1, <2>2
<1>9. ASSUME NEW k \in Issuable, Publish(k) PROVE Rest'
  BY <1>9 DEF Publish
<1>10. ASSUME NEW k \in Issuable, Withdraw(k) PROVE Rest'
  BY <1>10 DEF Withdraw
<1>11. CASE Tick
  BY <1>11 DEF Tick, FetchesInTime, Older
<1>12. CASE UNCHANGED vars
  BY <1>12 DEF vars
<1>13. QED
  BY <1>1, <1>2, <1>3, <1>4, <1>5, <1>6, <1>7, <1>8, <1>9, <1>10, <1>11, <1>12
  DEF Next

\* With the default timing the provider never has two forced refreshes under
\* way, however many goroutines meet unknown kids.
THEOREM SerialRefresh == ASSUME Serial PROVE Spec => []OneForcedFetch
<1>1. SerialInv => OneForcedFetch
  BY DEF SerialInv
<1>2. Init => SerialInv
  BY SerialInit
<1>3. TypeOK' /\ SerialInv /\ [Next]_vars => SerialInv'
  BY SerialStep
<1>4. QED
  BY <1>1, <1>2, <1>3, TypeCorrect, PTL DEF Spec

\* With the default timing KeyByID reports "unknown kid" after its fetch only of
\* a kid that was missing from the published set during the call.
THEOREM UnknownIsHonest == ASSUME Serial PROVE Spec => []UnknownMeansAbsent
<1>1. SerialInv => UnknownMeansAbsent
  BY DEF SerialInv
<1>2. Init => SerialInv
  BY SerialInit
<1>3. TypeOK' /\ SerialInv /\ [Next]_vars => SerialInv'
  BY SerialStep
<1>4. QED
  BY <1>1, <1>2, <1>3, TypeCorrect, PTL DEF Spec
=============================================================================
