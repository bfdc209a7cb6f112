----------------------- MODULE PermissionResolver_proofs -----------------------
(***************************************************************************)
(* Proofs about PermissionResolver for every set of callers and keys,      *)
(* every TTL and response time and every length of ristretto's buffer.     *)
(***************************************************************************)
EXTENDS PermissionResolver, SequenceTheorems, TLAPS

\* A write buffer of another length is one of writes again.
LEMMA BufferOf ==
  ASSUME NEW n \in Nat, NEW b, b \in [1 .. n -> Write]
  PROVE  b \in Seq(Write) /\ Len(b) = n
<1>1. b \in Seq(Write)
  BY SeqDef
<1>2. DOMAIN b = 1 .. n
  OBVIOUS
<1>3. QED
  BY <1>1, <1>2, LenProperties

\* Mappings that grow older, or that an invalidation outdates.
LEMMA MappingType ==
  /\ Fresh \in Mapping /\ MaxAge \in Nat
  /\ \A m \in Mapping : /\ Aged(m) \in Mapping /\ Outdate(m) \in Mapping
                        /\ Aged(m).old = m.old /\ Outdate(m).age = m.age
                        /\ m.age =< MaxAge => Aged(m).age = m.age + 1
<1>1. MaxAge \in Nat
  BY ConstantsAssumption DEF MaxAge
<1>2. Fresh \in Mapping
  BY <1>1 DEF Fresh, Mapping
<1>3. ASSUME NEW m \in Mapping
      PROVE  /\ Outdate(m) \in Mapping /\ Outdate(m).age = m.age
             /\ Aged(m) \in Mapping /\ Aged(m).old = m.old
             /\ m.age =< MaxAge => Aged(m).age = m.age + 1
  <2>1. m.age \in 0 .. MaxAge + 1 /\ m.old \in BOOLEAN
    BY DEF Mapping
  <2>2. Outdate(m) \in Mapping /\ Outdate(m).age = m.age
    BY Zenon DEF Outdate, Mapping
  <2> DEFINE n == IF m.age =< MaxAge THEN m.age + 1 ELSE m.age
  <2>3. n \in 0 .. MaxAge + 1 /\ (m.age =< MaxAge => n = m.age + 1)
    BY <1>1, <2>1
  <2>4. Aged(m) = [m EXCEPT !.age = n]
    BY DEF Aged
  <2> HIDE DEF n
  <2>5. Aged(m) \in Mapping /\ Aged(m).old = m.old /\ Aged(m).age = n
    BY <2>3, <2>4, Zenon DEF Mapping
  <2>6. QED
    BY <2>2, <2>3, <2>5
<1>4. QED
  BY <1>1, <1>2, <1>3

\* What Tick and Invalidate do to a queued write.
LEMMA WriteType ==
  ASSUME NEW w \in Write, NEW m \in Mapping, NEW t \in 0 .. TTL
  PROVE  /\ [w EXCEPT !.map = m] \in Write
         /\ [w EXCEPT !.ttl = t, !.map = m] \in Write
         /\ [w EXCEPT !.ttl = t, !.map = m].op = w.op
         /\ [w EXCEPT !.ttl = t, !.map = m].key = w.key
         /\ [w EXCEPT !.ttl = t, !.map = m].ttl = t
         /\ [w EXCEPT !.ttl = t, !.map = m].map = m
BY DEF Write

LEMMA EntryType ==
  ASSUME NEW m \in Mapping, NEW t \in 0 .. TTL
  PROVE  Entry(m, t) \in [present : BOOLEAN, ttl : 0 .. TTL, map : Mapping]
BY DEF Entry

\* The write buffer after a write or a deletion was queued.
LEMMA InvalidateBuffer ==
  ASSUME TypeOK, NEW k \in Keys, Invalidate(k)
  PROVE  /\ setBuf' \in Seq(Write) /\ Len(setBuf') = Len(setBuf) + 1
         /\ setBuf'[Len(setBuf) + 1].op = "del" /\ setBuf'[Len(setBuf) + 1].ttl = 0
         /\ \A i \in 1 .. Len(setBuf) :
              /\ setBuf'[i].op = setBuf[i].op /\ setBuf'[i].key = setBuf[i].key
              /\ setBuf'[i].ttl = setBuf[i].ttl
              /\ setBuf'[i].map.age = setBuf[i].map.age
              /\ setBuf'[i].map = setBuf[i].map \/ setBuf[i].key = k
<1> DEFINE del == [op |-> "del", key |-> k, ttl |-> 0, map |-> Fresh]
           n == Len(setBuf)
           was(i) == [setBuf[i] EXCEPT !.map = Outdate(setBuf[i].map)]
<1>1. del \in Write /\ del.op = "del" /\ del.ttl = 0
  BY MappingType, ConstantsAssumption DEF Write
<1>2. n \in Nat /\ \A i \in 1 .. n : setBuf[i] \in Write
  BY LenProperties, ElementOfSeq DEF TypeOK
<1>3. \A i \in 1 .. n : /\ was(i) \in Write
                        /\ was(i).op = setBuf[i].op /\ was(i).key = setBuf[i].key
                        /\ was(i).ttl = setBuf[i].ttl
                        /\ was(i).map.age = setBuf[i].map.age
  <2> TAKE i \in 1 .. n
  <2> DEFINE m == Outdate(setBuf[i].map)
             w == setBuf[i]
  <2>1. w \in Write
    BY <1>2
  <2>2. m \in Mapping /\ m.age = w.map.age
    BY <2>1, MappingType DEF Write
  <2> HIDE DEF m, w
  <2> DEFINE now == [w EXCEPT !.map = m]
  <2>3. now \in Write /\ now.op = w.op /\ now.key = w.key /\ now.ttl = w.ttl /\ now.map = m
    BY <2>1, <2>2 DEF Write
  <2>4. QED
    BY <2>2, <2>3 DEF m, w
<1>4. setBuf' = [i \in 1 .. n + 1 |-> IF i > n THEN del
                                      ELSE IF setBuf[i].key = k THEN was(i)
                                      ELSE setBuf[i]]
  BY DEF Invalidate
<1> HIDE DEF del, was, n
<1>5. setBuf' \in [1 .. n + 1 -> Write] /\ setBuf'[n + 1] = del
  BY <1>1, <1>2, <1>3, <1>4
<1>6. \A i \in 1 .. n : setBuf'[i] = IF setBuf[i].key = k THEN was(i) ELSE setBuf[i]
  BY <1>2, <1>4
<1>7. setBuf' \in Seq(Write) /\ Len(setBuf') = n + 1
  BY <1>2, <1>5, BufferOf
<1>8. QED
  BY <1>1, <1>3, <1>5, <1>6, <1>7 DEF n

LEMMA TickBuffer ==
  ASSUME TypeOK, Tick
  PROVE  /\ setBuf' \in Seq(Write) /\ Len(setBuf') = Len(setBuf)
         /\ \A i \in 1 .. Len(setBuf) :
              /\ setBuf'[i].op = setBuf[i].op /\ setBuf'[i].key = setBuf[i].key
              /\ setBuf'[i].ttl = Less(setBuf[i].ttl)
              /\ setBuf'[i].map = Aged(setBuf[i].map)
<1> DEFINE n == Len(setBuf)
           was(i) == [setBuf[i] EXCEPT !.ttl = Less(setBuf[i].ttl),
                                       !.map = Aged(setBuf[i].map)]
<1>1. n \in Nat /\ \A i \in 1 .. n : setBuf[i] \in Write
  BY LenProperties, ElementOfSeq DEF TypeOK
<1>2. \A i \in 1 .. n : Less(setBuf[i].ttl) \in 0 .. TTL /\ Aged(setBuf[i].map) \in Mapping
  BY <1>1, MappingType, ConstantsAssumption DEF Less, Write
<1>3. \A i \in 1 .. n : /\ was(i) \in Write
                        /\ was(i).op = setBuf[i].op /\ was(i).key = setBuf[i].key
                        /\ was(i).ttl = Less(setBuf[i].ttl)
                        /\ was(i).map = Aged(setBuf[i].map)
  <2> TAKE i \in 1 .. n
  <2>1. setBuf[i] \in Write
    BY <1>1
  <2>2. Less(setBuf[i].ttl) \in 0 .. TTL /\ Aged(setBuf[i].map) \in Mapping
    BY <1>2
  <2> DEFINE t == Less(setBuf[i].ttl)
             m == Aged(setBuf[i].map)
  <2>3. t \in 0 .. TTL /\ m \in Mapping
    BY <2>2
  <2> DEFINE w == setBuf[i]
  <2>6. w \in Write
    BY <2>1
  <2> HIDE DEF t, m, w
  <2> DEFINE now == [w EXCEPT !.ttl = t, !.map = m]
  <2>4. now \in Write /\ now.op = w.op /\ now.key = w.key /\ now.ttl = t /\ now.map = m
    BY <2>6, <2>3 DEF Write
  <2>5. QED
    BY <2>4 DEF t, m, w
<1>4. setBuf' = [i \in 1 .. n |-> was(i)]
  BY DEF Tick
<1> HIDE DEF was, n
<1>5. setBuf' \in [1 .. n -> Write]
  BY <1>1, <1>3, <1>4
<1>6. QED
  BY <1>1, <1>3, <1>4, <1>5, BufferOf DEF n

\* The types of the resolver, of the libraries and of the history are invariant.
LEMMA TypeStep == TypeOK /\ [Next]_vars => TypeOK'
<1> SUFFICES ASSUME TypeOK, [Next]_vars PROVE TypeOK'
  OBVIOUS
<1> DEFINE Entries == [present : BOOLEAN, ttl : 0 .. TTL, map : Mapping]
           Results == [outcome : {"none", "perms", "empty", "error"}, map : Mapping]
           Places == {"idle", "missed", "leading", "answered", "stored", "waiting"}
<1>a. Absent \in Entries /\ \A m \in Mapping : Entry(m, TTL) \in Entries
  BY MappingType, EntryType, ConstantsAssumption DEF Absent
<1>b. /\ \A m \in Mapping : Granted(m) \in Results
      /\ Failed \in Results
      /\ Nothing \in Results
  BY MappingType DEF Granted, Failed, Nothing
<1>c. \A k \in Keys : entry[k].map \in Mapping /\ entry[k].ttl \in 0 .. TTL
  BY DEF TypeOK
<1>1. ASSUME NEW c \in Callers, ResolveNoRoles(c) PROVE TypeOK'
  BY <1>1, MappingType DEF ResolveNoRoles, libraries, TypeOK
<1>2. ASSUME NEW c \in Callers, NEW k \in Keys, Resolve(c, k) PROVE TypeOK'
  <2>1. before' \in [Callers -> BOOLEAN]
    BY <1>2, Zenon DEF Resolve, TypeOK
  <2>2. result' \in [Callers -> Results]
    <3>1. result \in [Callers -> Results]
      BY DEF TypeOK
    <3>2. PICK r \in Results : result' = [result EXCEPT ![c] = r]
      BY <1>2, <1>b, <1>c DEF Resolve
    <3> HIDE DEF Results
    <3>3. QED
      BY <3>1, <3>2
  <2>3. pc' \in [Callers -> Places] /\ key' \in [Callers -> Keys]
    BY <1>2 DEF Resolve, TypeOK
  <2>4. QED
    BY <1>2, <2>1, <2>2, <2>3 DEF Resolve, libraries, TypeOK
<1>3. ASSUME NEW c \in Callers, Join(c) PROVE TypeOK'
  <2>1. flight' \in [Keys -> Callers \cup {Nobody}]
    BY <1>3 DEF Join, TypeOK
  <2>2. pc' \in [Callers -> Places]
    BY <1>3 DEF Join, TypeOK
  <2>3. QED
    BY <1>3, <2>1, <2>2 DEF Join, TypeOK
<1>4. ASSUME NEW c \in Callers, Answer(c) PROVE TypeOK'
  BY <1>4, MappingType, ConstantsAssumption DEF Answer, libraries, TypeOK
<1>5. ASSUME NEW c \in Callers, Store(c) PROVE TypeOK'
  <2>1. hand[c] \in Mapping /\ key[c] \in Keys
    BY DEF TypeOK
  <2>2. entry' \in [Keys -> Entries]
    BY <1>5, <2>1, <1>a DEF Store, TypeOK
  <2>3. setBuf' \in Seq(Write) /\ Len(setBuf') =< MaxPending
    <3>1. CASE setBuf' = setBuf
      BY <3>1 DEF TypeOK
    <3>2. CASE setBuf' # setBuf
      <4> DEFINE w == [op |-> "new", key |-> key[c], ttl |-> TTL, map |-> hand[c]]
      <4>1. w \in Write
        BY <2>1, ConstantsAssumption DEF Write
      <4>2. setBuf' = Append(setBuf, w) /\ Len(setBuf) # MaxPending
        BY <1>5, <3>2 DEF Store, BufferFull
      <4> HIDE DEF w
      <4>3. Len(setBuf) \in Nat
        BY LenProperties DEF TypeOK
      <4>4. QED
        BY <4>1, <4>2, <4>3, AppendProperties, ConstantsAssumption DEF TypeOK
    <3>3. QED
      BY <3>1, <3>2
  <2>4. QED
    BY <1>5, <2>2, <2>3 DEF Store, TypeOK
<1>6. ASSUME NEW c \in Callers, Succeed(c) \/ Fail(c) PROVE TypeOK'
  <2>1. hand[c] \in Mapping /\ key[c] \in Keys
    BY DEF TypeOK
  <2>2. PICK r \in Results : Land(c, r)
    BY <1>6, <2>1, <1>b DEF Succeed, Fail
  <2>3. QED
    BY <2>1, <2>2, MappingType, ConstantsAssumption DEF Land, TypeOK
<1>7. ASSUME NEW k \in Keys, Invalidate(k) PROVE TypeOK'
  <2>1. Len(setBuf) \in Nat /\ Len(setBuf) # MaxPending
    BY <1>7, LenProperties DEF TypeOK, Invalidate, BufferFull
  <2>2. entry' \in [Keys -> Entries]
    BY <1>7, <1>a DEF Invalidate, Deleted, TypeOK
  <2>3. hand' \in [Callers -> Mapping]
    BY <1>7, MappingType DEF Invalidate, MarkOld, TypeOK
  <2>4. before' \in [Callers -> BOOLEAN]
    BY <1>7, Zenon DEF Invalidate, MarkOld, TypeOK
  <2>5. excused' \in [Keys -> BOOLEAN]
    BY <1>7, Zenon DEF Invalidate, MarkOld, InFlight, Queued, TypeOK
  <2>6. setBuf' \in Seq(Write) /\ Len(setBuf') =< MaxPending
    <3>1. Len(setBuf) =< MaxPending
      BY DEF TypeOK
    <3>2. setBuf' \in Seq(Write) /\ Len(setBuf') = Len(setBuf) + 1
      BY <1>7, InvalidateBuffer
    <3>3. QED
      BY <2>1, <3>1, <3>2, ConstantsAssumption
  <2>7. UNCHANGED <<failOpen, flight, pc, key, elapsed, result>>
    BY <1>7 DEF Invalidate
  <2>8. QED
    BY <2>2, <2>3, <2>4, <2>5, <2>6, <2>7 DEF TypeOK
<1>8. CASE Clear
  <2>1. entry' \in [Keys -> Entries] /\ setBuf' = <<>>
    BY <1>8, <1>a DEF Clear
  <2>2. hand' \in [Callers -> Mapping]
    BY <1>8, MappingType DEF Clear, MarkOld, TypeOK
  <2>3. before' \in [Callers -> BOOLEAN] /\ excused' \in [Keys -> BOOLEAN]
    BY <1>8, Zenon DEF Clear, MarkOld, InFlight, Queued, TypeOK
  <2>4. QED
    BY <1>8, <2>1, <2>2, <2>3, EmptySeq, ConstantsAssumption DEF Clear, TypeOK
<1>9. CASE ApplyWrite
  <2>1. Head(setBuf) \in Write /\ setBuf' \in Seq(Write) /\ Len(setBuf') = Len(setBuf) - 1
    BY <1>9, HeadTailProperties DEF ApplyWrite, TypeOK
  <2> DEFINE w == Head(setBuf)
  <2>5. w.key \in Keys /\ w.ttl \in 0 .. TTL /\ w.map \in Mapping
    BY <2>1 DEF Write
  <2>6. Entry(w.map, w.ttl) \in Entries
    BY <2>5, EntryType
  <2>7. \/ entry' = [entry EXCEPT ![w.key] = Entry(w.map, w.ttl)]
        \/ entry' = entry
        \/ entry' = [entry EXCEPT ![w.key] = Absent]
    BY <1>9 DEF ApplyWrite
  <2>8. entry \in [Keys -> Entries]
    BY DEF TypeOK
  <2> HIDE DEF w, Entries
  <2>2. entry' \in [Keys -> Entries]
    BY <1>a, <2>5, <2>6, <2>7, <2>8
  <2> USE DEF Entries
  <2>3. Len(setBuf) \in Nat
    BY LenProperties DEF TypeOK
  <2>4. QED
    BY <1>9, <2>1, <2>2, <2>3, ConstantsAssumption DEF ApplyWrite, TypeOK
<1>10. ASSUME NEW k \in Keys, Evict(k) PROVE TypeOK'
  BY <1>10, <1>a DEF Evict, TypeOK
<1>11. CASE Tick
  <2>1. entry' \in [Keys -> Entries]
    <3>1. ASSUME NEW k \in Keys, Hit(k) PROVE Entry(Aged(entry[k].map), entry[k].ttl - 1) \in Entries
      <4> DEFINE t == entry[k].ttl - 1
                 m == Aged(entry[k].map)
      <4>1. t \in 0 .. TTL
        BY <3>1, <1>c, ConstantsAssumption DEF Hit
      <4>2. m \in Mapping
        BY <1>c, MappingType
      <4> HIDE DEF t, m
      <4>3. Entry(m, t) \in Entries
        BY <4>1, <4>2, EntryType
      <4>4. QED
        BY <4>3 DEF t, m
    <3>2. entry \in [Keys -> Entries]
      BY DEF TypeOK
    <3> HIDE DEF Entries
    <3>3. \A k \in Keys : (IF Hit(k) THEN Entry(Aged(entry[k].map), entry[k].ttl - 1)
                            ELSE entry[k]) \in Entries
      BY <3>1, <3>2
    <3>4. QED
      BY <1>11, <3>3, Zenon DEF Tick
  <2>2. hand' \in [Callers -> Mapping]
    BY <1>11, MappingType DEF Tick, TypeOK
  <2>3. elapsed' \in [Callers -> 0 .. Latency]
    <3>1. \A c \in Callers : /\ elapsed[c] \in 0 .. Latency
                             /\ elapsed[c] < Latency => elapsed[c] + 1 \in 0 .. Latency
      BY ConstantsAssumption DEF TypeOK
    <3> DEFINE next(c) == IF pc[c] \in {"answered", "stored"} THEN elapsed[c] + 1
                          ELSE elapsed[c]
    <3>5. \A c \in Callers : pc[c] \in {"answered", "stored"} => elapsed[c] < Latency
      BY <1>11, Zenon DEF Tick
    <3>2. \A c \in Callers : next(c) \in 0 .. Latency
      BY <3>5, <3>1
    <3>3. elapsed' = [c \in Callers |-> next(c)]
      BY <1>11, Zenon DEF Tick
    <3> HIDE DEF next
    <3>4. QED
      BY <3>2, <3>3
  <2>4. QED
    BY <1>11, <2>1, <2>2, <2>3, TickBuffer DEF Tick, TypeOK
<1>12. CASE UNCHANGED vars
  BY <1>12 DEF vars, libraries, TypeOK
<1>13. QED
  BY <1>1, <1>2, <1>3, <1>4, <1>5, <1>6, <1>7, <1>8, <1>9, <1>10, <1>11, <1>12 DEF Next

LEMMA TypeInit == Init => TypeOK
BY MappingType, EmptySeq, ConstantsAssumption DEF Init, TypeOK, Absent, Nothing

\* The types of the resolver, of the libraries and of the history.
THEOREM TypeCorrect == Spec => []TypeOK
BY TypeInit, TypeStep, PTL DEF Spec

-----------------------------------------------------------------------------
(* One request per key *)

Flying == {"leading", "answered", "stored"}

\* Who has a request under way is the leader singleflight knows.
FlightInv == \A c \in Callers : pc[c] \in Flying => flight[key[c]] = c

LEMMA FlightStep == TypeOK /\ FlightInv /\ [Next]_vars => FlightInv'
<1> SUFFICES ASSUME TypeOK, FlightInv, [Next]_vars PROVE FlightInv'
  OBVIOUS
<1> USE DEF Flying
<1>1. ASSUME NEW c \in Callers, ResolveNoRoles(c) PROVE FlightInv'
  BY <1>1 DEF ResolveNoRoles, libraries, FlightInv
<1>2. ASSUME NEW c \in Callers, NEW k \in Keys, Resolve(c, k) PROVE FlightInv'
  <2>1. /\ pc[c] = "idle" /\ key' = [key EXCEPT ![c] = k] /\ flight' = flight
        /\ pc' = pc \/ pc' = [pc EXCEPT ![c] = "missed"]
    BY <1>2, Zenon DEF Resolve, libraries
  <2>2. QED
    BY <2>1 DEF FlightInv, TypeOK
<1>3. ASSUME NEW c \in Callers, Join(c) PROVE FlightInv'
  <2>1. CASE InFlight(key[c])
    BY <1>3, <2>1 DEF Join, FlightInv, TypeOK
  <2>2. CASE ~InFlight(key[c])
    <3>1. /\ flight' = [flight EXCEPT ![key[c]] = c] /\ key' = key
          /\ pc' = [pc EXCEPT ![c] = "leading"] /\ flight[key[c]] = Nobody
      BY <1>3, <2>2, Zenon DEF Join, InFlight
    <3>2. QED
      BY <3>1, ConstantsAssumption DEF FlightInv, TypeOK
  <2>3. QED
    BY <2>1, <2>2
<1>4. ASSUME NEW c \in Callers, Answer(c) \/ Store(c) PROVE FlightInv'
  <2>1. /\ pc[c] \in Flying /\ flight' = flight /\ key' = key
        /\ pc' = [pc EXCEPT ![c] = "answered"] \/ pc' = [pc EXCEPT ![c] = "stored"]
    BY <1>4, Zenon DEF Answer, Store, libraries
  <2>2. QED
    BY <2>1 DEF FlightInv, TypeOK
<1>5. ASSUME NEW c \in Callers, Succeed(c) \/ Fail(c) PROVE FlightInv'
  <2>1. /\ pc[c] \in Flying /\ flight' = [flight EXCEPT ![key[c]] = Nobody] /\ key' = key
        /\ pc' = [d \in Callers |-> IF d \in Sharers(c) THEN "idle" ELSE pc[d]]
    BY <1>5, Zenon DEF Succeed, Fail, Land
  <2>2. c \in Sharers(c) /\ \A d \in Callers : pc'[d] \in Flying => pc[d] \in Flying /\ d # c
    BY <2>1 DEF Sharers
  <2>3. QED
    BY <2>1, <2>2 DEF FlightInv, TypeOK
<1>6. CASE \/ \E k \in Keys : Invalidate(k) \/ Evict(k)
           \/ Clear \/ ApplyWrite \/ Tick \/ UNCHANGED vars
  <2>1. UNCHANGED <<flight, pc, key>>
    BY <1>6, Zenon DEF Invalidate, Evict, Clear, ApplyWrite, Tick, vars, libraries
  <2>2. QED
    BY <2>1 DEF FlightInv
<1>7. QED
  BY <1>1, <1>2, <1>3, <1>4, <1>5, <1>6 DEF Next

LEMMA FlightInit == Init => FlightInv
BY DEF Init, FlightInv, Flying

\* Followers share their leader's request: singleflight never has two requests
\* of a key under way, however many goroutines resolve it.
THEOREM OneFlight == Spec => []OneRequestPerKey
<1>1. FlightInv => OneRequestPerKey
  BY DEF FlightInv, OneRequestPerKey, Flying
<1>2. QED
  BY <1>1, TypeInit, TypeStep, FlightInit, FlightStep, PTL DEF Spec

-----------------------------------------------------------------------------
(* How old a mapping can be *)

\* What a leader holds is as old as the time since it was answered.
HandAge ==
  \A c \in Callers : pc[c] \in {"answered", "stored"} => hand[c].age =< elapsed[c]

\* The age of what the store and its buffer hold leaves room for the time it
\* may still be served.
EntryAge ==
  \A k \in Keys : Hit(k) => entry[k].map.age + entry[k].ttl =< MaxAge
QueueAge ==
  \A i \in 1 .. Len(setBuf) :
    setBuf[i].ttl > 0 => setBuf[i].map.age + setBuf[i].ttl =< MaxAge

AgeInv == HandAge /\ EntryAge /\ QueueAge /\ MappingIsRecent

\* The numbers of the state.
LEMMA Numbers ==
  ASSUME TypeOK
  PROVE  /\ TTL \in Nat /\ TTL > 0 /\ Latency \in Nat /\ MaxAge = TTL + Latency
         /\ \A k \in Keys : /\ entry[k].ttl \in Nat /\ entry[k].map \in Mapping
                            /\ entry[k].map.age \in Nat
         /\ \A c \in Callers : /\ hand[c] \in Mapping /\ hand[c].age \in Nat
                               /\ elapsed[c] \in 0 .. Latency
                               /\ key[c] \in Keys /\ result[c].map.age \in Nat
         /\ Len(setBuf) \in Nat
         /\ \A i \in 1 .. Len(setBuf) : /\ setBuf[i] \in Write /\ setBuf[i].ttl \in Nat
                                        /\ setBuf[i].key \in Keys
                                        /\ setBuf[i].map \in Mapping
                                        /\ setBuf[i].map.age \in Nat
<1>1. TTL \in Nat /\ TTL > 0 /\ Latency \in Nat /\ MaxAge = TTL + Latency
  BY ConstantsAssumption DEF MaxAge
<1>2. \A m \in Mapping : m.age \in Nat
  BY <1>1 DEF Mapping
<1>3. \A k \in Keys : entry[k].ttl \in Nat /\ entry[k].map \in Mapping
  BY <1>1 DEF TypeOK
<1>4. \A c \in Callers : /\ hand[c] \in Mapping /\ elapsed[c] \in 0 .. Latency
                         /\ key[c] \in Keys /\ result[c].map \in Mapping
  BY DEF TypeOK
<1>5. Len(setBuf) \in Nat /\ \A i \in 1 .. Len(setBuf) : setBuf[i] \in Write
  BY LenProperties, ElementOfSeq DEF TypeOK
<1>6. \A w \in Write : w.ttl \in Nat /\ w.key \in Keys /\ w.map \in Mapping
  BY <1>1 DEF Write
<1>7. QED
  BY <1>1, <1>2, <1>3, <1>4, <1>5, <1>6

\* An invalidation leaves the ages of what leaders hold alone.
LEMMA MarkedAges ==
  ASSUME TypeOK, NEW K, MarkOld(K)
  PROVE  \A c \in Callers : hand'[c].age = hand[c].age
BY Numbers, MappingType DEF MarkOld

LEMMA AgeStep == TypeOK /\ AgeInv /\ [Next]_vars => AgeInv'
<1> SUFFICES ASSUME TypeOK, AgeInv, [Next]_vars PROVE AgeInv'
  OBVIOUS
<1> USE DEF AgeInv
<1>a. TypeOK'
  BY TypeStep
<1>1. ASSUME NEW c \in Callers, ResolveNoRoles(c) PROVE AgeInv'
  <2>1. UNCHANGED <<entry, setBuf, pc, hand, elapsed>>
    BY <1>1 DEF ResolveNoRoles, libraries
  <2>2. MappingIsRecent'
    BY <1>1 DEF ResolveNoRoles, MappingIsRecent, TypeOK
  <2>3. QED
    BY <2>1, <2>2 DEF HandAge, EntryAge, QueueAge, Hit
<1>2. ASSUME NEW c \in Callers, NEW k \in Keys, Resolve(c, k) PROVE AgeInv'
  <2>1. /\ UNCHANGED <<entry, setBuf, hand, elapsed>>
        /\ pc' = pc \/ pc' = [pc EXCEPT ![c] = "missed"]
    BY <1>2, Zenon DEF Resolve, libraries
  <2>2. PICK r : result' = [result EXCEPT ![c] = r]
                 /\ (r = Nothing \/ (Hit(k) /\ r = Granted(entry[k].map)))
    BY <1>2, Zenon DEF Resolve
  <2>3. r.outcome = "perms" => r.map.age =< MaxAge
    <3>1. CASE r = Nothing
      BY <3>1 DEF Nothing
    <3>2. CASE Hit(k) /\ r = Granted(entry[k].map)
      <4>1. entry[k].map.age + entry[k].ttl =< MaxAge
        BY <3>2 DEF EntryAge
      <4>2. r.map = entry[k].map
        BY <3>2 DEF Granted
      <4>3. QED
        BY <4>1, <4>2, Numbers
    <3>3. QED
      BY <2>2, <3>1, <3>2
  <2>4. MappingIsRecent'
    BY <2>2, <2>3 DEF MappingIsRecent, TypeOK
  <2>5. HandAge'
    BY <2>1 DEF HandAge, TypeOK
  <2>6. QED
    BY <2>1, <2>4, <2>5 DEF EntryAge, QueueAge, Hit
<1>3. ASSUME NEW c \in Callers, Join(c) PROVE AgeInv'
  <2>1. /\ UNCHANGED <<entry, setBuf, hand, elapsed, result>>
        /\ pc' = [pc EXCEPT ![c] = "leading"] \/ pc' = [pc EXCEPT ![c] = "waiting"]
    BY <1>3, Zenon DEF Join
  <2>2. QED
    BY <2>1 DEF HandAge, EntryAge, QueueAge, MappingIsRecent, Hit, TypeOK
<1>4. ASSUME NEW c \in Callers, Answer(c) PROVE AgeInv'
  <2>1. UNCHANGED <<entry, setBuf, result>>
    BY <1>4 DEF Answer, libraries
  <2>2. HandAge'
    BY <1>4 DEF Answer, HandAge, Fresh, TypeOK
  <2>3. QED
    BY <2>1, <2>2 DEF EntryAge, QueueAge, MappingIsRecent, Hit
<1>5. ASSUME NEW c \in Callers, Store(c) PROVE AgeInv'
  <2>1. /\ UNCHANGED <<hand, elapsed, result>>
        /\ pc[c] = "answered" /\ pc' = [pc EXCEPT ![c] = "stored"]
    BY <1>5 DEF Store
  <2>2. hand[c].age + TTL =< MaxAge
    BY <2>1, Numbers DEF HandAge
  <2>3. HandAge' /\ MappingIsRecent'
    BY <2>1 DEF HandAge, MappingIsRecent, TypeOK
  <2>4. EntryAge'
    <3>1. CASE entry' = entry
      BY <3>1 DEF EntryAge, Hit
    <3>2. CASE entry' = [entry EXCEPT ![key[c]] = Entry(hand[c], TTL)]
      <4>1. \A k \in Keys : entry'[k] = entry[k] \/ (entry'[k].ttl = TTL /\ entry'[k].map = hand[c])
        BY <3>2 DEF Entry, TypeOK
      <4>2. QED
        BY <4>1, <2>2 DEF EntryAge, Hit
    <3>3. QED
      BY <1>5, <3>1, <3>2, Zenon DEF Store
  <2>5. QueueAge'
    <3> DEFINE w == [op |-> "new", key |-> key[c], ttl |-> TTL, map |-> hand[c]]
    <3>1. CASE setBuf' = setBuf
      BY <3>1 DEF QueueAge
    <3>2. CASE setBuf' = Append(setBuf, w)
      <4>1. w \in Write /\ w.ttl = TTL /\ w.map = hand[c]
        BY Numbers, ConstantsAssumption DEF Write
      <4> HIDE DEF w
      <4>2. /\ Len(setBuf') = Len(setBuf) + 1 /\ setBuf'[Len(setBuf) + 1] = w
            /\ \A i \in 1 .. Len(setBuf) : setBuf'[i] = setBuf[i]
        BY <3>2, <4>1, AppendProperties DEF TypeOK
      <4>3. ASSUME NEW i \in 1 .. Len(setBuf')
            PROVE  setBuf'[i].ttl > 0 => setBuf'[i].map.age + setBuf'[i].ttl =< MaxAge
        <5>1. i \in 1 .. Len(setBuf) \/ i = Len(setBuf) + 1
          BY <4>2, Numbers
        <5>2. QED
          BY <5>1, <4>1, <4>2, <2>2 DEF QueueAge
      <4>4. QED
        BY <4>3 DEF QueueAge
    <3>3. QED
      BY <1>5, <3>1, <3>2, Zenon DEF Store
  <2>6. QED
    BY <2>3, <2>4, <2>5
<1>6. ASSUME NEW c \in Callers, Succeed(c) \/ Fail(c) PROVE AgeInv'
  <2>1. PICK r : /\ Land(c, r)
                 /\ r = Failed \/ (pc[c] = "stored" /\ r = Granted(hand[c]))
    BY <1>6, Zenon DEF Succeed, Fail
  <2>2. r.outcome = "perms" => r.map.age =< MaxAge
    BY <2>1, Numbers DEF Failed, Granted, HandAge
  <2>3. MappingIsRecent'
    BY <2>1, <2>2 DEF Land, MappingIsRecent
  <2>4. c \in Sharers(c) /\ UNCHANGED <<entry, setBuf>>
    BY <2>1 DEF Land, Sharers
  <2>5. HandAge'
    BY <2>1, <2>4 DEF Land, HandAge, TypeOK
  <2>6. QED
    BY <2>3, <2>4, <2>5 DEF EntryAge, QueueAge, Hit
<1>7. ASSUME NEW k \in Keys, Invalidate(k) PROVE AgeInv'
  <2>1. /\ UNCHANGED <<pc, elapsed, result>> /\ entry' = [entry EXCEPT ![k] = Absent]
        /\ MarkOld({k})
    BY <1>7 DEF Invalidate, Deleted
  <2>2. EntryAge'
    BY <2>1 DEF EntryAge, Hit, Absent, TypeOK
  <2>3. QueueAge'
    <3>1. ASSUME NEW i \in 1 .. Len(setBuf')
          PROVE  setBuf'[i].ttl > 0 => setBuf'[i].map.age + setBuf'[i].ttl =< MaxAge
      <4>1. i \in 1 .. Len(setBuf) \/ i = Len(setBuf) + 1
        BY <1>7, InvalidateBuffer, Numbers
      <4>2. QED
        BY <4>1, <1>7, InvalidateBuffer DEF QueueAge
    <3>2. QED
      BY <3>1 DEF QueueAge
  <2>4. QED
    BY <2>1, <2>2, <2>3, MarkedAges DEF HandAge, MappingIsRecent
<1>8. CASE Clear
  <2>1. /\ UNCHANGED <<pc, elapsed, result>> /\ entry' = [k \in Keys |-> Absent]
        /\ setBuf' = <<>> /\ MarkOld(Keys)
    BY <1>8 DEF Clear
  <2>2. EntryAge' /\ QueueAge'
    BY <2>1 DEF EntryAge, QueueAge, Hit, Absent
  <2>3. QED
    BY <2>1, <2>2, MarkedAges DEF HandAge, MappingIsRecent
<1>9. CASE ApplyWrite
  <2>1. UNCHANGED <<pc, hand, elapsed, result>> /\ setBuf # <<>> /\ setBuf' = Tail(setBuf)
    BY <1>9 DEF ApplyWrite
  <2>2. Head(setBuf) = setBuf[1] /\ 1 \in 1 .. Len(setBuf)
    BY <2>1, Numbers, HeadTailProperties, EmptySeq DEF TypeOK
  <2>3. Len(setBuf') = Len(setBuf) - 1 /\ \A i \in 1 .. Len(setBuf') : setBuf'[i] = setBuf[i + 1]
    BY <2>1, HeadTailProperties DEF TypeOK
  <2>4. QueueAge'
    BY <2>3, Numbers DEF QueueAge
  <2>5. EntryAge'
    <3> DEFINE w == setBuf[1]
    <3>1. w.ttl > 0 => w.map.age + w.ttl =< MaxAge
      BY <2>2 DEF QueueAge
    <3>2. w.key \in Keys
      BY <2>2, Numbers
    <3>3. \/ entry' = [entry EXCEPT ![w.key] = Entry(w.map, w.ttl)]
          \/ entry' = entry
          \/ entry' = [entry EXCEPT ![w.key] = Absent]
      BY <1>9, <2>2 DEF ApplyWrite
    <3> HIDE DEF w
    <3>4. \A k \in Keys : \/ entry'[k] = entry[k]
                          \/ entry'[k].ttl = w.ttl /\ entry'[k].map = w.map
                          \/ entry'[k].ttl = 0
      <4>1. Entry(w.map, w.ttl).ttl = w.ttl /\ Entry(w.map, w.ttl).map = w.map /\ Absent.ttl = 0
        BY DEF Entry, Absent
      <4>2. QED
        BY <3>2, <3>3, <4>1 DEF TypeOK
    <3>5. QED
      BY <3>1, <3>4 DEF EntryAge, Hit
  <2>6. QED
    BY <2>1, <2>4, <2>5 DEF HandAge, MappingIsRecent
<1>10. ASSUME NEW k \in Keys, Evict(k) PROVE AgeInv'
  <2>1. /\ UNCHANGED <<setBuf, pc, hand, elapsed, result>>
        /\ entry' = [entry EXCEPT ![k] = Absent]
    BY <1>10 DEF Evict
  <2>2. EntryAge'
    BY <2>1 DEF EntryAge, Hit, Absent, TypeOK
  <2>3. QED
    BY <2>1, <2>2 DEF HandAge, QueueAge, MappingIsRecent
<1>11. CASE Tick
  <2>1. UNCHANGED <<pc, result>>
    BY <1>11 DEF Tick
  <2>2. HandAge'
    <3>1. ASSUME NEW c \in Callers, pc[c] \in {"answered", "stored"}
          PROVE  hand'[c].age =< elapsed'[c]
      <4>1. hand'[c] = Aged(hand[c]) /\ elapsed'[c] = elapsed[c] + 1
        BY <1>11, <3>1 DEF Tick
      <4>2. hand[c].age =< elapsed[c] /\ hand[c].age =< MaxAge
        BY <3>1, Numbers DEF HandAge
      <4>3. hand'[c].age = hand[c].age + 1
        BY <4>1, <4>2, Numbers, MappingType
      <4>4. QED
        BY <4>1, <4>2, <4>3, Numbers
    <3>2. QED
      BY <3>1, <2>1 DEF HandAge
  <2>3. EntryAge'
    <3>1. ASSUME NEW k \in Keys, entry'[k].present, entry'[k].ttl > 0
          PROVE  entry'[k].map.age + entry'[k].ttl =< MaxAge
      <4>1. entry'[k] = IF Hit(k) THEN Entry(Aged(entry[k].map), entry[k].ttl - 1) ELSE entry[k]
        BY <1>11 DEF Tick
      <4>2. Hit(k)
        BY <3>1, <4>1 DEF Hit
      <4>3. entry[k].map.age + entry[k].ttl =< MaxAge /\ entry[k].ttl > 0
        BY <4>2 DEF EntryAge, Hit
      <4>4. entry'[k].ttl = entry[k].ttl - 1 /\ entry'[k].map = Aged(entry[k].map)
        BY <4>1, <4>2 DEF Entry
      <4>5. Aged(entry[k].map).age = entry[k].map.age + 1
        BY <4>3, Numbers, MappingType
      <4>6. QED
        BY <4>3, <4>4, <4>5, Numbers
    <3>2. QED
      BY <3>1 DEF EntryAge, Hit
  <2>4. QueueAge'
    <3>1. ASSUME NEW i \in 1 .. Len(setBuf), setBuf'[i].ttl > 0
          PROVE  setBuf'[i].map.age + setBuf'[i].ttl =< MaxAge
      <4>1. setBuf'[i].ttl = Less(setBuf[i].ttl) /\ setBuf'[i].map = Aged(setBuf[i].map)
        BY <1>11, TickBuffer
      <4>2. setBuf[i].ttl > 0 /\ setBuf'[i].ttl = setBuf[i].ttl - 1
        BY <3>1, <4>1, Numbers DEF Less
      <4>3. setBuf[i].map.age + setBuf[i].ttl =< MaxAge
        BY <4>2 DEF QueueAge
      <4>4. Aged(setBuf[i].map).age = setBuf[i].map.age + 1
        BY <4>2, <4>3, Numbers, MappingType
      <4>5. QED
        BY <4>1, <4>2, <4>3, <4>4, Numbers
    <3>2. Len(setBuf') = Len(setBuf)
      BY <1>11, TickBuffer
    <3>3. QED
      BY <3>1, <3>2 DEF QueueAge
  <2>5. QED
    BY <2>1, <2>2, <2>3, <2>4 DEF MappingIsRecent
<1>12. CASE UNCHANGED vars
  BY <1>12 DEF vars, libraries, HandAge, EntryAge, QueueAge, MappingIsRecent, Hit
<1>13. QED
  BY <1>1, <1>2, <1>3, <1>4, <1>5, <1>6, <1>7, <1>8, <1>9, <1>10, <1>11, <1>12 DEF Next

LEMMA AgeInit == Init => AgeInv
BY DEF Init, AgeInv, HandAge, EntryAge, QueueAge, MappingIsRecent, Hit, Absent, Nothing

\* Resolve returns no mapping longer than one TTL and one response time after
\* the IAM server stated it, whether it was stored, queued, fetched or shared.
THEOREM MappingsAreRecent == Spec => []MappingIsRecent
<1>1. AgeInv => MappingIsRecent
  BY DEF AgeInv
<1>2. QED
  BY <1>1, TypeInit, TypeStep, AgeInit, AgeStep, PTL DEF Spec

-----------------------------------------------------------------------------
(* What survives an invalidation *)

\* A mapping that was answered before the last invalidation of its key is in
\* the hands of a leader, in the store or in its buffer only if a fetch or a
\* queued write overlapped that invalidation.
OldInHand ==
  \A c \in Callers : pc[c] \in {"answered", "stored"} /\ hand[c].old => excused[key[c]]
OldInStore ==
  \A k \in Keys : entry[k].present /\ entry[k].map.old => excused[k]
OldInQueue ==
  \A i \in 1 .. Len(setBuf) :
    setBuf[i].op = "new" /\ setBuf[i].map.old => excused[setBuf[i].key]

OldInv == OldInHand /\ OldInStore /\ OldInQueue /\ InvalidateHolds

\* What an invalidation records: a fetch under way excuses the keys marked.
LEMMA MarkedOld ==
  ASSUME TypeOK, FlightInv, NEW K, MarkOld(K)
  PROVE  /\ \A c \in Callers : before'[c] = (before[c] \/ key[c] \in K)
         /\ \A k \in Keys : k \notin K => excused'[k] = excused[k]
         /\ \A k \in Keys : k \in K /\ (Queued(k) \/ InFlight(k)) => excused'[k]
         /\ \A c \in Callers :
              /\ key[c] \notin K => hand'[c] = hand[c]
              /\ pc[c] \in {"answered", "stored"} => InFlight(key[c])
<1>1. \A c \in Callers : before'[c] = (before[c] \/ key[c] \in K)
  BY Zenon DEF MarkOld
<1>2. \A k \in Keys : excused'[k] = IF k \in K THEN InFlight(k) \/ Queued(k) ELSE excused[k]
  BY Zenon DEF MarkOld
<1>3. \A c \in Callers : key[c] \notin K => hand'[c] = hand[c]
  BY DEF MarkOld
<1>4. \A c \in Callers : pc[c] \in {"answered", "stored"} => InFlight(key[c])
  BY ConstantsAssumption DEF FlightInv, Flying, InFlight
<1>5. QED
  BY <1>1, <1>2, <1>3, <1>4, Zenon

LEMMA OldStep == TypeOK /\ FlightInv /\ OldInv /\ [Next]_vars => OldInv'
<1> SUFFICES ASSUME TypeOK, FlightInv, OldInv, [Next]_vars PROVE OldInv'
  OBVIOUS
<1> USE DEF OldInv
<1>1. ASSUME NEW c \in Callers, ResolveNoRoles(c) PROVE OldInv'
  <2>1. /\ UNCHANGED <<entry, setBuf, pc, key, hand, before, excused>>
        /\ result' = [result EXCEPT ![c] = [outcome |-> "empty", map |-> Fresh]]
    BY <1>1 DEF ResolveNoRoles, libraries
  <2>2. InvalidateHolds'
    BY <2>1 DEF InvalidateHolds, TypeOK
  <2>3. QED
    BY <2>1, <2>2 DEF OldInHand, OldInStore, OldInQueue
<1>2. ASSUME NEW c \in Callers, NEW k \in Keys, Resolve(c, k) PROVE OldInv'
  <2>1. /\ UNCHANGED <<entry, setBuf, hand, excused>> /\ key' = [key EXCEPT ![c] = k]
        /\ pc[c] = "idle" /\ (pc' = pc \/ pc' = [pc EXCEPT ![c] = "missed"])
    BY <1>2, Zenon DEF Resolve, libraries
  <2>2. \A d \in Callers : d # c => before'[d] = before[d]
    BY <1>2, Zenon DEF Resolve, TypeOK
  <2>3. PICK r : result' = [result EXCEPT ![c] = r]
                 /\ (r = Nothing \/ (Hit(k) /\ r = Granted(entry[k].map)))
    BY <1>2, Zenon DEF Resolve
  <2>4. r.outcome = "perms" /\ r.map.old => excused[k]
    BY <2>3 DEF Nothing, Granted, Hit, OldInStore
  <2>5. InvalidateHolds'
    <3>1. ASSUME NEW d \in Callers, result'[d].outcome = "perms", result'[d].map.old
          PROVE  before'[d] \/ excused'[key'[d]]
      <4>1. CASE d = c
        BY <2>1, <2>3, <2>4, <3>1, <4>1 DEF TypeOK
      <4>2. CASE d # c
        BY <2>1, <2>2, <2>3, <3>1, <4>2 DEF InvalidateHolds, TypeOK
      <4>3. QED
        BY <4>1, <4>2
    <3>2. QED
      BY <3>1 DEF InvalidateHolds
  <2>6. OldInHand'
    BY <2>1 DEF OldInHand, TypeOK
  <2>7. QED
    BY <2>1, <2>5, <2>6 DEF OldInStore, OldInQueue
<1>3. ASSUME NEW c \in Callers, Join(c) PROVE OldInv'
  <2>1. /\ UNCHANGED <<entry, setBuf, key, hand, result, before, excused>>
        /\ pc' = [pc EXCEPT ![c] = "leading"] \/ pc' = [pc EXCEPT ![c] = "waiting"]
    BY <1>3, Zenon DEF Join
  <2>2. QED
    BY <2>1 DEF OldInHand, OldInStore, OldInQueue, InvalidateHolds, TypeOK
<1>4. ASSUME NEW c \in Callers, Answer(c) PROVE OldInv'
  <2>1. UNCHANGED <<entry, setBuf, key, result, before, excused>>
    BY <1>4 DEF Answer, libraries
  <2>2. OldInHand'
    <3>1. /\ \A d \in Callers : d # c => hand'[d] = hand[d] /\ pc'[d] = pc[d]
          /\ hand'[c] = Fresh
      BY <1>4 DEF Answer, TypeOK
    <3>2. ~Fresh.old
      BY DEF Fresh
    <3>3. QED
      BY <2>1, <3>1, <3>2 DEF OldInHand
  <2>3. QED
    BY <2>1, <2>2 DEF OldInStore, OldInQueue, InvalidateHolds
<1>5. ASSUME NEW c \in Callers, Store(c) PROVE OldInv'
  <2>1. /\ UNCHANGED <<key, hand, result, before, excused>>
        /\ pc[c] = "answered" /\ pc' = [pc EXCEPT ![c] = "stored"]
    BY <1>5 DEF Store
  <2>2. hand[c].old => excused[key[c]]
    BY <2>1 DEF OldInHand
  <2>3. OldInHand' /\ InvalidateHolds'
    BY <2>1 DEF OldInHand, InvalidateHolds, TypeOK
  <2>4. OldInStore'
    <3>1. CASE entry' = entry
      BY <2>1, <3>1 DEF OldInStore
    <3>2. CASE entry' = [entry EXCEPT ![key[c]] = Entry(hand[c], TTL)]
      <4>1. \A k \in Keys : entry'[k] = entry[k] \/ (k = key[c] /\ entry'[k].map = hand[c])
        BY <3>2 DEF Entry, TypeOK
      <4>2. QED
        BY <4>1, <2>1, <2>2 DEF OldInStore
    <3>3. QED
      BY <1>5, <3>1, <3>2, Zenon DEF Store
  <2>5. OldInQueue'
    <3> DEFINE w == [op |-> "new", key |-> key[c], ttl |-> TTL, map |-> hand[c]]
    <3>1. CASE setBuf' = setBuf
      BY <2>1, <3>1 DEF OldInQueue
    <3>2. CASE setBuf' = Append(setBuf, w)
      <4>1. w \in Write /\ w.key = key[c] /\ w.map = hand[c]
        BY Numbers, ConstantsAssumption DEF Write
      <4> HIDE DEF w
      <4>2. /\ Len(setBuf') = Len(setBuf) + 1 /\ setBuf'[Len(setBuf) + 1] = w
            /\ \A i \in 1 .. Len(setBuf) : setBuf'[i] = setBuf[i]
        BY <3>2, <4>1, AppendProperties DEF TypeOK
      <4>3. ASSUME NEW i \in 1 .. Len(setBuf'), setBuf'[i].op = "new", setBuf'[i].map.old
            PROVE  excused[setBuf'[i].key]
        <5>1. i \in 1 .. Len(setBuf) \/ i = Len(setBuf) + 1
          BY <4>2, Numbers
        <5>2. QED
          BY <5>1, <4>1, <4>2, <4>3, <2>2 DEF OldInQueue
      <4>4. QED
        BY <2>1, <4>3 DEF OldInQueue
    <3>3. QED
      BY <1>5, <3>1, <3>2, Zenon DEF Store
  <2>6. QED
    BY <2>3, <2>4, <2>5
<1>6. ASSUME NEW c \in Callers, Succeed(c) \/ Fail(c) PROVE OldInv'
  <2>1. PICK r : /\ Land(c, r)
                 /\ r = Failed \/ (pc[c] = "stored" /\ r = Granted(hand[c]))
    BY <1>6, Zenon DEF Succeed, Fail
  <2>2. r.outcome = "perms" /\ r.map.old => excused[key[c]]
    BY <2>1 DEF Failed, Granted, OldInHand
  <2>3. /\ UNCHANGED <<entry, setBuf, key, before, excused>>
        /\ hand' = [hand EXCEPT ![c] = Fresh]
    BY <2>1 DEF Land
  <2>4. InvalidateHolds'
    <3>1. \A d \in Callers : \/ result'[d] = result[d]
                             \/ result'[d] = r /\ key[d] = key[c]
      BY <2>1 DEF Land, Sharers
    <3>2. QED
      BY <2>2, <2>3, <3>1 DEF InvalidateHolds
  <2>5. OldInHand'
    <3>1. c \in Sharers(c)
      BY DEF Sharers
    <3>2. pc' = [d \in Callers |-> IF d \in Sharers(c) THEN "idle" ELSE pc[d]]
      BY <2>1 DEF Land
    <3>3. ASSUME NEW d \in Callers, pc'[d] \in {"answered", "stored"}
          PROVE  pc[d] = pc'[d] /\ hand'[d] = hand[d]
      BY <2>3, <3>1, <3>2, <3>3 DEF TypeOK
    <3>4. QED
      BY <2>3, <3>3 DEF OldInHand
  <2>6. QED
    BY <2>3, <2>4, <2>5 DEF OldInStore, OldInQueue
<1>7. ASSUME NEW k \in Keys, Invalidate(k) PROVE OldInv'
  <2>1. /\ UNCHANGED <<pc, key, result>> /\ entry' = [entry EXCEPT ![k] = Absent]
        /\ MarkOld({k})
    BY <1>7 DEF Invalidate, Deleted
  <2>2. OldInHand'
    <3>1. ASSUME NEW c \in Callers, pc[c] \in {"answered", "stored"}, hand'[c].old
          PROVE  excused'[key[c]]
      <4>1. key[c] \in Keys /\ InFlight(key[c])
        BY <2>1, <3>1, MarkedOld, Numbers
      <4>2. CASE key[c] = k
        BY <2>1, <4>1, <4>2, MarkedOld
      <4>3. CASE key[c] # k
        BY <2>1, <3>1, <4>1, <4>3, MarkedOld DEF OldInHand
      <4>4. QED
        BY <4>2, <4>3
    <3>2. QED
      BY <2>1, <3>1 DEF OldInHand
  <2>3. OldInStore'
    <3>1. ASSUME NEW j \in Keys, entry'[j].present, entry'[j].map.old PROVE excused'[j]
      <4>1. j # k /\ entry'[j] = entry[j]
        BY <2>1, <3>1 DEF Absent, TypeOK
      <4>2. QED
        BY <2>1, <3>1, <4>1, MarkedOld DEF OldInStore
    <3>2. QED
      BY <3>1 DEF OldInStore
  <2>4. OldInQueue'
    <3>1. ASSUME NEW i \in 1 .. Len(setBuf'), setBuf'[i].op = "new", setBuf'[i].map.old
          PROVE  excused'[setBuf'[i].key]
      <4>1. i \in 1 .. Len(setBuf)
        BY <1>7, <3>1, InvalidateBuffer, Numbers
      <4>2. setBuf[i].op = "new" /\ setBuf'[i].key = setBuf[i].key /\ setBuf[i].key \in Keys
        BY <1>7, <3>1, <4>1, InvalidateBuffer, Numbers
      <4>3. CASE setBuf[i].key = k
        <5>1. Queued(k)
          BY <4>1, <4>2, <4>3 DEF Queued
        <5>2. QED
          BY <2>1, <4>2, <4>3, <5>1, MarkedOld
      <4>4. CASE setBuf[i].key # k
        <5>1. setBuf'[i].map = setBuf[i].map
          BY <1>7, <4>1, <4>4, InvalidateBuffer
        <5>2. QED
          BY <2>1, <3>1, <4>1, <4>2, <4>4, <5>1, MarkedOld DEF OldInQueue
      <4>5. QED
        BY <4>3, <4>4
    <3>2. QED
      BY <3>1 DEF OldInQueue
  <2>5. InvalidateHolds'
    BY <2>1, MarkedOld, Numbers DEF InvalidateHolds
  <2>6. QED
    BY <2>2, <2>3, <2>4, <2>5
<1>8. CASE Clear
  <2>1. /\ UNCHANGED <<pc, key, result>> /\ entry' = [k \in Keys |-> Absent]
        /\ setBuf' = <<>> /\ MarkOld(Keys)
    BY <1>8 DEF Clear
  <2>2. OldInStore' /\ OldInQueue'
    BY <2>1 DEF OldInStore, OldInQueue, Absent
  <2>3. OldInHand' /\ InvalidateHolds'
    BY <2>1, MarkedOld, Numbers DEF OldInHand, InvalidateHolds
  <2>4. QED
    BY <2>2, <2>3
<1>9. CASE ApplyWrite
  <2>1. /\ UNCHANGED <<pc, key, hand, result, before, excused>>
        /\ setBuf # <<>> /\ setBuf' = Tail(setBuf)
    BY <1>9 DEF ApplyWrite
  <2>2. Head(setBuf) = setBuf[1] /\ 1 \in 1 .. Len(setBuf)
    BY <2>1, Numbers, HeadTailProperties, EmptySeq DEF TypeOK
  <2>3. Len(setBuf') = Len(setBuf) - 1 /\ \A i \in 1 .. Len(setBuf') : setBuf'[i] = setBuf[i + 1]
    BY <2>1, HeadTailProperties DEF TypeOK
  <2>4. OldInQueue'
    BY <2>1, <2>3, Numbers DEF OldInQueue
  <2>5. OldInStore'
    <3> DEFINE w == setBuf[1]
    <3>1. w.op = "new" /\ w.map.old => excused[w.key]
      BY <2>2 DEF OldInQueue
    <3>2. w.key \in Keys
      BY <2>2, Numbers
    <3>3. \/ w.op = "new" /\ entry' = [entry EXCEPT ![w.key] = Entry(w.map, w.ttl)]
          \/ entry' = entry
          \/ entry' = [entry EXCEPT ![w.key] = Absent]
      BY <1>9, <2>2 DEF ApplyWrite
    <3> HIDE DEF w
    <3>4. \A k \in Keys : \/ entry'[k] = entry[k]
                          \/ w.op = "new" /\ k = w.key /\ entry'[k].map = w.map
                          \/ ~entry'[k].present
      <4>1. Entry(w.map, w.ttl).map = w.map /\ ~Absent.present
        BY DEF Entry, Absent
      <4>2. QED
        BY <3>2, <3>3, <4>1 DEF TypeOK
    <3>5. QED
      BY <2>1, <3>1, <3>4 DEF OldInStore
  <2>6. QED
    BY <2>1, <2>4, <2>5 DEF OldInHand, InvalidateHolds
<1>10. ASSUME NEW k \in Keys, Evict(k) PROVE OldInv'
  <2>1. /\ UNCHANGED <<setBuf, pc, key, hand, result, before, excused>>
        /\ entry' = [entry EXCEPT ![k] = Absent]
    BY <1>10 DEF Evict
  <2>2. OldInStore'
    BY <2>1 DEF OldInStore, Absent, TypeOK
  <2>3. QED
    BY <2>1, <2>2 DEF OldInHand, OldInQueue, InvalidateHolds
<1>11. CASE Tick
  <2>1. UNCHANGED <<pc, key, result, before, excused>>
    BY <1>11 DEF Tick
  <2>2. OldInHand'
    <3>1. \A c \in Callers : hand'[c].old = hand[c].old
      BY <1>11, Numbers, MappingType DEF Tick
    <3>2. QED
      BY <2>1, <3>1 DEF OldInHand
  <2>3. OldInStore'
    <3>1. ASSUME NEW k \in Keys
          PROVE  /\ entry'[k].map.old = entry[k].map.old
                 /\ entry'[k].present => entry[k].present
      <4>1. entry'[k] = IF Hit(k) THEN Entry(Aged(entry[k].map), entry[k].ttl - 1) ELSE entry[k]
        BY <1>11 DEF Tick
      <4>2. Hit(k) => entry[k].present /\ entry'[k].map = Aged(entry[k].map)
        BY <4>1 DEF Hit, Entry
      <4>3. QED
        BY <4>1, <4>2, Numbers, MappingType
    <3>2. QED
      BY <2>1, <3>1 DEF OldInStore
  <2>4. OldInQueue'
    <3>1. Len(setBuf') = Len(setBuf)
      BY <1>11, TickBuffer
    <3>2. ASSUME NEW i \in 1 .. Len(setBuf)
          PROVE  /\ setBuf'[i].op = setBuf[i].op /\ setBuf'[i].key = setBuf[i].key
                 /\ setBuf'[i].map.old = setBuf[i].map.old
      BY <1>11, TickBuffer, Numbers, MappingType
    <3>3. QED
      BY <2>1, <3>1, <3>2 DEF OldInQueue
  <2>5. QED
    BY <2>1, <2>2, <2>3, <2>4 DEF InvalidateHolds
<1>12. CASE UNCHANGED vars
  BY <1>12 DEF vars, libraries, OldInHand, OldInStore, OldInQueue, InvalidateHolds
<1>13. QED
  BY <1>1, <1>2, <1>3, <1>4, <1>5, <1>6, <1>7, <1>8, <1>9, <1>10, <1>11, <1>12 DEF Next

LEMMA OldInit == Init => OldInv
BY DEF Init, OldInv, OldInHand, OldInStore, OldInQueue, InvalidateHolds, Fresh, Absent, Nothing

\* A call that began after an invalidation of its key gets no mapping answered
\* before it, unless a fetch or a queued write of the key overlapped it.
THEOREM InvalidationHolds == Spec => []InvalidateHolds
<1>1. OldInv => InvalidateHolds
  BY DEF OldInv
<1>2. QED
  BY <1>1, TypeInit, TypeStep, FlightInit, FlightStep, OldInit, OldStep, PTL DEF Spec
=============================================================================
