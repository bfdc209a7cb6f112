------------------------- MODULE PermissionResolver -------------------------
(***************************************************************************)
(* HttpResolver of authz/http_resolver.go: Resolve, Invalidate and Clear   *)
(* over a ristretto cache and a singleflight group, called by concurrent   *)
(* requests.  ristretto and singleflight are libraries: the store with its *)
(* write buffer, and the flight per key, are modelled from how Resolve     *)
(* uses them.                                                              *)
(*                                                                         *)
(* A mapping is known by its age, the time since the IAM server answered   *)
(* with it, and by whether the key was invalidated since then.             *)
(***************************************************************************)
EXTENDS Integers, Sequences

CONSTANTS
  Callers,     \* goroutines inside Resolve
  Keys,        \* cache keys: a clientID with a set of roles
  TTL,         \* HttpResolverOptions.TTL
  Latency,     \* longest time from the server's answer to its use
  MaxPending,  \* length of ristretto's write buffer
  Nobody

ASSUME ConstantsAssumption ==
  /\ TTL \in Nat \ {0}
  /\ Latency \in Nat
  /\ MaxPending \in Nat \ {0}
  /\ Nobody \notin Callers

VARIABLES
  failOpen,  \* HttpResolver.failOpen, fixed at construction
  entry,     \* ristretto's store; ttl 0 is an expired entry not yet removed
  setBuf,    \* ristretto's write buffer, applied in order by its goroutine
  flight,    \* the singleflight leader of each key
  pc,        \* where each goroutine is
  key,       \* the key its call resolves
  hand,      \* the mapping a leader received
  elapsed,   \* time since it was answered
  result,    \* what Resolve last returned: its outcome and mapping
  before,    \* history: the call began before the last invalidation of its key
  excused    \* history: that invalidation overlapped a fetch or queued write

libraries == <<entry, setBuf, flight>>
vars == <<failOpen, libraries, pc, key, hand, elapsed, result, before, excused>>

MaxAge == TTL + Latency

\* A mapping answered just now.
Fresh == [age |-> 0, old |-> FALSE]
Mapping == [age : 0 .. MaxAge + 1, old : BOOLEAN]
Absent == [present |-> FALSE, ttl |-> 0, map |-> Fresh]
Entry(m, t) == [present |-> TRUE, ttl |-> t, map |-> m]
Write == [op : {"new", "del"}, key : Keys, ttl : 0 .. TTL, map : Mapping]

TypeOK ==
  /\ failOpen \in BOOLEAN
  /\ entry \in [Keys -> [present : BOOLEAN, ttl : 0 .. TTL, map : Mapping]]
  /\ setBuf \in Seq(Write) /\ Len(setBuf) =< MaxPending
  /\ flight \in [Keys -> Callers \cup {Nobody}]
  /\ pc \in [Callers -> {"idle", "missed", "leading", "answered", "stored",
                         "waiting"}]
  /\ key \in [Callers -> Keys]
  /\ hand \in [Callers -> Mapping]
  /\ elapsed \in [Callers -> 0 .. Latency]
  /\ result \in [Callers -> [outcome : {"none", "perms", "empty", "error"},
                             map : Mapping]]
  /\ before \in [Callers -> BOOLEAN]
  /\ excused \in [Keys -> BOOLEAN]

Nothing == [outcome |-> "none", map |-> Fresh]

Init ==
  /\ failOpen \in BOOLEAN
  /\ entry = [k \in Keys |-> Absent]
  /\ setBuf = <<>>
  /\ flight = [k \in Keys |-> Nobody]
  /\ pc = [c \in Callers |-> "idle"]
  /\ key \in [Callers -> Keys]
  /\ hand = [c \in Callers |-> Fresh]
  /\ elapsed = [c \in Callers |-> 0]
  /\ result = [c \in Callers |-> Nothing]
  /\ before = [c \in Callers |-> FALSE]
  /\ excused = [k \in Keys |-> FALSE]

-----------------------------------------------------------------------------
(* Resolve *)

\* Mutant: an expired entry is still served.
HitExpired(k) == entry[k].present

\* cache.Get finds the key and it has not expired.
Hit(k) == entry[k].present /\ entry[k].ttl > 0

Granted(m) == [outcome |-> "perms", map |-> m]

\* What Resolve returns when the shared request failed.
Failed == [outcome |-> IF failOpen THEN "empty" ELSE "error", map |-> Fresh]

\* A call without roles touches neither the cache nor the server.
ResolveNoRoles(c) ==
  /\ pc[c] = "idle"
  /\ result' = [result EXCEPT ![c] = [outcome |-> "empty", map |-> Fresh]]
  /\ UNCHANGED <<failOpen, libraries, pc, key, hand, elapsed, before, excused>>

Resolve(c, k) ==
  /\ pc[c] = "idle"
  /\ key' = [key EXCEPT ![c] = k]
  /\ before' = [before EXCEPT ![c] = FALSE]
  /\ \/ /\ Hit(k)
        /\ result' = [result EXCEPT ![c] = Granted(entry[k].map)]
        /\ pc' = pc
     \/ /\ ~Hit(k)
        /\ result' = [result EXCEPT ![c] = Nothing]
        /\ pc' = [pc EXCEPT ![c] = "missed"]
  /\ UNCHANGED <<failOpen, libraries, hand, elapsed, excused>>

\* Mutant: requests of a key are not joined.
NeverFlying(k) == FALSE

InFlight(k) == flight[k] # Nobody

\* sf.Do: lead the key's flight, or wait for the one under way.
Join(c) ==
  /\ pc[c] = "missed"
  /\ \/ /\ ~InFlight(key[c])
        /\ flight' = [flight EXCEPT ![key[c]] = c]
        /\ pc' = [pc EXCEPT ![c] = "leading"]
     \/ /\ InFlight(key[c])
        /\ pc' = [pc EXCEPT ![c] = "waiting"]
        /\ flight' = flight
  /\ UNCHANGED <<failOpen, entry, setBuf, key, hand, elapsed, result, before,
                 excused>>

\* The IAM server answers ResolvePermissions with the mapping of the moment.
Answer(c) ==
  /\ pc[c] = "leading"
  /\ pc' = [pc EXCEPT ![c] = "answered"]
  /\ hand' = [hand EXCEPT ![c] = Fresh]
  /\ elapsed' = [elapsed EXCEPT ![c] = 0]
  /\ UNCHANGED <<failOpen, libraries, key, result, before, excused>>

\* Mutant: a write is queued although the buffer is full.
NeverFull == FALSE

BufferFull == Len(setBuf) = MaxPending

\* cache.SetWithTTL: an entry still in the store is replaced at once, another
\* one is queued, and a full buffer drops it.
Store(c) ==
  /\ pc[c] = "answered"
  /\ pc' = [pc EXCEPT ![c] = "stored"]
  /\ LET k == key[c] IN
       \/ /\ entry[k].present
          /\ entry' = [entry EXCEPT ![k] = Entry(hand[c], TTL)]
          /\ setBuf' = setBuf
       \/ /\ ~entry[k].present
          /\ ~BufferFull
          /\ setBuf' = Append(setBuf, [op |-> "new", key |-> k, ttl |-> TTL,
                                       map |-> hand[c]])
          /\ entry' = entry
       \/ /\ ~entry[k].present
          /\ BufferFull
          /\ UNCHANGED <<entry, setBuf>>
  /\ UNCHANGED <<failOpen, flight, key, hand, elapsed, result, before, excused>>

\* Mutant: the outcome reaches only the leader.
LeaderOnly(c) == {c}

\* The leader and everyone who joined its flight.
Sharers(c) == {d \in Callers : d = c \/ (pc[d] = "waiting" /\ key[d] = key[c])}

\* The leader's function returned: the flight is forgotten and its outcome r
\* goes to all who share it.
Land(c, r) ==
  /\ flight' = [flight EXCEPT ![key[c]] = Nobody]
  /\ pc' = [d \in Callers |-> IF d \in Sharers(c) THEN "idle" ELSE pc[d]]
  /\ result' = [d \in Callers |-> IF d \in Sharers(c) THEN r ELSE result[d]]
  /\ hand' = [hand EXCEPT ![c] = Fresh]
  /\ elapsed' = [elapsed EXCEPT ![c] = 0]
  /\ UNCHANGED <<failOpen, entry, setBuf, key, before, excused>>

Succeed(c) == pc[c] = "stored" /\ Land(c, Granted(hand[c]))

\* ResolvePermissions gives up, or the leader's own context is cancelled: its
\* followers fail with it.  Nothing is stored.
Fail(c) == pc[c] \in {"leading", "answered"} /\ Land(c, Failed)

-----------------------------------------------------------------------------
(* Invalidation, ristretto's goroutine, time *)

Queued(k) == \E i \in 1 .. Len(setBuf) : setBuf[i].op = "new" /\ setBuf[i].key = k

Outdate(m) == [m EXCEPT !.old = TRUE]

\* History: mappings of the keys in K answered so far are old from now on.
MarkOld(K) ==
  /\ hand' = [c \in Callers |-> IF key[c] \in K /\ pc[c] \in {"answered", "stored"}
                                  THEN Outdate(hand[c]) ELSE hand[c]]
  /\ before' = [c \in Callers |-> before[c] \/ key[c] \in K]
  /\ excused' = [k \in Keys |-> IF k \in K THEN InFlight(k) \/ Queued(k)
                                ELSE excused[k]]

\* Mutant: the entry goes only when the queued deletion is applied.
DeletedLater(k) == entry

Deleted(k) == [entry EXCEPT ![k] = Absent]

\* cache.Del removes the entry at once and queues a deletion behind the writes
\* queued before it.  Requests under way are not told.
Invalidate(k) ==
  /\ ~BufferFull
  /\ entry' = Deleted(k)
  /\ setBuf' = [i \in 1 .. Len(setBuf) + 1 |->
                  IF i > Len(setBuf)
                    THEN [op |-> "del", key |-> k, ttl |-> 0, map |-> Fresh]
                  ELSE IF setBuf[i].key = k
                    THEN [setBuf[i] EXCEPT !.map = Outdate(setBuf[i].map)]
                  ELSE setBuf[i]]
  /\ MarkOld({k})
  /\ UNCHANGED <<failOpen, flight, pc, key, elapsed, result>>

\* cache.Clear empties the store and drains the buffer.
Clear ==
  /\ entry' = [k \in Keys |-> Absent]
  /\ setBuf' = <<>>
  /\ MarkOld(Keys)
  /\ UNCHANGED <<failOpen, flight, pc, key, elapsed, result>>

\* The buffer's head is applied; the admission policy may refuse a new entry.
ApplyWrite ==
  /\ setBuf # <<>>
  /\ setBuf' = Tail(setBuf)
  /\ LET w == Head(setBuf) IN
       \/ /\ w.op = "new"
          /\ entry' = [entry EXCEPT ![w.key] = Entry(w.map, w.ttl)]
       \/ /\ w.op = "new"
          /\ entry' = entry
       \/ /\ w.op = "del"
          /\ entry' = [entry EXCEPT ![w.key] = Absent]
  /\ UNCHANGED <<failOpen, flight, pc, key, hand, elapsed, result, before,
                 excused>>

\* An entry is evicted for another, or removed some time after it expired.
Evict(k) ==
  /\ entry[k].present
  /\ entry' = [entry EXCEPT ![k] = Absent]
  /\ UNCHANGED <<failOpen, setBuf, flight, pc, key, hand, elapsed, result,
                 before, excused>>

Less(n) == IF n > 0 THEN n - 1 ELSE 0
Aged(m) == [m EXCEPT !.age = IF m.age =< MaxAge THEN m.age + 1 ELSE m.age]

\* An answer is used within Latency: the HTTP client's timeout.
Tick ==
  /\ \A c \in Callers :
       pc[c] \in {"answered", "stored"} => elapsed[c] < Latency
  /\ entry' = [k \in Keys |-> IF Hit(k)
                 THEN Entry(Aged(entry[k].map), entry[k].ttl - 1) ELSE entry[k]]
  /\ setBuf' = [i \in 1 .. Len(setBuf) |->
                  [setBuf[i] EXCEPT !.ttl = Less(setBuf[i].ttl),
                                    !.map = Aged(setBuf[i].map)]]
  /\ hand' = [c \in Callers |-> IF pc[c] \in {"answered", "stored"}
                                  THEN Aged(hand[c]) ELSE hand[c]]
  /\ elapsed' = [c \in Callers |-> IF pc[c] \in {"answered", "stored"}
                                     THEN elapsed[c] + 1 ELSE elapsed[c]]
  /\ UNCHANGED <<failOpen, flight, pc, key, result, before, excused>>

Next ==
  \/ \E c \in Callers :
       \/ ResolveNoRoles(c) \/ \E k \in Keys : Resolve(c, k)
       \/ Join(c) \/ Answer(c) \/ Store(c) \/ Succeed(c) \/ Fail(c)
  \/ \E k \in Keys : Invalidate(k) \/ Evict(k)
  \/ Clear \/ ApplyWrite \/ Tick

Spec == Init /\ [][Next]_vars

(***************************************************************************)
(* Goroutines keep running, and a ResolvePermissions call ends: the client *)
(* bounds its attempts, their duration and the time it spends retrying.    *)
(***************************************************************************)
Fairness ==
  \A c \in Callers : /\ WF_vars(Join(c))
                     /\ WF_vars(Answer(c) \/ Store(c) \/ Fail(c))
                     /\ WF_vars(Succeed(c))

FairSpec == Spec /\ Fairness
-----------------------------------------------------------------------------
(* Properties *)

\* Permissions are never returned longer than one TTL and one response time
\* after the IAM server stated them: hits, joined flights, queued writes alike.
MappingIsRecent ==
  \A c \in Callers :
    result[c].outcome = "perms" => result[c].map.age =< MaxAge

\* A call made after Invalidate (or Clear) returned gets a mapping answered
\* after it, unless a fetch or a queued write of the key overlapped the
\* invalidation: those are the only ways an invalidated mapping survives.
InvalidateHolds ==
  \A c \in Callers :
    result[c].outcome = "perms" /\ result[c].map.old
      => before[c] \/ excused[key[c]]

\* Followers share their leader's request and nothing older: singleflight never
\* has two requests of a key under way.
OneRequestPerKey ==
  \A c, d \in Callers :
    /\ pc[c] \in {"leading", "answered", "stored"}
    /\ pc[d] \in {"leading", "answered", "stored"}
    /\ key[c] = key[d]
    => c = d

\* Every call returns, followers of a leader that fails or is cancelled too.
CallsReturn == \A c \in Callers : pc[c] # "idle" ~> pc[c] = "idle"
=============================================================================
