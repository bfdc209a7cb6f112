------------------------ MODULE ManifestSync_proofs ------------------------
(***************************************************************************)
(* Proofs about ManifestSync for every set of commands and every number of *)
(* retries, attempts, deadline, timeout and delay.                         *)
(***************************************************************************)
EXTENDS ManifestSync, SequenceTheorems, TLAPS

-----------------------------------------------------------------------------
(* Sequences *)

\* What is left of a sequence when its k-th element is taken out.
LEMMA RemoveAtProperties ==
  ASSUME NEW S, NEW s \in Seq(S), NEW k \in 1 .. Len(s)
  PROVE  /\ RemoveAt(s, k) \in Seq(S)
         /\ Len(RemoveAt(s, k)) = Len(s) - 1
         /\ \A i \in 1 .. Len(s) - 1 :
              RemoveAt(s, k)[i] = IF i < k THEN s[i] ELSE s[i + 1]
<1> DEFINE front == SubSeq(s, 1, k - 1)
           back == SubSeq(s, k + 1, Len(s))
<1>1. Len(s) \in Nat /\ k \in Nat /\ \A i \in 1 .. Len(s) : s[i] \in S
  BY LenProperties, ElementOfSeq
<1>2. /\ front \in Seq(S) /\ Len(front) = k - 1
      /\ \A i \in 1 .. k - 1 : front[i] = s[i]
  <2>1. /\ \A i \in 1 .. k - 1 : s[i] \in S
        /\ 1 \in Int /\ k - 1 \in Int
    BY <1>1
  <2>2. /\ front \in Seq(S)
        /\ Len(front) = IF 1 =< k - 1 THEN (k - 1) - 1 + 1 ELSE 0
        /\ \A i \in 1 .. (k - 1) - 1 + 1 : front[i] = s[1 + i - 1]
    BY <2>1, SubSeqProperties
  <2>3. QED
    BY <1>1, <2>2
<1>3. /\ back \in Seq(S) /\ Len(back) = Len(s) - k
      /\ \A i \in 1 .. Len(s) - k : back[i] = s[k + i]
  <2>1. /\ \A i \in k + 1 .. Len(s) : s[i] \in S
        /\ k + 1 \in Int /\ Len(s) \in Int
    BY <1>1
  <2>2. /\ back \in Seq(S)
        /\ Len(back) = IF k + 1 =< Len(s) THEN Len(s) - (k + 1) + 1 ELSE 0
        /\ \A i \in 1 .. Len(s) - (k + 1) + 1 : back[i] = s[(k + 1) + i - 1]
    BY <2>1, SubSeqProperties
  <2>3. QED
    BY <1>1, <2>2
<1> HIDE DEF front, back
<1>4. /\ front \o back \in Seq(S)
      /\ Len(front \o back) = Len(front) + Len(back)
      /\ \A i \in 1 .. Len(front) + Len(back) :
           (front \o back)[i] = IF i =< Len(front) THEN front[i]
                                                  ELSE back[i - Len(front)]
  BY <1>2, <1>3, ConcatProperties
<1>5. ASSUME NEW i \in 1 .. Len(s) - 1
      PROVE  (front \o back)[i] = IF i < k THEN s[i] ELSE s[i + 1]
  <2>1. CASE i < k
    BY <1>1, <1>2, <1>3, <1>4, <2>1
  <2>2. CASE i >= k
    <3>1. i - (k - 1) \in 1 .. Len(s) - k /\ i \in 1 .. Len(front) + Len(back)
      BY <1>1, <1>2, <1>3, <2>2
    <3>2. (front \o back)[i] = back[i - (k - 1)]
      BY <1>1, <1>2, <1>4, <2>2, <3>1
    <3>3. k + (i - (k - 1)) = i + 1
      BY <1>1
    <3>4. QED
      BY <1>1, <1>3, <2>2, <3>1, <3>2, <3>3
  <2>3. i < k \/ i >= k
    BY <1>1
  <2>4. QED
    BY <2>1, <2>2, <2>3
<1> DEFINE r == front \o back
<1>6. /\ r \in Seq(S) /\ Len(r) = Len(s) - 1
      /\ \A i \in 1 .. Len(s) - 1 : r[i] = IF i < k THEN s[i] ELSE s[i + 1]
  BY <1>1, <1>2, <1>3, <1>4, <1>5
<1>7. RemoveAt(s, k) = r
  BY DEF RemoveAt, front, back
<1> HIDE DEF r
<1>8. QED
  BY <1>6, <1>7

-----------------------------------------------------------------------------
(* The inductive invariant *)

\* The types that every step keeps: as TypeOK, but for the bounds of a delay.
Types ==
  /\ owner \in Commands \cup {Nobody}
  /\ queue \in Seq(Commands)
  /\ starving \in BOOLEAN
  /\ ttl \in Nat /\ life \in Nat
  /\ phase \in [Commands -> {"idle", "locking", "token", "sync"}]
  /\ step \in [Commands -> {"ready", "sent", "waiting"}]
  /\ attempt \in [Commands -> 0 .. MaxRetries]
  /\ budget \in [Commands -> 0 .. Attempts]
  /\ timer \in [Commands -> Nat]
  /\ reply \in [Commands -> Replies \cup {NoReply}]
  /\ outcome \in [Commands -> {"none", "success", "refused", "failed"}]
  /\ age \in [Commands -> Nat]
  /\ hand \in [Commands -> Nat]
  /\ sent \in [Commands -> Nat]
  /\ accepted \in [Commands -> BOOLEAN]

Waits(c) == phase[c] = "locking"

\* The commands that wait for the mutex are in its queue, each once, and those
\* in front began no later.
Queued ==
  /\ \A c \in Commands : Waits(c) <=> \E i \in 1 .. Len(queue) : queue[i] = c
  /\ \A i \in 1 .. Len(queue), j \in 1 .. Len(queue) :
       i < j => queue[i] # queue[j] /\ age[queue[j]] =< age[queue[i]]

\* A command that requests a token holds the mutex, and no other does.
Owned == \A c \in Commands : phase[c] = "token" <=> owner = c

\* While nobody was passed over, those who wait are younger than the holder of
\* the mutex; the one that takes another's turn lets it wait a deadline longer.
Turns ==
  \A c \in Commands :
    /\ phase[c] = "idle" => age[c] = 0
    /\ age[c] =< 2 * Deadline
    /\ Waits(c) /\ ~starving => age[c] =< Deadline
    /\ Waits(c) /\ ~starving /\ owner # Nobody => age[c] =< age[owner]
    /\ Waits(c) /\ starving /\ owner # Nobody => age[c] =< age[owner] + Deadline

\* The loop of a command counts what it sends; a sync request answered with
\* success was accepted.
LoopOf(c) ==
  /\ step[c] # "ready" => Requesting(c)
  /\ step[c] = "waiting" => attempt[c] < MaxRetries /\ timer[c] =< MaxDelay
  /\ step[c] = "sent" => timer[c] =< AttemptTimeout /\ sent[c] > 0
  /\ phase[c] # "idle" => sent[c] + budget[c] = Attempts
  /\ phase[c] = "sync" /\ reply[c] = "ok" => accepted[c]

Looped == \A c \in Commands : LoopOf(c)

IInv == Types /\ Queued /\ Owned /\ Turns /\ Looped

-----------------------------------------------------------------------------
(* The mutex *)

\* The head of the queue began before all others that wait.
LEMMA HeadIsOldest ==
  ASSUME Types, Queued, NEW c \in Commands, Waits(c)
  PROVE  /\ queue # <<>> /\ Head(queue) \in Commands
         /\ Waits(Head(queue))
         /\ age[c] =< age[Head(queue)]
<1>1. queue \in Seq(Commands) /\ Len(queue) \in Nat
  BY LenProperties DEF Types
<1>2. PICK i \in 1 .. Len(queue) : queue[i] = c
  BY DEF Queued
<1>3. 1 \in 1 .. Len(queue)
  BY <1>1, <1>2
<1>4. queue # <<>> /\ Head(queue) = queue[1]
  BY <1>1, <1>3, EmptySeq
<1>5. queue[1] \in Commands
  BY <1>1, <1>3, ElementOfSeq
<1>6. Waits(queue[1])
  BY <1>3, <1>5 DEF Queued
<1>7. age[c] =< age[queue[1]]
  <2>1. CASE i = 1
    BY <1>2, <2>1 DEF Types
  <2>2. CASE 1 < i
    BY <1>2, <1>3, <2>2 DEF Queued
  <2>3. QED
    BY <2>1, <2>2
<1>8. QED
  BY <1>4, <1>5, <1>6, <1>7

\* A command that calls Lock goes to the end of the queue.
LEMMA EnqueueKeepsQueue ==
  ASSUME Types, Queued, NEW c \in Commands, phase[c] = "idle", age[c] = 0,
         phase' = [phase EXCEPT ![c] = "locking"],
         queue' = Append(queue, c), UNCHANGED age
  PROVE  queue' \in Seq(Commands) /\ Queued'
<1>1. queue \in Seq(Commands) /\ Len(queue) \in Nat
  BY LenProperties DEF Types
<1>2. /\ queue' \in Seq(Commands)
      /\ Len(queue') = Len(queue) + 1
      /\ \A i \in 1 .. Len(queue) : queue'[i] = queue[i]
      /\ queue'[Len(queue) + 1] = c
  BY <1>1, AppendProperties
<1>3. \A i \in 1 .. Len(queue) : queue[i] \in Commands /\ queue[i] # c
  BY <1>1, ElementOfSeq DEF Queued, Waits
<1>4. ASSUME NEW d \in Commands
      PROVE  Waits(d)' <=> \E i \in 1 .. Len(queue') : queue'[i] = d
  <2>1. CASE d = c
    BY <1>1, <1>2, <2>1 DEF Types, Waits
  <2>2. CASE d # c
    <3>1. Waits(d)' <=> Waits(d)
      BY <2>2 DEF Types, Waits
    <3>2. (\E i \in 1 .. Len(queue) : queue[i] = d)
            <=> \E i \in 1 .. Len(queue') : queue'[i] = d
      BY <1>1, <1>2, <2>2
    <3>3. QED
      BY <3>1, <3>2 DEF Queued
  <2>3. QED
    BY <2>1, <2>2
<1>5. ASSUME NEW i \in 1 .. Len(queue'), NEW j \in 1 .. Len(queue'), i < j
      PROVE  queue'[i] # queue'[j] /\ age'[queue'[j]] =< age'[queue'[i]]
  <2>1. i \in 1 .. Len(queue) /\ queue'[i] = queue[i]
    BY <1>1, <1>2, <1>5
  <2>2. CASE j \in 1 .. Len(queue)
    BY <1>2, <1>5, <2>1, <2>2 DEF Queued
  <2>3. CASE j = Len(queue) + 1
    <3>1. age[queue[i]] \in Nat
      BY <1>3, <2>1 DEF Types
    <3>2. QED
      BY <1>2, <1>3, <2>1, <2>3, <3>1
  <2>4. QED
    BY <1>1, <1>2, <2>2, <2>3
<1>6. QED
  BY <1>2, <1>4, <1>5 DEF Queued

\* A command that gets the mutex leaves the queue and keeps the others' order.
LEMMA LockKeepsQueue ==
  ASSUME Types, Queued, NEW c \in Commands, Lock(c),
         NEW p \in {"token", "sync"}, phase' = [phase EXCEPT ![c] = p],
         UNCHANGED age
  PROVE  queue' \in Seq(Commands) /\ Queued' /\ Waits(c)
<1>1. queue \in Seq(Commands) /\ Len(queue) \in Nat /\ DOMAIN queue = 1 .. Len(queue)
  BY LenProperties DEF Types
<1>2. PICK k \in 1 .. Len(queue) : queue[k] = c /\ queue' = RemoveAt(queue, k)
  BY <1>1 DEF Lock
<1>3. /\ queue' \in Seq(Commands)
      /\ Len(queue') = Len(queue) - 1
      /\ \A i \in 1 .. Len(queue) - 1 :
           queue'[i] = IF i < k THEN queue[i] ELSE queue[i + 1]
  BY <1>1, <1>2, RemoveAtProperties
<1>4. \A i \in 1 .. Len(queue) : i # k => queue[i] # c
  BY <1>1, <1>2 DEF Queued
<1>5. Waits(c)
  BY <1>2 DEF Queued
<1>6. ASSUME NEW d \in Commands
      PROVE  Waits(d)' <=> \E i \in 1 .. Len(queue') : queue'[i] = d
  <2>1. CASE d = c
    <3>1. ~Waits(d)'
      BY <2>1 DEF Types, Waits
    <3>2. ASSUME NEW i \in 1 .. Len(queue') PROVE queue'[i] # c
      <4>1. i < k \/ (i + 1 > k /\ ~(i < k))
        BY <1>1, <1>2, <1>3
      <4>2. i \in 1 .. Len(queue) /\ i + 1 \in 1 .. Len(queue)
        BY <1>1, <1>3
      <4>3. QED
        BY <1>3, <1>4, <4>1, <4>2
    <3>3. QED
      BY <2>1, <3>1, <3>2
  <2>2. CASE d # c
    <3>1. Waits(d)' <=> Waits(d)
      BY <2>2 DEF Types, Waits
    <3>2. ASSUME NEW i \in 1 .. Len(queue), queue[i] = d
          PROVE  \E j \in 1 .. Len(queue') : queue'[j] = d
      <4>1. i # k
        BY <1>2, <2>2, <3>2
      <4>2. CASE i < k
        BY <1>1, <1>3, <3>2, <4>2
      <4>3. CASE i > k
        <5>1. /\ i - 1 \in 1 .. Len(queue) - 1 /\ ~(i - 1 < k)
              /\ (i - 1) + 1 = i
          BY <1>1, <4>3
        <5>2. queue'[i - 1] = d
          BY <1>3, <3>2, <5>1
        <5>3. QED
          BY <1>3, <5>1, <5>2
      <4>4. QED
        BY <4>1, <4>2, <4>3
    <3>3. ASSUME NEW j \in 1 .. Len(queue'), queue'[j] = d
          PROVE  \E i \in 1 .. Len(queue) : queue[i] = d
      <4>1. j \in 1 .. Len(queue) /\ j + 1 \in 1 .. Len(queue)
        BY <1>1, <1>3
      <4>2. queue[j] = d \/ queue[j + 1] = d
        BY <1>3, <3>3
      <4>3. QED
        BY <4>1, <4>2
    <3>4. QED
      BY <3>1, <3>2, <3>3 DEF Queued
  <2>3. QED
    BY <2>1, <2>2
<1>7. ASSUME NEW i \in 1 .. Len(queue'), NEW j \in 1 .. Len(queue'), i < j
      PROVE  queue'[i] # queue'[j] /\ age'[queue'[j]] =< age'[queue'[i]]
  <2> DEFINE old(n) == IF n < k THEN n ELSE n + 1
  <2>1. /\ old(i) \in 1 .. Len(queue) /\ old(j) \in 1 .. Len(queue)
        /\ old(i) < old(j)
    BY <1>1, <1>3, <1>7
  <2>2. queue'[i] = queue[old(i)] /\ queue'[j] = queue[old(j)]
    BY <1>3
  <2> HIDE DEF old
  <2>3. QED
    BY <2>1, <2>2 DEF Queued
<1>8. QED
  BY <1>3, <1>5, <1>6, <1>7 DEF Queued

\* Whoever it passes over has waited for one deadline at most.
LEMMA LockKeepsTurns ==
  ASSUME Types, Queued, Turns, NEW c \in Commands, Lock(c),
         NEW p \in {"token", "sync"}, phase' = [phase EXCEPT ![c] = p],
         owner' \in {c, Nobody}, UNCHANGED age
  PROVE  starving' \in BOOLEAN /\ Turns'
<1>1. starving' \in BOOLEAN /\ owner = Nobody
  BY DEF Lock, CanLock
<1>2. ASSUME NEW d \in Commands, Waits(d)'
      PROVE  /\ Waits(d) /\ d # c /\ queue' # <<>>
             /\ age[d] \in Nat /\ age[c] \in Nat
             /\ ~starving => age[d] =< Deadline
             /\ c = Head(queue) => age[d] =< age[c]
  <2>1. Waits(d) /\ d # c
    BY <1>2 DEF Types, Waits
  <2>2. queue' \in Seq(Commands) /\ Queued'
    BY LockKeepsQueue
  <2>3. queue' # <<>>
    BY <1>2, <2>2, EmptySeq DEF Queued
  <2>4. age[d] =< age[Head(queue)]
    BY <2>1, HeadIsOldest
  <2>5. QED
    BY <2>1, <2>3, <2>4 DEF Types, Turns
<1>3. ASSUME NEW d \in Commands, Waits(d)'
      PROVE  /\ ~starving' => age[d] =< Deadline /\ age[d] =< age[c]
             /\ starving' => age[d] =< age[c] + Deadline
  <2>1. CASE c = Head(queue)
    <3>1. ~starving' => ~starving
      BY <1>2, <1>3 DEF Lock
    <3>2. QED
      BY <1>2, <1>3, <2>1, <3>1, ConstantsAssumption
  <2>2. CASE c # Head(queue)
    <3>1. ~starving /\ starving'
      BY <1>2, <1>3, <2>2 DEF Lock, CanLock
    <3>2. QED
      BY <1>2, <1>3, <3>1, ConstantsAssumption
  <2>3. QED
    BY <2>1, <2>2
<1>4. ASSUME NEW d \in Commands
      PROVE  phase'[d] # "idle" \/ age[d] = 0
  BY DEF Types, Turns
<1>5. QED
  BY <1>1, <1>3, <1>4 DEF Turns

\* What leaves the mutex, the requests and the clock alone leaves the turns.
LEMMA SameTurns ==
  ASSUME Queued, Owned, Turns, UNCHANGED <<mutex, phase, age>>
  PROVE  Queued' /\ Owned' /\ Turns'
<1>1. /\ owner' = owner /\ queue' = queue /\ starving' = starving
      /\ phase' = phase /\ age' = age
  BY DEF mutex
<1>2. QED
  BY <1>1 DEF Queued, Owned, Turns, Waits

\* A request ends: its command holds the mutex no longer.
LEMMA UnlockKeepsTurns ==
  ASSUME Types, Queued, Owned, Turns, NEW c \in Commands, Requesting(c),
         NEW p \in {"idle", "sync"}, phase' = [phase EXCEPT ![c] = p],
         Unlock(c), UNCHANGED <<queue, starving>>,
         NEW a \in Nat, age' = [age EXCEPT ![c] = a],
         a =< age[c], p = "idle" => a = 0
  PROVE  owner' \in Commands \cup {Nobody} /\ Queued' /\ Owned' /\ Turns'
<1>1. /\ owner' = IF owner = c THEN Nobody ELSE owner
      /\ Nobody \notin Commands /\ Deadline \in Nat
      /\ phase[c] \in {"token", "sync"} /\ ~Waits(c)
      /\ age[c] \in Nat
  BY ConstantsAssumption DEF Unlock, Requesting, Waits, Types
<1>2. ASSUME NEW d \in Commands, d # c
      PROVE  /\ phase'[d] = phase[d] /\ age'[d] = age[d] /\ age[d] \in Nat
             /\ Waits(d)' <=> Waits(d)
  BY <1>2 DEF Types, Waits
<1>3. phase'[c] = p /\ age'[c] = a /\ ~Waits(c)'
  BY DEF Types, Waits
<1>4. Queued'
  <2>1. ASSUME NEW d \in Commands
        PROVE  Waits(d)' <=> \E i \in 1 .. Len(queue') : queue'[i] = d
    BY <1>1, <1>2, <1>3 DEF Queued
  <2>2. \A i \in 1 .. Len(queue) : queue[i] \in Commands /\ queue[i] # c
    BY <1>1, ElementOfSeq DEF Types, Queued
  <2>3. ASSUME NEW i \in 1 .. Len(queue'), NEW j \in 1 .. Len(queue'), i < j
        PROVE  queue'[i] # queue'[j] /\ age'[queue'[j]] =< age'[queue'[i]]
    BY <1>2, <2>2, <2>3 DEF Queued
  <2>4. QED
    BY <2>1, <2>3 DEF Queued
<1>5. Owned'
  <2>1. ASSUME NEW d \in Commands PROVE phase'[d] = "token" <=> owner' = d
    <3>1. CASE d = c
      BY <1>1, <1>3, <3>1 DEF Owned
    <3>2. CASE d # c
      BY <1>1, <1>2, <3>2 DEF Owned
    <3>3. QED
      BY <3>1, <3>2
  <2>2. QED
    BY <2>1 DEF Owned
<1>6. Turns'
  <2>1. ASSUME NEW d \in Commands
        PROVE  /\ phase'[d] = "idle" => age'[d] = 0
               /\ age'[d] =< 2 * Deadline
    <3>1. CASE d = c
      BY <1>1, <1>3, <3>1 DEF Turns
    <3>2. CASE d # c
      BY <1>2, <3>2 DEF Turns
    <3>3. QED
      BY <3>1, <3>2
  <2>2. ASSUME NEW d \in Commands, Waits(d)'
        PROVE  /\ d # c /\ Waits(d) /\ age'[d] = age[d]
               /\ owner' # Nobody => /\ owner' = owner /\ owner # Nobody
                                     /\ age'[owner'] = age[owner]
    <3>1. d # c
      BY <1>3, <2>2
    <3>2. owner' # Nobody => owner \in Commands /\ owner # c /\ owner' = owner
      BY <1>1 DEF Types
    <3>3. QED
      BY <1>2, <2>2, <3>1, <3>2
  <2>3. QED
    BY <2>1, <2>2 DEF Turns
<1>7. QED
  BY <1>1, <1>4, <1>5, <1>6 DEF Types

\* Time only passes for those who wait while a command holds the mutex whose
\* deadline has not come.
LEMMA TickKeepsTurns ==
  ASSUME Types, Queued, Owned, Turns, Tick
  PROVE  Queued' /\ Owned' /\ Turns'
<1>1. /\ owner' = owner /\ queue' = queue /\ starving' = starving /\ phase' = phase
      /\ Nobody \notin Commands /\ Deadline \in Nat
  BY ConstantsAssumption DEF Tick, mutex
<1>2. ASSUME NEW d \in Commands
      PROVE  /\ age[d] \in Nat /\ age[d] =< 2 * Deadline
             /\ phase[d] \in {"idle", "locking", "token", "sync"}
             /\ age'[d] = IF phase[d] = "idle" THEN age[d] ELSE age[d] + 1
             /\ Requesting(d) => age[d] < Deadline
             /\ Waits(d)' <=> Waits(d)
  <2>1. age[d] \in Nat /\ age[d] =< 2 * Deadline /\ ~(age[d] > 2 * Deadline)
    BY <1>1 DEF Types, Turns
  <2>2. age'[d] = IF phase[d] = "idle" \/ age[d] > 2 * Deadline
                    THEN age[d] ELSE age[d] + 1
    BY DEF Tick
  <2>3. Requesting(d) => ~(age[d] >= Deadline)
    BY DEF Tick, Expired
  <2>4. QED
    BY <1>1, <2>1, <2>2, <2>3 DEF Types, Waits
<1>3. ASSUME NEW d \in Commands, Waits(d)
      PROVE  /\ owner \in Commands /\ owner # Nobody
             /\ age[owner] < Deadline /\ age'[owner] = age[owner] + 1
  <2>1. /\ Head(queue) \in Commands /\ Waits(Head(queue))
        /\ DOMAIN queue = 1 .. Len(queue)
    BY <1>3, HeadIsOldest, LenProperties DEF Types
  <2>2. Head(queue) \in ToSet(queue)
    BY <2>1 DEF Queued, ToSet
  <2>3. owner # Nobody
    BY <2>1, <2>2 DEF Tick, CanLock
  <2>4. owner \in Commands /\ phase[owner] = "token"
    BY <2>3 DEF Types, Owned
  <2>5. QED
    BY <1>2, <2>3, <2>4 DEF Requesting
<1>4. Queued'
  <2>1. ASSUME NEW i \in 1 .. Len(queue)
        PROVE  /\ queue[i] \in Commands
               /\ age[queue[i]] \in Nat
               /\ age'[queue[i]] = age[queue[i]] + 1
    <3>1. queue[i] \in Commands
      BY ElementOfSeq DEF Types
    <3>2. Waits(queue[i])
      BY <3>1 DEF Queued
    <3>3. QED
      BY <1>2, <3>1, <3>2 DEF Waits
  <2>2. ASSUME NEW i \in 1 .. Len(queue), NEW j \in 1 .. Len(queue), i < j
        PROVE  queue[i] # queue[j] /\ age'[queue[j]] =< age'[queue[i]]
    BY <2>1, <2>2 DEF Queued
  <2>3. \A d \in Commands : Waits(d)' <=> \E i \in 1 .. Len(queue) : queue[i] = d
    BY <1>2 DEF Queued
  <2>4. QED
    BY <1>1, <2>2, <2>3 DEF Queued
<1>5. Owned'
  BY <1>1 DEF Owned
<1>6. Turns'
  <2>1. ASSUME NEW d \in Commands, Waits(d)
        PROVE  /\ age'[d] =< 2 * Deadline
               /\ ~starving => age'[d] =< Deadline /\ age'[d] =< age'[owner]
               /\ starving => age'[d] =< age'[owner] + Deadline
    <3>1. /\ age'[d] = age[d] + 1 /\ age[d] \in Nat /\ age[owner] \in Nat
          /\ age[owner] < Deadline /\ age'[owner] = age[owner] + 1
      BY <1>2, <1>3, <2>1 DEF Waits
    <3>2. /\ ~starving => age[d] =< age[owner]
          /\ starving => age[d] =< age[owner] + Deadline
      BY <1>3, <2>1 DEF Turns
    <3>3. QED
      BY <1>1, <3>1, <3>2
  <2>2. ASSUME NEW d \in Commands, ~Waits(d)
        PROVE  /\ phase[d] = "idle" => age'[d] = 0
               /\ age'[d] =< 2 * Deadline
    BY <1>1, <1>2, <2>2 DEF Waits, Requesting, Turns
  <2>3. QED
    BY <1>1, <1>2, <2>1, <2>2 DEF Turns, Waits
<1>7. QED
  BY <1>4, <1>5, <1>6

-----------------------------------------------------------------------------
(* Every step keeps the invariant *)

LEMMA InitInv == Init => IInv
<1> SUFFICES ASSUME Init PROVE IInv
  OBVIOUS
<1>1. Types
  <2>1. queue \in Seq(Commands)
    BY EmptySeq DEF Init
  <2>2. /\ ttl \in Nat /\ life \in Nat
        /\ attempt \in [Commands -> 0 .. MaxRetries]
        /\ budget \in [Commands -> 0 .. Attempts]
        /\ timer \in [Commands -> Nat] /\ age \in [Commands -> Nat]
        /\ hand \in [Commands -> Nat] /\ sent \in [Commands -> Nat]
    BY ConstantsAssumption DEF Init
  <2>3. QED
    BY <2>1, <2>2 DEF Init, Types, NoReply
<1>5. Looped
  BY DEF Init, Looped, LoopOf, NoReply, Requesting
<1>2. Queued
  BY EmptySeq DEF Init, Queued, Waits
<1>3. Owned /\ Turns
  BY ConstantsAssumption DEF Init, Owned, Turns, Waits
<1>4. QED
  BY <1>1, <1>2, <1>3, <1>5 DEF IInv

LEMMA BeginInv == ASSUME IInv, NEW c \in Commands, Begin(c) PROVE IInv'
<1>0. Types /\ Queued /\ Owned /\ Turns /\ Looped /\ phase[c] = "idle" /\ age[c] = 0
  BY DEF IInv, Begin, Turns
<1>1. queue' \in Seq(Commands) /\ Queued'
  BY <1>0, EnqueueKeepsQueue DEF Begin
<1>2. Types'
  BY <1>0, <1>1, ConstantsAssumption DEF Begin, Types, cache, loop
<1>3. /\ owner' = owner /\ starving' = starving /\ age' = age
      /\ phase'[c] = "locking"
      /\ \A d \in Commands : d # c => phase'[d] = phase[d]
  BY <1>0 DEF Begin, Types
<1>4. Owned'
  BY <1>0, <1>3 DEF Owned
<1>5. ASSUME NEW d \in Commands, Waits(d)'
      PROVE  (d = c /\ age'[d] = 0) \/ Waits(d)
  BY <1>0, <1>3, <1>5 DEF Waits
<1>6. ASSUME owner # Nobody
      PROVE  age[owner] \in Nat
  BY <1>0, <1>6 DEF Types
<1>7. Turns'
  <2>1. ASSUME NEW d \in Commands
        PROVE  /\ phase'[d] = "idle" => age'[d] = 0
               /\ age'[d] =< 2 * Deadline
    BY <1>0, <1>3, ConstantsAssumption DEF Turns
  <2>2. ASSUME NEW d \in Commands, Waits(d)'
        PROVE  /\ ~starving => age'[d] =< Deadline
               /\ ~starving /\ owner # Nobody => age'[d] =< age[owner]
               /\ starving /\ owner # Nobody => age'[d] =< age[owner] + Deadline
    BY <1>0, <1>3, <1>5, <1>6, <2>2, ConstantsAssumption DEF Turns
  <2>3. QED
    BY <1>3, <2>1, <2>2 DEF Turns
<1>8. Looped'
  <2>1. /\ step' = step /\ attempt' = attempt /\ timer' = timer /\ reply' = reply
        /\ step[c] = "ready"
        /\ sent'[c] = 0 /\ budget'[c] = Attempts /\ Attempts \in Nat
        /\ \A d \in Commands \ {c} : /\ sent'[d] = sent[d]
                                    /\ budget'[d] = budget[d]
                                    /\ accepted'[d] = accepted[d]
    BY <1>0, ConstantsAssumption DEF Begin, Looped, LoopOf, Types, loop, Requesting
  <2>2. QED
    BY <1>0, <1>3, <2>1 DEF Looped, LoopOf, Requesting
<1>9. QED
  BY <1>1, <1>2, <1>4, <1>7, <1>8 DEF IInv

\* The loop starts with nothing sent and nothing heard.
LEMMA ExecuteLoops ==
  ASSUME Types, Looped, NEW c \in Commands, phase[c] # "idle",
         NEW p \in {"idle", "token", "sync"}, Execute(c, p), UNCHANGED command
  PROVE  Looped'
BY DEF Execute, Looped, LoopOf, Types, Requesting, command, NoReply, Replies

LEMMA ExecuteTypes ==
  ASSUME Types, NEW c \in Commands, NEW p \in {"idle", "token", "sync"},
         Execute(c, p)
  PROVE  /\ phase' \in [Commands -> {"idle", "locking", "token", "sync"}]
         /\ step' \in [Commands -> {"ready", "sent", "waiting"}]
         /\ attempt' \in [Commands -> 0 .. MaxRetries]
         /\ timer' \in [Commands -> Nat]
         /\ reply' \in [Commands -> Replies \cup {NoReply}]
BY ConstantsAssumption DEF Execute, Types

LEMMA CacheInv ==
  ASSUME IInv, NEW c \in Commands, CacheHit(c) \/ CacheMiss(c) PROVE IInv'
<1>1. PICK p \in {"token", "sync"} :
        /\ Lock(c) /\ Execute(c, p)
        /\ owner' = IF p = "token" THEN c ELSE owner
        /\ hand' = IF p = "token" THEN hand ELSE [hand EXCEPT ![c] = life]
        /\ UNCHANGED <<cache, outcome, command, age>>
  BY DEF CacheHit, CacheMiss
<1>2. phase' = [phase EXCEPT ![c] = p] /\ UNCHANGED age /\ owner = Nobody
  BY <1>1 DEF Execute, Lock, CanLock
<1>3. queue' \in Seq(Commands) /\ Queued' /\ Waits(c)
  BY <1>1, <1>2, LockKeepsQueue DEF IInv
<1>4. starving' \in BOOLEAN /\ Turns'
  BY <1>1, <1>2, LockKeepsTurns DEF IInv
<1>5. Types'
  BY <1>1, <1>3, <1>4, ConstantsAssumption
     DEF IInv, Types, Execute, cache, command, NoReply
<1>6. Owned'
  BY <1>1, <1>2, ConstantsAssumption DEF IInv, Owned, Types
<1>7. Looped'
  BY <1>1, <1>3, ExecuteLoops DEF IInv, Waits
<1>8. QED
  BY <1>3, <1>4, <1>5, <1>6, <1>7 DEF IInv

LEMMA ReturnInv ==
  ASSUME IInv, NEW c \in Commands, Requesting(c),
         NEW o \in {"success", "refused", "failed"}, Return(c, o)
  PROVE  IInv'
<1>1. /\ owner' \in Commands \cup {Nobody} /\ Queued' /\ Owned' /\ Turns'
  <2>1. /\ phase' = [phase EXCEPT ![c] = "idle"]
        /\ Unlock(c) /\ UNCHANGED <<queue, starving>>
        /\ age' = [age EXCEPT ![c] = 0] /\ 0 =< age[c]
    BY DEF Return, Execute, IInv, Types
  <2>2. QED
    BY <2>1, UnlockKeepsTurns DEF IInv
<1>2. Types'
  BY <1>1, ExecuteTypes DEF Return, IInv, Types, cache, command
<1>3. Looped'
  BY ExecuteLoops DEF Return, IInv, Requesting
<1>4. QED
  BY <1>1, <1>2, <1>3 DEF IInv

LEMMA StoreTokenInv ==
  ASSUME IInv, NEW c \in Commands, NEW n \in Lifetimes, StoreToken(c, n)
  PROVE  IInv'
<1>1. Requesting(c) /\ Execute(c, "sync")
  BY DEF StoreToken, Requesting
<1>2. owner' \in Commands \cup {Nobody} /\ Queued' /\ Owned' /\ Turns'
  <2>1. /\ phase' = [phase EXCEPT ![c] = "sync"]
        /\ Unlock(c) /\ UNCHANGED <<queue, starving>>
        /\ age' = [age EXCEPT ![c] = age[c]]
        /\ age[c] \in Nat /\ age[c] =< age[c]
    BY DEF StoreToken, Execute, IInv, Types
  <2>2. QED
    BY <1>1, <2>1, UnlockKeepsTurns DEF IInv
<1>3. ttl' \in Nat /\ life' \in Nat /\ hand' = [hand EXCEPT ![c] = life']
  <2>1. n \in Nat /\ Skew \in Nat /\ AttemptTimeout \in Nat /\ timer[c] \in Nat
    BY ConstantsAssumption DEF IInv, Types
  <2>2. CacheTime(n) \in Nat
    BY <2>1 DEF CacheTime
  <2>3. life' \in Nat
    BY <2>1 DEF StoreToken
  <2>4. QED
    BY <2>2, <2>3 DEF StoreToken
<1>4. Types'
  <2>1. UNCHANGED <<queue, starving, outcome, command, age>>
    BY DEF StoreToken
  <2>2. hand' \in [Commands -> Nat]
    BY <1>3 DEF IInv, Types
  <2>3. QED
    BY <1>1, <1>2, <1>3, <2>1, <2>2, ExecuteTypes DEF IInv, Types, command
<1>5. Looped'
  <2>1. phase[c] # "idle" /\ UNCHANGED command
    BY DEF StoreToken
  <2>2. QED
    BY <1>1, <2>1, ExecuteLoops DEF IInv
<1>6. QED
  BY <1>2, <1>4, <1>5 DEF IInv

\* The steps of the loop leave the mutex, the requests and the clock alone.
LEMMA LoopInv ==
  ASSUME IInv, UNCHANGED <<client, phase, age>>, Types', Looped' PROVE IInv'
BY SameTurns DEF IInv, client

LEMMA SendInv == ASSUME IInv, NEW c \in Commands, Send(c) PROVE IInv'
<1>1. UNCHANGED <<client, phase, age>>
  BY DEF Send, call
<1>2. /\ budget[c] \in 1 .. Attempts /\ budget[c] - 1 \in 0 .. Attempts
      /\ sent[c] \in Nat /\ sent[c] + 1 \in Nat /\ AttemptTimeout \in Nat
  BY ConstantsAssumption DEF Send, IInv, Types
<1>3. /\ budget' = [budget EXCEPT ![c] = budget[c] - 1]
      /\ sent' = [sent EXCEPT ![c] = sent[c] + 1]
      /\ step' = [step EXCEPT ![c] = "sent"]
      /\ timer' = [timer EXCEPT ![c] = AttemptTimeout]
      /\ reply' = [reply EXCEPT ![c] = NoReply]
      /\ UNCHANGED <<client, call, attempt, accepted, age>>
  BY DEF Send, Consume
<1>4. Types'
  BY <1>2, <1>3 DEF IInv, Types, client, mutex, cache, call
<1>5. Looped'
  <2>1. ASSUME NEW d \in Commands, d # c
        PROVE  /\ step'[d] = step[d] /\ timer'[d] = timer[d] /\ sent'[d] = sent[d]
               /\ budget'[d] = budget[d] /\ reply'[d] = reply[d]
    BY <1>3, <2>1 DEF IInv, Types
  <2>2. /\ step'[c] = "sent" /\ timer'[c] = AttemptTimeout
        /\ sent'[c] = sent[c] + 1 /\ budget'[c] = budget[c] - 1
        /\ reply'[c] = "none" /\ Requesting(c)
    BY <1>2, <1>3 DEF IInv, Types, Send, NoReply
  <2>3. /\ phase' = phase /\ attempt' = attempt /\ accepted' = accepted
        /\ AttemptTimeout =< AttemptTimeout
    BY <1>2, <1>3 DEF call
  <2>4. LoopOf(c)'
    BY <1>2, <2>2, <2>3 DEF IInv, Looped, LoopOf, Requesting
  <2>5. ASSUME NEW d \in Commands, d # c PROVE LoopOf(d)'
    BY <2>1, <2>3, <2>5 DEF IInv, Looped, LoopOf, Requesting
  <2>6. QED
    BY <2>4, <2>5 DEF Looped
<1>6. QED
  BY <1>1, <1>4, <1>5, LoopInv

LEMMA WaitInv ==
  ASSUME IInv, NEW c \in Commands, Requesting(c), ~LastAttempt(c), WaitToRetry(c)
  PROVE  IInv'
<1>1. PICK d \in Delays : timer' = [timer EXCEPT ![c] = d]
  BY DEF WaitToRetry
<1>2. d \in Nat /\ d =< MaxDelay /\ attempt[c] < MaxRetries
  BY ConstantsAssumption DEF Delays, LastAttempt, IInv, Types
<1>3. UNCHANGED <<client, phase, age>>
  BY DEF WaitToRetry, call
<1>4. Types'
  BY <1>1, <1>2 DEF WaitToRetry, IInv, Types, client, mutex, cache, call, command, NoReply
<1>5. Looped'
  BY <1>1, <1>2 DEF WaitToRetry, IInv, Types, Looped, LoopOf, Requesting, call, command, NoReply
<1>6. QED
  BY <1>3, <1>4, <1>5, LoopInv

\* The next attempt after a body that broke off, or after a delay.
LEMMA AgainInv ==
  ASSUME IInv, NEW c \in Commands, attempt[c] < MaxRetries,
         attempt' = [attempt EXCEPT ![c] = @ + 1],
         step' = [step EXCEPT ![c] = "ready"],
         NEW t \in Nat, timer' = [timer EXCEPT ![c] = t],
         NEW r \in {reply[c], NoReply}, reply' = [reply EXCEPT ![c] = r],
         UNCHANGED <<client, call, command, age>>
  PROVE  IInv'
<1>1. UNCHANGED <<client, phase, age>>
  BY DEF call
<1>2. Types'
  <2>1. attempt[c] + 1 \in 0 .. MaxRetries
    BY ConstantsAssumption DEF IInv, Types
  <2>2. attempt' \in [Commands -> 0 .. MaxRetries]
    BY <2>1 DEF IInv, Types
  <2>3. reply' \in [Commands -> Replies \cup {NoReply}]
    BY DEF IInv, Types
  <2>4. QED
    BY <2>2, <2>3 DEF IInv, Types, client, mutex, cache, call, command
<1>3. Looped'
  BY DEF IInv, Types, Looped, LoopOf, Requesting, call, command, NoReply
<1>4. QED
  BY <1>1, <1>2, <1>3, LoopInv

LEMMA ArriveInv ==
  ASSUME IInv, NEW c \in Commands, NEW r \in Replies, Arrive(c, r) PROVE IInv'
<1>1. UNCHANGED <<client, phase, age>>
  BY DEF Arrive, call
<1>2. accepted' \in [Commands -> BOOLEAN]
  BY DEF Arrive, IInv, Types
<1>3. Types'
  BY <1>2 DEF Arrive, IInv, Types, client, mutex, cache, call
<1>4. ASSUME NEW d \in Commands, phase[d] = "sync", reply'[d] = "ok"
      PROVE  accepted'[d]
  BY <1>4 DEF Arrive, IInv, Types, Looped, LoopOf
<1>5. Looped'
  BY <1>4 DEF Arrive, IInv, Types, Looped, LoopOf, Requesting, call
<1>6. QED
  BY <1>1, <1>3, <1>5, LoopInv

LEMMA TickInv == ASSUME IInv, Tick PROVE IInv'
<1>1. Queued' /\ Owned' /\ Turns'
  BY TickKeepsTurns DEF IInv
<1>2. ASSUME NEW m \in Nat PROVE Less(m) \in Nat /\ Less(m) =< m
  BY DEF Less
<1>3. /\ hand' \in [Commands -> Nat] /\ timer' \in [Commands -> Nat]
      /\ ttl' \in Nat /\ life' \in Nat
      /\ \A d \in Commands : timer'[d] =< timer[d]
  BY <1>2 DEF Tick, IInv, Types
<1>4. age' \in [Commands -> Nat]
  BY DEF Tick, IInv, Types
<1>5. Types'
  BY <1>3, <1>4 DEF Tick, IInv, Types, mutex, command
<1>6. ASSUME NEW d \in Commands PROVE LoopOf(d)'
  <2>1. /\ timer'[d] \in Nat /\ timer[d] \in Nat /\ timer'[d] =< timer[d]
        /\ UNCHANGED <<phase, step, attempt, reply, sent, budget, accepted>>
    BY <1>3 DEF Tick, IInv, Types, command
  <2>2. QED
    BY <2>1, ConstantsAssumption DEF IInv, Looped, LoopOf, Requesting
<1>7. QED
  BY <1>1, <1>5, <1>6 DEF IInv, Looped

\* A step of the loop's next attempt.
Again(c) ==
  /\ Requesting(c) /\ attempt[c] < MaxRetries
  /\ attempt' = [attempt EXCEPT ![c] = @ + 1]
  /\ step' = [step EXCEPT ![c] = "ready"]
  /\ \/ timer[c] = 0 /\ UNCHANGED <<timer, reply>>
     \/ /\ timer' = [timer EXCEPT ![c] = 0]
        /\ reply' = [reply EXCEPT ![c] = NoReply]
  /\ UNCHANGED <<client, call, command, age>>

\* Whatever happens to a request either ends it or its attempt, and the command
\* only returns success when the Portal accepted its manifest.
LEMMA StepCases ==
  ASSUME IInv, NEW c \in Commands, Advance(c) \/ Resolve(c)
  PROVE  \/ CacheHit(c) \/ CacheMiss(c) \/ Send(c)
         \/ \E n \in Lifetimes : StoreToken(c, n)
         \/ Requesting(c) /\ ~LastAttempt(c) /\ WaitToRetry(c)
         \/ Again(c)
         \/ /\ Requesting(c)
            /\ \E o \in {"success", "refused", "failed"} :
                 Return(c, o) /\ (o = "success" => accepted[c])
<1>1. CASE BudgetExhausted(c) \/ GiveUp(c) \/ OversizedAnswer(c)
  BY <1>1 DEF BudgetExhausted, GiveUp, OversizedAnswer
<1>2. CASE RefusedAnswer(c)
  BY <1>2 DEF RefusedAnswer
<1>3. CASE SyncDone(c)
  <2>1. phase[c] = "sync" /\ reply[c] = "ok" /\ Return(c, "success")
    BY <1>3 DEF SyncDone, Succeeded
  <2>2. Requesting(c) /\ accepted[c]
    BY <2>1 DEF Requesting, IInv, Looped, LoopOf
  <2>3. QED
    BY <2>1, <2>2
<1>4. CASE TransportError(c)
  BY <1>4 DEF TransportError
<1>5. CASE ReadError(c)
  BY <1>5 DEF ReadError, Again
<1>6. CASE RetryableAnswer(c)
  BY <1>6 DEF RetryableAnswer
<1>7. CASE Retry(c)
  <2>1. attempt[c] < MaxRetries
    BY <1>7 DEF Retry, IInv, Looped, LoopOf
  <2>2. QED
    BY <1>7, <2>1 DEF Retry, Again
<1>8. QED
  BY <1>1, <1>2, <1>3, <1>4, <1>5, <1>6, <1>7, Zenon DEF Advance, Resolve

LEMMA StepInv == IInv /\ [Next]_vars => IInv'
<1> SUFFICES ASSUME IInv, [Next]_vars PROVE IInv'
  OBVIOUS
<1>1. ASSUME NEW c \in Commands, Begin(c) PROVE IInv'
  BY <1>1, BeginInv
<1>2. ASSUME NEW c \in Commands, Again(c) PROVE IInv'
  <2>1. timer[c] \in Nat /\ timer = [timer EXCEPT ![c] = timer[c]]
        /\ reply = [reply EXCEPT ![c] = reply[c]]
    BY DEF IInv, Types
  <2>2. CASE UNCHANGED <<timer, reply>>
    BY <1>2, <2>1, <2>2, AgainInv DEF Again
  <2>3. CASE /\ timer' = [timer EXCEPT ![c] = 0]
             /\ reply' = [reply EXCEPT ![c] = NoReply]
    BY <1>2, <2>3, AgainInv DEF Again
  <2>4. QED
    BY <1>2, <2>2, <2>3 DEF Again
<1>3. ASSUME NEW c \in Commands, Advance(c) \/ Resolve(c) PROVE IInv'
  <2>1. \/ CacheHit(c) \/ CacheMiss(c) \/ Send(c)
        \/ \E n \in Lifetimes : StoreToken(c, n)
        \/ Requesting(c) /\ ~LastAttempt(c) /\ WaitToRetry(c)
        \/ Again(c)
        \/ Requesting(c) /\ \E o \in {"success", "refused", "failed"} : Return(c, o)
    BY <1>3, StepCases
  <2>2. QED
    BY <1>2, <2>1, CacheInv, SendInv, StoreTokenInv, WaitInv, ReturnInv
<1>4. ASSUME NEW c \in Commands, NEW r \in Replies, Arrive(c, r) PROVE IInv'
  BY <1>4, ArriveInv
<1>5. CASE ClearTokenCache
  <2>1. UNCHANGED <<mutex, phase, age>> /\ Types' /\ Looped'
    BY <1>5 DEF ClearTokenCache, mutex, loop, call, command,
                IInv, Types, Looped, LoopOf, Requesting
  <2>2. QED
    BY <2>1, SameTurns DEF IInv
<1>6. CASE Tick
  BY <1>6, TickInv
<1>7. CASE UNCHANGED vars
  <2>1. UNCHANGED <<client, phase, age>> /\ Types' /\ Looped'
    BY <1>7 DEF vars, client, mutex, cache, loop, call, command,
                IInv, Types, Looped, LoopOf, Requesting
  <2>2. QED
    BY <2>1, LoopInv
<1>8. QED
  BY <1>1, <1>3, <1>4, <1>5, <1>6, <1>7 DEF Next

LEMMA InvCorrect == Spec => []IInv
BY InitInv, StepInv, PTL DEF Spec

-----------------------------------------------------------------------------
(* Theorems *)

\* The state keeps its types; the attempts, the budget and the delays stay within
\* what the configuration allows.
THEOREM TypeCorrect == Spec => []TypeOK
<1>1. IInv => TypeOK
  BY DEF IInv, Types, Looped, LoopOf, TypeOK
<1>2. QED
  BY <1>1, InvCorrect, PTL

\* Every command is over within two deadlines, however many compete for the
\* mutex: its turn is taken once at most.
THEOREM CommandsEndInTwoDeadlines == Spec => []WithinTwoDeadlines
<1>1. IInv => WithinTwoDeadlines
  BY DEF IInv, Turns, WithinTwoDeadlines
<1>2. QED
  BY <1>1, InvCorrect, PTL

-----------------------------------------------------------------------------
(* The life of a token *)

\* Under the timing of the configuration, the server accepts the cached token for
\* longer than the client keeps it, and the one a command carries until after the
\* command's deadline.
Lasting ==
  /\ ttl > 0 => ttl + Skew =< life + AttemptTimeout
  /\ \A c \in Commands : phase[c] = "sync" => hand[c] > 0 /\ hand[c] + age[c] > Deadline

LEMMA InitLasting == Init => Lasting
BY DEF Init, Lasting

\* A token fresh from the server outlives the deadline.
LEMMA StoreTokenLasts ==
  ASSUME IInv, Lasting, TimingAssumption, NEW c \in Commands,
         NEW n \in Lifetimes, StoreToken(c, n)
  PROVE  Lasting'
<1>1. /\ n \in Nat /\ Skew \in Nat /\ AttemptTimeout \in Nat /\ Deadline \in Nat
      /\ timer[c] \in Nat /\ timer[c] =< AttemptTimeout /\ age[c] \in Nat
      /\ n > Deadline + AttemptTimeout
  BY ConstantsAssumption
     DEF TimingAssumption, StoreToken, IInv, Types, Looped, LoopOf
<1>2. /\ life' = (IF n - (AttemptTimeout - timer[c]) > 0
                   THEN n - (AttemptTimeout - timer[c]) ELSE 0)
      /\ hand' = [hand EXCEPT ![c] = life']
      /\ ttl' = CacheTime(n) /\ age' = age
      /\ phase' = [phase EXCEPT ![c] = "sync"]
  BY DEF StoreToken, Execute
<1>3. life' = n - (AttemptTimeout - timer[c]) /\ life' \in Nat
  BY <1>1, <1>2
<1>4. ttl' > 0 => ttl' + Skew =< life' + AttemptTimeout
  <2>1. CacheTime(n) > 0 => CacheTime(n) + Skew = n
    BY <1>1 DEF CacheTime
  <2>2. n =< life' + AttemptTimeout
    BY <1>1, <1>3
  <2>3. CacheTime(n) > 0 => CacheTime(n) + Skew =< life' + AttemptTimeout
    BY <2>1, <2>2
  <2>4. QED
    BY <1>2, <2>3
<1>5. hand'[c] = life' /\ hand'[c] > 0 /\ hand'[c] + age'[c] > Deadline
  <2>1. hand'[c] = life'
    BY <1>2 DEF IInv, Types
  <2>2. life' > 0 /\ life' + age[c] > Deadline
    BY <1>1, <1>3
  <2>3. QED
    BY <1>2, <2>1, <2>2
<1>6. ASSUME NEW d \in Commands, d # c
      PROVE  phase'[d] = phase[d] /\ hand'[d] = hand[d] /\ age'[d] = age[d]
  BY <1>2, <1>6 DEF IInv, Types
<1>7. QED
  BY <1>4, <1>5, <1>6 DEF Lasting

\* So does one that is still in the cache.
LEMMA CacheHitLasts ==
  ASSUME IInv, Lasting, TimingAssumption, NEW c \in Commands, CacheHit(c)
  PROVE  Lasting'
<1>1. /\ ttl \in Nat /\ life \in Nat /\ age[c] \in Nat /\ ttl > 0
      /\ Skew \in Nat /\ AttemptTimeout \in Nat /\ Deadline \in Nat
      /\ Deadline + AttemptTimeout =< Skew
      /\ ttl + Skew =< life + AttemptTimeout
  BY ConstantsAssumption DEF TimingAssumption, CacheHit, IInv, Types, Lasting
<1>2. /\ hand' = [hand EXCEPT ![c] = life] /\ age' = age
      /\ phase' = [phase EXCEPT ![c] = "sync"]
      /\ ttl' = ttl /\ life' = life
  BY DEF CacheHit, Execute, cache
<1>3. life > 0 /\ life + age[c] > Deadline
  BY <1>1
<1>4. ASSUME NEW d \in Commands
      PROVE  /\ d = c => hand'[d] = life
             /\ d # c => phase'[d] = phase[d] /\ hand'[d] = hand[d]
  BY <1>2 DEF IInv, Types
<1>5. QED
  BY <1>2, <1>3, <1>4 DEF Lasting

\* Time shortens the life of tokens and brings the deadlines nearer.
LEMMA TickLasts ==
  ASSUME IInv, Lasting, TimingAssumption, Tick
  PROVE  Lasting'
<1>1. /\ ttl \in Nat /\ life \in Nat
      /\ Skew \in Nat /\ AttemptTimeout \in Nat /\ Deadline \in Nat \ {0}
      /\ Deadline + AttemptTimeout =< Skew
  BY ConstantsAssumption DEF TimingAssumption, IInv, Types
<1>2. ttl' = Less(ttl) /\ life' = Less(life) /\ phase' = phase
  BY DEF Tick
<1>3. ttl' > 0 => ttl' + Skew =< life' + AttemptTimeout
  BY <1>1, <1>2 DEF Less, Lasting
<1>4. ASSUME NEW d \in Commands, phase[d] = "sync"
      PROVE  hand'[d] > 0 /\ hand'[d] + age'[d] > Deadline
  <2>1. /\ hand[d] \in Nat /\ age[d] \in Nat /\ age[d] < Deadline
        /\ hand[d] > 0 /\ hand[d] + age[d] > Deadline
    BY <1>1, <1>4 DEF Tick, Requesting, Expired, IInv, Types, Lasting
  <2>2. hand'[d] = Less(hand[d]) /\ age'[d] = age[d] + 1
    BY <1>1, <1>4, <2>1 DEF Tick
  <2>3. QED
    BY <1>1, <2>1, <2>2 DEF Less
<1>5. QED
  BY <1>2, <1>3, <1>4 DEF Lasting

LEMMA StepLasting ==
  TimingAssumption /\ IInv /\ Lasting /\ [Next]_vars => Lasting'
<1> SUFFICES ASSUME TimingAssumption, IInv, Lasting, [Next]_vars PROVE Lasting'
  OBVIOUS
<1>1. ASSUME UNCHANGED <<cache, phase, age, hand>> PROVE Lasting'
  BY <1>1 DEF cache, Lasting
<1>2. ASSUME NEW c \in Commands, Begin(c) PROVE Lasting'
  BY <1>2 DEF Begin, cache, IInv, Types, Lasting
<1>3. ASSUME NEW c \in Commands, CacheMiss(c) PROVE Lasting'
  BY <1>3 DEF CacheMiss, Execute, cache, IInv, Types, Lasting
<1>4. ASSUME NEW c \in Commands, NEW o \in {"success", "refused", "failed"},
             Return(c, o)
      PROVE  Lasting'
  BY <1>4 DEF Return, Execute, cache, IInv, Types, Lasting
<1>5. ASSUME NEW c \in Commands, Advance(c) \/ Resolve(c) PROVE Lasting'
  <2>1. \/ CacheHit(c) \/ CacheMiss(c) \/ Send(c)
        \/ \E n \in Lifetimes : StoreToken(c, n)
        \/ WaitToRetry(c)
        \/ Again(c)
        \/ \E o \in {"success", "refused", "failed"} : Return(c, o)
    BY <1>5, StepCases
  <2>2. Send(c) \/ WaitToRetry(c) \/ Again(c) => UNCHANGED <<cache, phase, age, hand>>
    BY DEF Send, WaitToRetry, Again, client, call
  <2>3. QED
    BY <1>1, <1>3, <1>4, <2>1, <2>2, CacheHitLasts, StoreTokenLasts
<1>6. ASSUME NEW c \in Commands, NEW r \in Replies, Arrive(c, r) PROVE Lasting'
  BY <1>1, <1>6 DEF Arrive, client, call
<1>7. CASE ClearTokenCache
  BY <1>7 DEF ClearTokenCache, call, Lasting
<1>8. CASE Tick
  BY <1>8, TickLasts
<1>9. CASE UNCHANGED vars
  BY <1>1, <1>9 DEF vars, client, call
<1>10. QED
  BY <1>2, <1>5, <1>6, <1>7, <1>8, <1>9 DEF Next

\* When the skew covers a command and an attempt, and no token is shorter-lived,
\* no sync request is sent with a token that expires on its way, not even by the
\* last retry.
THEOREM TokensOutliveRetries ==
  ASSUME TimingAssumption PROVE Spec => []TokenOutlivesRetries
<1>1. IInv /\ Lasting => TokenOutlivesRetries
  BY DEF Lasting, TokenOutlivesRetries
<1>2. Init => IInv /\ Lasting
  BY InitInv, InitLasting
<1>3. IInv /\ Lasting /\ [Next]_vars => (IInv /\ Lasting)'
  BY TimingAssumption, StepInv, StepLasting
<1>4. QED
  BY <1>1, <1>2, <1>3, PTL DEF Spec

-----------------------------------------------------------------------------
(* Refinement *)

\* Returning is the abstract Return, unless a success was not accepted.
LEMMA ReturnRefines ==
  ASSUME IInv, NEW c \in Commands, Requesting(c),
         NEW o \in {"success", "refused", "failed"},
         Return(c, o), o = "success" => accepted[c]
  PROVE  Call!Next
<1>1. c \in {d \in Commands : phase[d] # "idle"}
  BY DEF Requesting
<1>2. {d \in Commands : phase[d] # "idle"}'
        = {d \in Commands : phase[d] # "idle"} \ {c}
  BY DEF Return, Execute, IInv, Types
<1>3. Call!Return(c, o)
  BY <1>1, <1>2 DEF Call!Return, Return, command
<1>4. QED
  BY <1>3 DEF Call!Next

\* ManifestSync implements BoundedCall: a command sends at most Attempts requests
\* for its token and its manifest together, all before it returns, and it only
\* succeeds when the Portal accepted the manifest during the command.
THEOREM Implements == Spec => SharedAttempts
<1>1. Init => Call!Init
  BY DEF Init, Call!Init
<1>2. IInv /\ [Next]_vars => [Call!Next]_(Call!vars)
  <2> SUFFICES ASSUME IInv, [Next]_vars PROVE [Call!Next]_(Call!vars)
    OBVIOUS
  <2>1. ASSUME NEW c \in Commands, Begin(c) PROVE [Call!Next]_(Call!vars)
    <3>1. {d \in Commands : phase[d] # "idle"}'
            = {d \in Commands : phase[d] # "idle"} \cup {c}
      BY <2>1 DEF Begin, IInv, Types
    <3>2. Call!Start(c)
      BY <2>1, <3>1 DEF Begin, Call!Start
    <3>3. QED
      BY <3>2 DEF Call!Next
  <2>2. ASSUME NEW c \in Commands, phase[c] # "idle",
               NEW p \in {"token", "sync"}, phase' = [phase EXCEPT ![c] = p],
               UNCHANGED <<outcome, command>>
        PROVE  UNCHANGED Call!vars
    <3>1. {d \in Commands : phase[d] # "idle"}' = {d \in Commands : phase[d] # "idle"}
      BY <2>2 DEF IInv, Types
    <3>2. QED
      BY <2>2, <3>1 DEF Call!vars, command
  <2>3. ASSUME NEW c \in Commands, CacheHit(c) \/ CacheMiss(c)
        PROVE  UNCHANGED Call!vars
    <3>1. PICK p \in {"token", "sync"} : Lock(c) /\ Execute(c, p)
      BY <2>3 DEF CacheHit, CacheMiss
    <3>2. phase' = [phase EXCEPT ![c] = p] /\ UNCHANGED <<outcome, command, age>>
      BY <2>3, <3>1 DEF CacheHit, CacheMiss, Execute
    <3>3. phase[c] # "idle"
      BY <3>1, <3>2, LockKeepsQueue DEF IInv, Waits
    <3>4. QED
      BY <2>2, <3>2, <3>3
  <2>4. ASSUME NEW c \in Commands, NEW n \in Lifetimes, StoreToken(c, n)
        PROVE  UNCHANGED Call!vars
    BY <2>2, <2>4 DEF StoreToken, Execute
  <2>5. ASSUME NEW c \in Commands, Send(c) PROVE Call!Next
    <3>1. phase[c] # "idle" /\ sent[c] < Attempts
      BY <2>5, ConstantsAssumption
         DEF Send, Requesting, IInv, Types, Looped, LoopOf
    <3>2. Call!Send(c)
      BY <2>5, <3>1 DEF Send, Call!Send, call
    <3>3. QED
      BY <3>2 DEF Call!Next
  <2>6. ASSUME NEW c \in Commands, WaitToRetry(c) \/ Again(c)
        PROVE  UNCHANGED Call!vars
    BY <2>6 DEF WaitToRetry, Again, call, command, Call!vars
  <2>7. ASSUME NEW c \in Commands, Advance(c) \/ Resolve(c)
        PROVE  [Call!Next]_(Call!vars)
    BY <2>3, <2>4, <2>5, <2>6, <2>7, StepCases, ReturnRefines
  <2>8. ASSUME NEW c \in Commands, NEW r \in Replies, Arrive(c, r)
        PROVE  [Call!Next]_(Call!vars)
    <3>1. phase' = phase /\ UNCHANGED <<sent, outcome>> /\ phase[c] # "idle"
      BY <2>8 DEF Arrive, call, Requesting
    <3>2. CASE phase[c] = "sync" /\ r = "ok"
      <4>1. sent[c] > 0
        BY <2>8 DEF Arrive, IInv, Looped, LoopOf
      <4>2. accepted' = [accepted EXCEPT ![c] = TRUE]
        BY <2>8, <3>2 DEF Arrive
      <4>3. Call!Accept(c)
        BY <3>1, <4>1, <4>2 DEF Call!Accept
      <4>4. QED
        BY <4>3 DEF Call!Next
    <3>3. CASE ~(phase[c] = "sync" /\ r = "ok")
      <4>1. accepted' = accepted
        BY <2>8, <3>3 DEF Arrive, IInv, Types
      <4>2. QED
        BY <3>1, <4>1 DEF Call!vars
    <3>4. QED
      BY <3>2, <3>3
  <2>9. CASE ClearTokenCache \/ Tick \/ UNCHANGED vars
    BY <2>9 DEF ClearTokenCache, Tick, vars, call, command, Call!vars
  <2>10. QED
    BY <2>1, <2>7, <2>8, <2>9 DEF Next
<1>3. QED
  BY <1>1, <1>2, InvCorrect, PTL DEF Spec, SharedAttempts, Call!Spec
=============================================================================
