---------------------------- MODULE ProfileCache ----------------------------
(***************************************************************************)
(* The profile cache of sdk.go: SDK.GetMe with and without                 *)
(* BypassProfileCache, and SDK.UpdateAccountProfile, called concurrently   *)
(* for one account whose profile other clients of the IAM server change    *)
(* too.                                                                    *)
(*                                                                         *)
(* ristretto is a library, modelled from its use: GetMe waits until its    *)
(* write is applied, so a write is one step, which the admission policy    *)
(* may refuse.  Profiles are numbered by the changes made to the account.  *)
(***************************************************************************)
EXTENDS Integers

CONSTANTS
  Callers,     \* goroutines that serve requests of the account
  Keys,        \* its cache keys: by user id, or by token without a user in ctx
  TTL,         \* SDKConfig.UserProfileCacheTTL
  Latency,     \* longest time from the server's answer to its use
  MaxVersion   \* bound: changes made to the profile

ASSUME ConstantsAssumption ==
  /\ TTL \in Nat \ {0}
  /\ Latency \in Nat
  /\ MaxVersion \in Nat

VARIABLES
  version,   \* the account's profile at the IAM server
  cache,     \* profileCache[k]: a profile and the time left to keep it
  pc,        \* where each goroutine is
  key,       \* profileCacheKey of its call
  bypass,    \* the option its GetMe was given
  hand,      \* the profile its call received
  elapsed,   \* time since the server answered with it
  result,    \* what its last GetMe returned
  replaced,  \* history: time since each profile was replaced by the next
  promised,  \* history: newest profiles that a bypass showed, and that an update
             \* which no GetMe overlapped made, in calls of each key that ended
  least,     \* history: promised, when the call began
  overlap    \* history: a GetMe of the key overlapped the update under way

arguments == <<key, bypass>>
history == <<replaced, promised, least, overlap>>
vars == <<version, cache, pc, arguments, hand, elapsed, result, history>>

Versions == 0 .. MaxVersion
None == -1
Horizon == TTL + Latency + 1
Absent == [profile |-> None, ttl |-> 0]
Promise == [shown : Versions, updated : Versions]

TypeOK ==
  /\ version \in Versions
  /\ cache \in [Keys -> [profile : Versions \cup {None}, ttl : 0 .. TTL]]
  /\ pc \in [Callers -> {"idle", "fetching", "answered", "patching", "patched"}]
  /\ key \in [Callers -> Keys]
  /\ bypass \in [Callers -> BOOLEAN]
  /\ hand \in [Callers -> Versions \cup {None}]
  /\ elapsed \in [Callers -> 0 .. Latency]
  /\ result \in [Callers -> Versions \cup {None}]
  /\ replaced \in [Versions -> 0 .. Horizon]
  /\ promised \in [Keys -> Promise]
  /\ least \in [Callers -> Promise]
  /\ overlap \in [Keys -> BOOLEAN]

Init ==
  /\ version = 0
  /\ cache = [k \in Keys |-> Absent]
  /\ pc = [c \in Callers |-> "idle"]
  /\ key \in [Callers -> Keys]
  /\ bypass = [c \in Callers |-> FALSE]
  /\ hand = [c \in Callers |-> None]
  /\ elapsed = [c \in Callers |-> 0]
  /\ result = [c \in Callers |-> None]
  /\ replaced = [v \in Versions |-> 0]
  /\ promised = [k \in Keys |-> [shown |-> 0, updated |-> 0]]
  /\ least = [c \in Callers |-> [shown |-> 0, updated |-> 0]]
  /\ overlap = [k \in Keys |-> FALSE]

-----------------------------------------------------------------------------
(* GetMe *)

\* Mutant: an expired profile is still found.
FoundExpired(k) == cache[k] # Absent

Found(k) == cache[k].ttl > 0

\* A call begins for key k; what earlier calls promised holds for it.
BeginCall(c, k, option) ==
  /\ pc[c] = "idle"
  /\ key' = [key EXCEPT ![c] = k]
  /\ bypass' = [bypass EXCEPT ![c] = option]
  /\ least' = [least EXCEPT ![c] = promised[k]]

GetMeCached(c, k) ==
  /\ BeginCall(c, k, FALSE)
  /\ Found(k)
  /\ result' = [result EXCEPT ![c] = cache[k].profile]
  /\ UNCHANGED <<version, cache, pc, hand, elapsed, replaced, promised, overlap>>

\* A miss, or a bypass, goes to the server.
GetMeFetch(c, k, option) ==
  /\ BeginCall(c, k, option)
  /\ ~Found(k) \/ option
  /\ pc' = [pc EXCEPT ![c] = "fetching"]
  /\ result' = [result EXCEPT ![c] = None]
  /\ overlap' = [overlap EXCEPT ![k] =
       @ \/ \E d \in Callers : pc[d] \in {"patching", "patched"} /\ key[d] = k]
  /\ UNCHANGED <<version, cache, hand, elapsed, replaced, promised>>

\* The server answers with the profile of the moment.
Answer(c) ==
  /\ pc[c] = "fetching"
  /\ pc' = [pc EXCEPT ![c] = "answered"]
  /\ hand' = [hand EXCEPT ![c] = version]
  /\ elapsed' = [elapsed EXCEPT ![c] = 0]
  /\ UNCHANGED <<version, cache, arguments, result, history>>

\* The call is over.
Return(c) ==
  /\ pc' = [pc EXCEPT ![c] = "idle"]
  /\ hand' = [hand EXCEPT ![c] = None]
  /\ elapsed' = [elapsed EXCEPT ![c] = 0]

\* Mutant: the profile is kept longer than the configured time.
DoubleTTL == TTL + 1

KeepFor == TTL

\* SetWithTTL and Wait: an entry still in the store is replaced, a new one may
\* be refused.  The profile is returned either way.
StoreProfile(c) ==
  /\ pc[c] = "answered"
  /\ \/ cache' = [cache EXCEPT ![key[c]] = [profile |-> hand[c], ttl |-> KeepFor]]
     \/ cache[key[c]] = Absent /\ cache' = cache
  /\ result' = [result EXCEPT ![c] = hand[c]]
  /\ promised' = [promised EXCEPT ![key[c]].shown =
                    IF bypass[c] /\ hand[c] > @ THEN hand[c] ELSE @]
  /\ Return(c)
  /\ UNCHANGED <<version, arguments, replaced, least, overlap>>

\* The client's retries are exhausted, or the answer is not a profile.
GetMeFails(c) ==
  /\ pc[c] \in {"fetching", "answered"}
  /\ Return(c)
  /\ UNCHANGED <<version, cache, arguments, result, history>>

-----------------------------------------------------------------------------
(* UpdateAccountProfile *)

Reading(k) == \E c \in Callers : pc[c] \in {"fetching", "answered"} /\ key[c] = k

\* Mutant: the cached profile stays.
Kept(k) == cache

Deleted(k) == [cache EXCEPT ![k] = Absent]

\* The cached profile goes first, then the change is sent.
Update(c, k) ==
  /\ BeginCall(c, k, FALSE)
  /\ cache' = Deleted(k)
  /\ pc' = [pc EXCEPT ![c] = "patching"]
  /\ result' = [result EXCEPT ![c] = None]
  /\ overlap' = [overlap EXCEPT ![k] = Reading(k)]
  /\ UNCHANGED <<version, hand, elapsed, replaced, promised>>

\* The profile is changed at the server.
Change ==
  /\ version < MaxVersion
  /\ version' = version + 1
  /\ replaced' = [replaced EXCEPT ![version] = 0]

\* The server applies the PATCH.
Patch(c) ==
  /\ pc[c] = "patching"
  /\ Change
  /\ pc' = [pc EXCEPT ![c] = "patched"]
  /\ hand' = [hand EXCEPT ![c] = version']
  /\ UNCHANGED <<cache, arguments, elapsed, result, promised, least, overlap>>

\* The answer was lost or unreadable: the client's retry sends the PATCH again.
SendAgain(c) ==
  /\ pc[c] = "patched"
  /\ pc' = [pc EXCEPT ![c] = "patching"]
  /\ UNCHANGED <<version, cache, arguments, hand, elapsed, result, history>>

UpdateDone(c) ==
  /\ pc[c] = "patched"
  /\ promised' = [promised EXCEPT ![key[c]].updated =
                    IF ~overlap[key[c]] /\ hand[c] > @ THEN hand[c] ELSE @]
  /\ Return(c)
  /\ UNCHANGED <<version, cache, arguments, result, replaced, least, overlap>>

UpdateFails(c) ==
  /\ pc[c] \in {"patching", "patched"}
  /\ Return(c)
  /\ UNCHANGED <<version, cache, arguments, result, history>>

-----------------------------------------------------------------------------
(* Other clients, the cache's own removals, time *)

ChangeElsewhere ==
  /\ Change
  /\ UNCHANGED <<cache, pc, arguments, hand, elapsed, result, promised, least, overlap>>

\* An entry makes room for another, or is removed some time after it expired.
Evict(k) ==
  /\ cache[k] # Absent
  /\ cache' = [cache EXCEPT ![k] = Absent]
  /\ UNCHANGED <<version, pc, arguments, hand, elapsed, result, history>>

\* One unit of time; an answer is used within Latency.
Tick ==
  /\ \A c \in Callers : pc[c] = "answered" => elapsed[c] < Latency
  /\ cache' = [k \in Keys |-> IF cache[k].ttl > 0
                 THEN [cache[k] EXCEPT !.ttl = @ - 1] ELSE cache[k]]
  /\ elapsed' = [c \in Callers |-> IF pc[c] = "answered" THEN elapsed[c] + 1
                                   ELSE elapsed[c]]
  /\ replaced' = [v \in Versions |-> IF v < version /\ replaced[v] < Horizon
                                       THEN replaced[v] + 1 ELSE replaced[v]]
  /\ UNCHANGED <<version, pc, arguments, hand, result, promised, least, overlap>>

Next ==
  \/ \E c \in Callers, k \in Keys :
       \/ GetMeCached(c, k) \/ Update(c, k)
       \/ \E option \in BOOLEAN : GetMeFetch(c, k, option)
  \/ \E c \in Callers :
       \/ Answer(c) \/ StoreProfile(c) \/ GetMeFails(c)
       \/ Patch(c) \/ SendAgain(c) \/ UpdateDone(c) \/ UpdateFails(c)
  \/ \E k \in Keys : Evict(k)
  \/ ChangeElsewhere \/ Tick

Spec == Init /\ [][Next]_vars
-----------------------------------------------------------------------------
(* Properties *)

\* A profile GetMe can serve from the cache was replaced at the server no longer
\* ago than the cache time and one answer's delay, whatever fetches overlapped.
StaleIsBounded ==
  \A k \in Keys :
    Found(k) => \/ cache[k].profile = version
                \/ replaced[cache[k].profile] =< TTL + Latency

\* A GetMe after UpdateAccountProfile returned sees that update, unless another
\* GetMe of the same key was under way while the update was.
UpdateIsSeen ==
  \A c \in Callers :
    result[c] # None => result[c] >= least[c].updated

\* "The fresh result replaces the cached entry": once a bypass has returned a
\* profile, later calls of the key never return an older one.
FreshReplacesCached ==
  \A c \in Callers : result[c] # None => result[c] >= least[c].shown
=============================================================================
