-------------------------------- MODULE JWKS --------------------------------
(***************************************************************************)
(* The signing-key cache of jwt/jwks.go: JWKSProvider.KeyByID, lookup,     *)
(* needsRefresh, fetch and Preload, called concurrently by the goroutines  *)
(* that verify tokens, with the IAM server that publishes and withdraws    *)
(* keys.                                                                   *)
(*                                                                         *)
(* The code compares time.Since(x) with a duration and nothing else, so    *)
(* time is kept as ages: each age grows by one per Tick and stops at the   *)
(* first value that every comparison answers like all larger ones.  The    *)
(* behaviours are therefore not bounded in time.                           *)
(***************************************************************************)
EXTENDS Integers

CONSTANTS
  Kids,        \* key ids a token may name
  Issuable,    \* those the IAM server ever publishes
  Verifiers,   \* goroutines inside Verifier.Verify
  Preloaders,  \* goroutines that call Preload
  Refresh,     \* JWKSOptions.Refresh
  Cooldown,    \* JWKSOptions.RotationCooldown
  Latency      \* longest time from sending a fetch to using its answer

ASSUME ConstantsAssumption ==
  /\ Issuable \subseteq Kids
  /\ Verifiers \cap Preloaders = {}
  /\ Refresh \in Nat \ {0}
  /\ Cooldown \in Nat \ {0}
  /\ Latency \in Nat

Threads == Verifiers \cup Preloaders

\* Beyond this age a withdrawn key can no longer be in a usable cached set.
Horizon == Refresh + Latency + 1

VARIABLES
  server,       \* the kids the IAM server publishes now
  set,          \* JWKSProvider.set; nil, which finds no key either, is {}
  sinceFetch,   \* age of lastFetch
  sinceForced,  \* age of lastForcedRefresh
  pc,           \* where each goroutine is
  kid,          \* the kid each verifier asked for
  answer,       \* the response body of each fetch
  elapsed,      \* age of each fetch
  result,       \* what KeyByID last returned
  withdrawn,    \* history: age of the last withdrawal of a kid
  throughout    \* history: kid[v] was published, and no preload installed a
                \* set, during all of v's call

provider == <<set, sinceFetch, sinceForced>>
external == <<server, withdrawn>>
calls == <<pc, kid, answer, elapsed, result>>
vars == <<provider, external, calls, throughout>>

InFlight(t) == pc[t] \in {"sending", "answered", "rechecking"}

TypeOK ==
  /\ server \subseteq Issuable
  /\ set \subseteq Kids
  /\ sinceFetch \in 0 .. Refresh + 1
  /\ sinceForced \in 0 .. Cooldown
  /\ pc \in [Threads -> {"idle", "forcing", "sending", "answered", "rechecking"}]
  /\ kid \in [Verifiers -> Kids]
  /\ answer \in [Threads -> SUBSET Kids]
  /\ elapsed \in [Threads -> 0 .. Latency]
  /\ result \in [Verifiers -> {"none", "key", "unknown", "cooldown", "error"}]
  /\ withdrawn \in [Kids -> 0 .. Horizon]
  /\ throughout \in [Verifiers -> BOOLEAN]

Init ==
  /\ server \in SUBSET Issuable
  /\ set = {}
  /\ sinceFetch = Refresh + 1
  /\ sinceForced = Cooldown
  /\ pc = [t \in Threads |-> "idle"]
  /\ kid \in [Verifiers -> Kids]
  /\ answer = [t \in Threads |-> {}]
  /\ elapsed = [t \in Threads |-> 0]
  /\ result = [v \in Verifiers |-> "none"]
  /\ withdrawn = [k \in Kids |-> Horizon]
  /\ throughout = [v \in Verifiers |-> FALSE]

-----------------------------------------------------------------------------
(* The provider *)

\* Mutant: the age of the wrong timestamp is compared.
StaleByForced == sinceForced > Refresh

NeedsRefresh == sinceFetch > Refresh

\* lookup(k) finds a key.
Lookup(k) == ~NeedsRefresh /\ k \in set

\* KeyByID is called and does its first lookup, under the read lock.
Begin(v, k) ==
  /\ pc[v] = "idle"
  /\ kid' = [kid EXCEPT ![v] = k]
  /\ throughout' = [throughout EXCEPT ![v] = k \in server]
  /\ \/ /\ Lookup(k)
        /\ result' = [result EXCEPT ![v] = "key"]
        /\ pc' = pc
     \/ /\ ~Lookup(k)
        /\ result' = [result EXCEPT ![v] = "none"]
        /\ pc' = [pc EXCEPT ![v] = "forcing"]
  /\ UNCHANGED <<provider, external, answer, elapsed>>

\* Mutants: the cooldown is forgotten, or is over one unit too early.
NeverCooling == FALSE
CoolsTooSoon == sinceForced < Cooldown - 1

CoolingDown == sinceForced < Cooldown

\* Mutant: the time of a forced refresh is stamped before the cooldown check.
RefuseAndStamp(v) ==
  /\ pc[v] = "forcing"
  /\ CoolingDown
  /\ sinceForced' = 0
  /\ pc' = [pc EXCEPT ![v] = "idle"]
  /\ result' = [result EXCEPT ![v] = "cooldown"]
  /\ UNCHANGED <<set, sinceFetch, external, kid, answer, elapsed, throughout>>

\* The critical section of KeyByID: refuse, or claim the forced refresh.
Refuse(v) ==
  /\ pc[v] = "forcing"
  /\ CoolingDown
  /\ pc' = [pc EXCEPT ![v] = "idle"]
  /\ result' = [result EXCEPT ![v] = "cooldown"]
  /\ UNCHANGED <<provider, external, kid, answer, elapsed, throughout>>

ClaimRefresh(v) ==
  /\ pc[v] = "forcing"
  /\ ~CoolingDown
  /\ sinceForced' = 0
  /\ pc' = [pc EXCEPT ![v] = "sending"]
  /\ UNCHANGED <<set, sinceFetch, external, kid, answer, elapsed, result,
                 throughout>>

\* Preload fetches without claiming the forced refresh.
Preload(p) ==
  /\ pc[p] = "idle"
  /\ pc' = [pc EXCEPT ![p] = "sending"]
  /\ UNCHANGED <<provider, external, kid, answer, elapsed, result, throughout>>

\* fetch gives up: transport error, status >= 400, unreadable or invalid body,
\* client timeout or cancelled context.  The cached set stays.
FetchFails(t) ==
  /\ pc[t] \in {"sending", "answered"}
  /\ pc' = [pc EXCEPT ![t] = "idle"]
  /\ elapsed' = [elapsed EXCEPT ![t] = 0]
  /\ answer' = [answer EXCEPT ![t] = {}]
  /\ result' = IF t \in Verifiers
                 THEN [result EXCEPT ![t] = "error"] ELSE result
  /\ UNCHANGED <<provider, external, kid, throughout>>

\* fetch stores the set it decoded, under the write lock.
Install(t) ==
  /\ pc[t] = "answered"
  /\ set' = answer[t]
  /\ sinceFetch' = 0
  /\ answer' = [answer EXCEPT ![t] = {}]
  /\ IF t \in Verifiers
       THEN /\ pc' = [pc EXCEPT ![t] = "rechecking"]
            /\ UNCHANGED <<elapsed, throughout>>
       ELSE /\ pc' = [pc EXCEPT ![t] = "idle"]
            /\ elapsed' = [elapsed EXCEPT ![t] = 0]
            /\ throughout' = [v \in Verifiers |-> FALSE]
  /\ UNCHANGED <<sinceForced, external, kid, result>>

\* KeyByID's second lookup.
Recheck(v) ==
  /\ pc[v] = "rechecking"
  /\ result' = [result EXCEPT ![v] = IF Lookup(kid[v]) THEN "key" ELSE "unknown"]
  /\ pc' = [pc EXCEPT ![v] = "idle"]
  /\ elapsed' = [elapsed EXCEPT ![v] = 0]
  /\ UNCHANGED <<provider, external, kid, answer, throughout>>

-----------------------------------------------------------------------------
(* The server and time *)

\* The server answers the request of goroutine t with what it publishes.
Answer(t) ==
  /\ pc[t] = "sending"
  /\ pc' = [pc EXCEPT ![t] = "answered"]
  /\ answer' = [answer EXCEPT ![t] = server]
  /\ UNCHANGED <<provider, external, kid, elapsed, result, throughout>>

Publish(k) ==
  /\ k \notin server
  /\ server' = server \cup {k}
  /\ UNCHANGED <<provider, withdrawn, calls, throughout>>

Withdraw(k) ==
  /\ k \in server
  /\ server' = server \ {k}
  /\ withdrawn' = [withdrawn EXCEPT ![k] = 0]
  /\ throughout' = [v \in Verifiers |-> throughout[v] /\ kid[v] # k]
  /\ UNCHANGED <<provider, calls>>

Older(age, limit) == IF age < limit THEN age + 1 ELSE limit

\* Mutant: the HTTP client is built without a timeout.
NoTimeout == TRUE

\* No fetch is due to end: one is over, one way or the other, after Latency.
FetchesInTime == \A t \in Threads : InFlight(t) => elapsed[t] < Latency

\* One unit of time.
Tick ==
  /\ FetchesInTime
  /\ sinceFetch' = Older(sinceFetch, Refresh + 1)
  /\ sinceForced' = Older(sinceForced, Cooldown)
  /\ withdrawn' = [k \in Kids |-> Older(withdrawn[k], Horizon)]
  /\ elapsed' = [t \in Threads |->
                   IF InFlight(t) THEN elapsed[t] + 1 ELSE elapsed[t]]
  /\ UNCHANGED <<server, set, pc, kid, answer, result, throughout>>

Next ==
  \/ \E v \in Verifiers, k \in Kids : Begin(v, k)
  \/ \E v \in Verifiers : Refuse(v) \/ ClaimRefresh(v) \/ Recheck(v)
  \/ \E p \in Preloaders : Preload(p)
  \/ \E t \in Threads : Answer(t) \/ FetchFails(t) \/ Install(t)
  \/ \E k \in Issuable : Publish(k) \/ Withdraw(k)
  \/ Tick

Spec == Init /\ [][Next]_vars

(***************************************************************************)
(* Goroutines keep running, verifiers keep being asked for keys, time      *)
(* passes, and of fetches tried for ever some succeed.                     *)
(***************************************************************************)
Fairness ==
  /\ WF_vars(Tick)
  /\ WF_vars(\E v \in Verifiers, k \in Kids : Begin(v, k))
  /\ \A v \in Verifiers : WF_vars(Refuse(v) \/ ClaimRefresh(v) \/ Recheck(v))
  /\ \A t \in Threads : WF_vars(FetchFails(t) \/ Install(t))
  /\ SF_vars(\E t \in Threads : Answer(t)) /\ SF_vars(\E t \in Threads : Install(t))

FairSpec == Spec /\ Fairness
-----------------------------------------------------------------------------
(* Properties *)

\* A key the provider can still hand out was published no longer ago than one
\* refresh period and one fetch: KeyByID never trusts a withdrawn key past it.
WithdrawnKeysExpire ==
  \A k \in Kids : Lookup(k) => k \in server \/ withdrawn[k] =< Refresh + Latency

\* With the default timing a forced refresh is over before the next may start,
\* so unknown kids cannot pile up requests on the IAM server.
OneForcedFetch ==
  \A v, w \in Verifiers : InFlight(v) /\ InFlight(w) => v = w

\* "unknown kid" after a forced refresh is the truth, unless a preload that was
\* answered earlier landed on top of it: the kid was missing from the published
\* set at some moment of that call.
UnknownMeansAbsent ==
  \A v \in Verifiers : result[v] = "unknown" => ~throughout[v]

\* A key that stays published is adopted, and adopted again after each refresh
\* period, whatever other kids the callers ask for.
PublishedKeyIsAdopted ==
  \A k \in Kids : <>[](k \in server) => []<>Lookup(k)
=============================================================================
