---------------------------- MODULE ManifestSync ----------------------------
(***************************************************************************)
(* PermissionManifestClient of permission_manifest.go: validate and upsert *)
(* commands (send), each a machine-token request when none is cached       *)
(* (machineToken, under the mutex) followed by the sync request, both run  *)
(* by the retry loop of execute within one budget of attempts and one      *)
(* deadline.                                                               *)
(*                                                                         *)
(* A step that waits for nothing takes no time.  Times are ages and        *)
(* countdowns, so behaviours are not bounded in time.                      *)
(***************************************************************************)
EXTENDS Integers, SequencesExt

CONSTANTS
  Commands,        \* goroutines that run manifest commands on one client
  MaxRetries,      \* PermissionManifestClientConfig.MaxRetries
  Attempts,        \* requests a command may send: permissionManifestBudget
  Deadline,        \* context.WithTimeout of send
  AttemptTimeout,  \* context.WithTimeout of one attempt
  MaxDelay,        \* MaxRetryDelay
  Lifetimes,       \* values of expires_in the token endpoint answers with
  Skew,            \* TokenSkew
  Nobody

ASSUME ConstantsAssumption ==
  /\ MaxRetries \in Nat
  /\ Attempts \in Nat \ {0}
  /\ Deadline \in Nat \ {0}
  /\ AttemptTimeout \in Nat \ {0}
  /\ MaxDelay \in Nat
  /\ Lifetimes \subseteq Nat \ {0}
  /\ Skew \in Nat
  /\ Nobody \notin Commands

VARIABLES
  owner,    \* holder of mu during a token request
  queue,    \* commands that called mu.Lock, in that order
  starving, \* mu is in starvation mode: a waiter woke up and found it taken again
  ttl,      \* time left until the cached token's ExpiresAt; 0 also if none
  phase,    \* what each command is doing: the token or the sync request, ...
  step,     \* and where it is in execute's loop
  attempt,  \* the loop's counter
  budget,   \* attempts left to the command
  timer,    \* time left of the attempt, or of the delay before the next one
  reply,    \* the server's answer to the attempt under way
  outcome,  \* what the command last returned
  age,      \* time since the command began
  hand,     \* time the server still accepts the token the command carries
  life,     \* history: time the server still accepts the cached token
  sent,     \* history: requests the command sent
  accepted  \* history: the Portal accepted the command's manifest

mutex == <<owner, queue, starving>>
cache == <<ttl, life>>
client == <<mutex, cache>>
loop == <<step, attempt, timer, reply>>
call == <<phase, outcome, hand>>
command == <<budget, sent, accepted>>
vars == <<client, loop, call, command, age>>

NoReply == "none"
Replies == {"ok", "retryable", "refused"}

TypeOK ==
  /\ owner \in Commands \cup {Nobody}
  /\ queue \in Seq(Commands)
  /\ starving \in BOOLEAN
  /\ ttl \in Nat /\ life \in Nat
  /\ phase \in [Commands -> {"idle", "locking", "token", "sync"}]
  /\ step \in [Commands -> {"ready", "sent", "waiting"}]
  /\ attempt \in [Commands -> 0 .. MaxRetries]
  /\ budget \in [Commands -> 0 .. Attempts]
  /\ timer \in [Commands -> Nat]
  /\ \A c \in Commands : step[c] = "waiting" => timer[c] =< MaxDelay
  /\ reply \in [Commands -> Replies \cup {NoReply}]
  /\ outcome \in [Commands -> {"none", "success", "refused", "failed"}]
  /\ age \in [Commands -> Nat]
  /\ hand \in [Commands -> Nat]
  /\ sent \in [Commands -> Nat]
  /\ accepted \in [Commands -> BOOLEAN]

Init ==
  /\ owner = Nobody
  /\ queue = <<>>
  /\ starving = FALSE
  /\ ttl = 0 /\ life = 0
  /\ phase = [c \in Commands |-> "idle"]
  /\ step = [c \in Commands |-> "ready"]
  /\ attempt = [c \in Commands |-> 0]
  /\ budget = [c \in Commands |-> 0]
  /\ timer = [c \in Commands |-> 0]
  /\ reply = [c \in Commands |-> NoReply]
  /\ outcome = [c \in Commands |-> "none"]
  /\ age = [c \in Commands |-> 0]
  /\ hand = [c \in Commands |-> 0]
  /\ sent = [c \in Commands |-> 0]
  /\ accepted = [c \in Commands |-> FALSE]

-----------------------------------------------------------------------------
(* A command *)

\* A manifest to validate, or to upsert under an idempotency key, passed its
\* checks: send waits for the mutex; its deadline runs from here.
Begin(c) ==
  /\ phase[c] = "idle"
  /\ phase' = [phase EXCEPT ![c] = "locking"]
  /\ queue' = Append(queue, c)
  /\ outcome' = [outcome EXCEPT ![c] = "none"]
  /\ budget' = [budget EXCEPT ![c] = Attempts]
  /\ sent' = [sent EXCEPT ![c] = 0]
  /\ accepted' = [accepted EXCEPT ![c] = FALSE]
  /\ UNCHANGED <<owner, starving, cache, loop, hand, age>>

\* execute starts its loop for the request of phase p.
Execute(c, p) ==
  /\ phase' = [phase EXCEPT ![c] = p]
  /\ step' = [step EXCEPT ![c] = "ready"]
  /\ attempt' = [attempt EXCEPT ![c] = 0]
  /\ timer' = [timer EXCEPT ![c] = 0]
  /\ reply' = [reply EXCEPT ![c] = NoReply]

\* sync.Mutex admits its longest waiter, or, unless it is starving, a goroutine
\* that calls Lock in the very moment of the release.
CanLock(c) ==
  /\ owner = Nobody
  /\ c \in ToSet(queue)
  /\ c = Head(queue) \/ (~starving /\ age[c] = 0)

\* A waiter woken in vain is served next, and those behind it in their order.
Lock(c) ==
  /\ CanLock(c)
  /\ \E i \in DOMAIN queue : queue[i] = c /\ queue' = RemoveAt(queue, i)
  /\ starving' = (queue' # <<>> /\ (starving \/ c # Head(queue)))

\* The cached token is not past ExpiresAt: use it, release the mutex.
CacheHit(c) ==
  /\ Lock(c) /\ ttl > 0
  /\ hand' = [hand EXCEPT ![c] = life]
  /\ Execute(c, "sync")
  /\ UNCHANGED <<owner, cache, outcome, command, age>>

\* No usable token: request one, holding the mutex.
CacheMiss(c) ==
  /\ Lock(c) /\ ttl = 0
  /\ owner' = c
  /\ Execute(c, "token")
  /\ UNCHANGED <<cache, outcome, hand, command, age>>

\* Mutant: the mutex is not released.
KeepLock(c) == owner' = owner

Unlock(c) == owner' = IF owner = c THEN Nobody ELSE owner

\* The command returns o; a token request that fails releases the mutex.
Return(c, o) ==
  /\ Execute(c, "idle")
  /\ Unlock(c)
  /\ outcome' = [outcome EXCEPT ![c] = o]
  /\ hand' = [hand EXCEPT ![c] = 0]
  /\ age' = [age EXCEPT ![c] = 0]
  /\ UNCHANGED <<queue, starving, cache, command>>

-----------------------------------------------------------------------------
(* The loop of execute *)

Requesting(c) == phase[c] \in {"token", "sync"}

\* Mutant: the budget is a copy that the other request does not see.
ConsumeCopy(c) == budget' = budget

Consume(c) == budget' = [budget EXCEPT ![c] = @ - 1]

Send(c) ==
  /\ Requesting(c) /\ step[c] = "ready"
  /\ budget[c] > 0
  /\ Consume(c)
  /\ step' = [step EXCEPT ![c] = "sent"]
  /\ timer' = [timer EXCEPT ![c] = AttemptTimeout]
  /\ reply' = [reply EXCEPT ![c] = NoReply]
  /\ sent' = [sent EXCEPT ![c] = @ + 1]
  /\ UNCHANGED <<client, call, attempt, accepted, age>>

\* COMMAND_TIMEOUT: the token request, or an unreadable body, used the budget up.
BudgetExhausted(c) ==
  /\ Requesting(c) /\ step[c] = "ready"
  /\ budget[c] = 0
  /\ Return(c, "failed")

\* No further attempt is allowed by the loop's bound or by the budget.
LastAttempt(c) == attempt[c] = MaxRetries \/ budget[c] = 0

\* Mutant: the delay is not limited.
Unlimited == 0 .. MaxDelay + 1

\* The backoff or Retry-After, limited by MaxRetryDelay.
Delays == 0 .. MaxDelay

WaitToRetry(c) ==
  /\ \E d \in Delays : timer' = [timer EXCEPT ![c] = d]
  /\ step' = [step EXCEPT ![c] = "waiting"]
  /\ reply' = [reply EXCEPT ![c] = NoReply]
  /\ UNCHANGED <<client, call, attempt, command, age>>

\* http.Do fails: no connection, a lost answer, the attempt's timeout, the
\* command's deadline or the caller's cancellation.
TransportError(c) ==
  /\ Requesting(c) /\ step[c] = "sent"
  /\ \/ LastAttempt(c) /\ Return(c, "failed")
     \/ ~LastAttempt(c) /\ WaitToRetry(c)

\* The body of the answer cannot be read: the next attempt follows at once, and
\* the budget is only looked at when it starts.
ReadError(c) ==
  /\ Requesting(c) /\ step[c] = "sent" /\ reply[c] # NoReply
  /\ \/ attempt[c] = MaxRetries /\ Return(c, "failed")
     \/ /\ attempt[c] < MaxRetries
        /\ attempt' = [attempt EXCEPT ![c] = @ + 1]
        /\ step' = [step EXCEPT ![c] = "ready"]
        /\ timer' = [timer EXCEPT ![c] = 0]
        /\ reply' = [reply EXCEPT ![c] = NoReply]
        /\ UNCHANGED <<client, call, command, age>>

\* 408, 429, 502, 503 or 504, and another attempt is allowed.
RetryableAnswer(c) ==
  /\ Requesting(c) /\ step[c] = "sent" /\ reply[c] = "retryable"
  /\ ~LastAttempt(c)
  /\ WaitToRetry(c)

\* Mutant: any status below 500 counts as success.
AnyStatus(r) == r \in {"ok", "refused"}

\* The status is below 400 and the body is the result that was asked for.
Succeeded(r) == r = "ok"

\* A body beyond 1 MiB ends the command, under any status.
OversizedAnswer(c) ==
  /\ Requesting(c) /\ step[c] = "sent" /\ reply[c] # NoReply
  /\ Return(c, "failed")

\* An answer that is not retried and is not a success; a body that is not the
\* expected result is refused even under a good status.
RefusedAnswer(c) ==
  /\ Requesting(c) /\ step[c] = "sent" /\ reply[c] # NoReply
  /\ reply[c] = "retryable" => LastAttempt(c)
  /\ Return(c, "refused")

SyncDone(c) ==
  /\ phase[c] = "sync" /\ step[c] = "sent" /\ reply[c] # NoReply
  /\ Succeeded(reply[c])
  /\ Return(c, "success")

\* Mutant: the token is cached up to its expiry.
WithoutSkew(expiresIn) == expiresIn

CacheTime(expiresIn) == IF expiresIn > Skew THEN expiresIn - Skew ELSE 0

Less(n) == IF n > 0 THEN n - 1 ELSE 0

\* A valid token response of lifetime n.  The server's n runs from the moment
\* the request was sent, at the latest; ExpiresAt from the receipt.
StoreToken(c, n) ==
  /\ phase[c] = "token" /\ step[c] = "sent" /\ reply[c] = "ok"
  /\ LET left == n - (AttemptTimeout - timer[c]) IN
       /\ life' = IF left > 0 THEN left ELSE 0
       /\ hand' = [hand EXCEPT ![c] = life']
  /\ ttl' = CacheTime(n)
  /\ Unlock(c)
  /\ Execute(c, "sync")
  /\ UNCHANGED <<queue, starving, outcome, command, age>>

\* Mutant: the command has no deadline.
NeverExpired(c) == FALSE

Expired(c) == age[c] >= Deadline

\* waitContext: the delay is over, or the command's deadline or the caller's
\* cancellation comes first.
Retry(c) ==
  /\ Requesting(c) /\ step[c] = "waiting"
  /\ timer[c] = 0
  /\ attempt' = [attempt EXCEPT ![c] = @ + 1]
  /\ step' = [step EXCEPT ![c] = "ready"]
  /\ UNCHANGED <<client, call, command, timer, reply, age>>

GiveUp(c) ==
  /\ Requesting(c) /\ step[c] = "waiting"
  /\ Return(c, "failed")

\* ClearPermissionManifestTokenCache waits for the mutex.
ClearTokenCache ==
  /\ owner = Nobody
  /\ ttl' = 0 /\ life' = 0
  /\ UNCHANGED <<mutex, loop, call, command, age>>

-----------------------------------------------------------------------------
(* The servers and time *)

\* The request of c reaches its server before its time is over, and is answered
\* with r.
Arrive(c, r) ==
  /\ Requesting(c) /\ step[c] = "sent" /\ reply[c] = NoReply
  /\ timer[c] > 0 /\ ~Expired(c)
  /\ reply' = [reply EXCEPT ![c] = r]
  /\ accepted' = [accepted EXCEPT ![c] = @ \/ (phase[c] = "sync" /\ r = "ok")]
  /\ UNCHANGED <<client, call, step, attempt, timer, budget, sent, age>>

\* One unit of time; nobody who need not wait waits.
Tick ==
  /\ \A c \in Commands : /\ ~CanLock(c)
                         /\ Requesting(c) => /\ step[c] # "ready"
                                             /\ timer[c] > 0
                                             /\ ~Expired(c)
  /\ ttl' = Less(ttl) /\ life' = Less(life)
  /\ hand' = [c \in Commands |-> Less(hand[c])]
  /\ timer' = [c \in Commands |-> Less(timer[c])]
  /\ age' = [c \in Commands |-> IF phase[c] = "idle" \/ age[c] > 2 * Deadline
                                  THEN age[c] ELSE age[c] + 1]
  /\ UNCHANGED <<mutex, phase, outcome, step, attempt, reply, command>>

Advance(c) ==
  \/ CacheHit(c) \/ CacheMiss(c)
  \/ Send(c) \/ BudgetExhausted(c) \/ Retry(c) \/ GiveUp(c)

Resolve(c) ==
  \/ TransportError(c) \/ ReadError(c)
  \/ RetryableAnswer(c) \/ OversizedAnswer(c) \/ RefusedAnswer(c)
  \/ SyncDone(c) \/ \E n \in Lifetimes : StoreToken(c, n)

Next ==
  \/ \E c \in Commands : Begin(c) \/ Advance(c) \/ Resolve(c)
  \/ \E c \in Commands, r \in Replies : Arrive(c, r)
  \/ ClearTokenCache
  \/ Tick

Spec == Init /\ [][Next]_vars

\* Goroutines run, requests end by their timeouts, and time passes.
Fairness ==
  /\ \A c \in Commands : WF_vars(Advance(c)) /\ WF_vars(Resolve(c))
  /\ WF_vars(Tick)

FairSpec == Spec /\ Fairness
-----------------------------------------------------------------------------
(* Properties *)

\* "Commands share three attempts": the token request and the sync request of a
\* command, with the retries of both, are never more than Attempts requests; and
\* a command only succeeds if the Portal accepted its manifest during the call.
Call == INSTANCE BoundedCall
          WITH Calls <- Commands, MaxSends <- Attempts, sends <- sent,
               running <- {c \in Commands : phase[c] # "idle"}
SharedAttempts == Call!Spec

\* "... and fifteen seconds": what README.md:12-13 promises of a command.  The
\* wait for the mutex heeds no deadline, so a command whose turn another one took
\* waits for that one's deadline and is then itself too late.
WithinDeadline == \A c \in Commands : age[c] =< Deadline

\* The turn of a command is only taken once, so that it returns within two
\* deadlines, however many others ask for the token.
WithinTwoDeadlines == \A c \in Commands : age[c] =< 2 * Deadline

\* The timeouts of a command stay within the skew (15s and 5s against 30s), and
\* the tokens outlive them.
TimingAssumption ==
  /\ Deadline + AttemptTimeout =< Skew
  /\ \A n \in Lifetimes : n > Deadline + AttemptTimeout

\* No sync request is sent with a token that expires before it can arrive, not
\* even by the last retry: the loop never renews the token.
TokenOutlivesRetries ==
  \A c \in Commands :
    phase[c] = "sync" /\ step[c] = "sent" /\ timer[c] > 0 => hand[c] > 0

\* Every command returns.
CommandsReturn == \A c \in Commands : phase[c] # "idle" ~> phase[c] = "idle"
=============================================================================
