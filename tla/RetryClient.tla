---------------------------- MODULE RetryClient ----------------------------
(***************************************************************************)
(* The retrying HTTP calls of client.go: doJSONStrictRetry, which carries  *)
(* ResolvePermissions and ListPermissions, and doJSONNoAuthRetry and       *)
(* doJSONBearerRetry, which carry the account calls, with a result to      *)
(* decode or without one.  backoff.Retry and http.Client are modelled from *)
(* how client.go configures them.                                          *)
(*                                                                         *)
(* A step that waits for nothing takes no time.  The names that other      *)
(* specifications have too begin with RC here, so that a module can extend *)
(* this one together with the one that makes the calls.                    *)
(***************************************************************************)
EXTENDS Integers

CONSTANTS
  Calls,        \* goroutines, each with one call at a time
  MaxRetries,   \* Config.MaxRetries
  HTTPTimeout,  \* Config.HTTPTimeout, the time of one attempt
  MaxInterval,  \* longest randomised delay between two attempts
  MaxElapsed    \* MaxElapsedTime of exponentialBackoff

ASSUME RCAssumption ==
  /\ MaxRetries \in Nat
  /\ HTTPTimeout \in Nat \ {0}
  /\ MaxInterval \in Nat
  /\ MaxElapsed \in Nat

VARIABLES
  kind,       \* the call's retry function, and whether it decodes a result
  step,       \* where the call is: ready to send, sent, or waiting to retry
  retries,    \* numTries of backoff.WithMaxRetries
  timer,      \* time left of the attempt, or of the delay
  age,        \* time since backoff.Retry reset its clock
  cancelled,  \* the caller's context is done
  reply,      \* the server's answer to the attempt under way
  outcome,    \* what the call last returned
  sent,       \* history: requests the call sent
  heard,      \* history: the last answer that was received in full
  accepted    \* history: the server accepted a request of the call

loop == <<step, retries, timer, reply>>
RChistory == <<sent, heard, accepted>>
RCvars == <<kind, loop, age, cancelled, outcome, RChistory>>

Kinds == {"strict", "result", "bare"}

\* A status below 400 with a body that decodes or does not, a status that
\* IsRetryable accepts (429 and 500 and above), any other status.
Replies == {"ok", "garbled", "transient", "refused"}

RCTypeOK ==
  /\ kind \in [Calls -> Kinds]
  /\ step \in [Calls -> {"idle", "ready", "sent", "waiting"}]
  /\ retries \in [Calls -> 0 .. MaxRetries]
  /\ timer \in [Calls -> Nat]
  /\ age \in [Calls -> 0 .. MaxElapsed + HTTPTimeout + 1]
  /\ cancelled \in [Calls -> BOOLEAN]
  /\ reply \in [Calls -> Replies \cup {"none"}]
  /\ outcome \in [Calls -> {"none", "success", "refused", "failed"}]
  /\ sent \in [Calls -> 0 .. MaxRetries + 1]
  /\ heard \in [Calls -> Replies \cup {"none"}]
  /\ accepted \in [Calls -> BOOLEAN]
  \* a delay never ends after MaxElapsedTime
  /\ \A c \in Calls : step[c] = "waiting" => age[c] + timer[c] =< MaxElapsed

RCInit ==
  /\ kind = [c \in Calls |-> "bare"]
  /\ step = [c \in Calls |-> "idle"]
  /\ retries = [c \in Calls |-> 0]
  /\ timer = [c \in Calls |-> 0]
  /\ age = [c \in Calls |-> 0]
  /\ cancelled = [c \in Calls |-> FALSE]
  /\ reply = [c \in Calls |-> "none"]
  /\ outcome = [c \in Calls |-> "none"]
  /\ sent = [c \in Calls |-> 0]
  /\ heard = [c \in Calls |-> "none"]
  /\ accepted = [c \in Calls |-> FALSE]

-----------------------------------------------------------------------------
(* Calls *)

\* backoff.Retry starts: its clock and its count of tries begin anew.
Start(c, k) ==
  /\ step[c] = "idle"
  /\ kind' = [kind EXCEPT ![c] = k]
  /\ step' = [step EXCEPT ![c] = "ready"]
  /\ retries' = [retries EXCEPT ![c] = 0]
  /\ outcome' = [outcome EXCEPT ![c] = "none"]
  /\ sent' = [sent EXCEPT ![c] = 0]
  /\ heard' = [heard EXCEPT ![c] = "none"]
  /\ accepted' = [accepted EXCEPT ![c] = FALSE]
  /\ UNCHANGED <<timer, age, cancelled, reply>>

\* ResolvePermissions with a role, ListPermissions.
StartStrict(c) == Start(c, "strict")

\* The account calls that decode a result: profile, security, sessions, ...
StartResult(c) == Start(c, "result")

\* The account calls that decode none: password, session revocation, logout.
StartBare(c) == Start(c, "bare")

RCReturn(c, o) ==
  /\ step' = [step EXCEPT ![c] = "idle"]
  /\ timer' = [timer EXCEPT ![c] = 0]
  /\ age' = [age EXCEPT ![c] = 0]
  /\ cancelled' = [cancelled EXCEPT ![c] = FALSE]
  /\ reply' = [reply EXCEPT ![c] = "none"]
  /\ outcome' = [outcome EXCEPT ![c] = o]
  /\ UNCHANGED <<kind, retries>>

\* One attempt: a new request is built and http.Do sends it.
Send(c) ==
  /\ step[c] = "ready" /\ ~cancelled[c]
  /\ step' = [step EXCEPT ![c] = "sent"]
  /\ timer' = [timer EXCEPT ![c] = HTTPTimeout]
  /\ sent' = [sent EXCEPT ![c] = @ + 1]
  /\ heard' = [heard EXCEPT ![c] = "none"]
  /\ UNCHANGED <<kind, retries, age, cancelled, reply, outcome, accepted>>

\* http.Do sends nothing under a context that is done, and no backoff follows.
SendCancelled(c) ==
  /\ step[c] = "ready" /\ cancelled[c]
  /\ RCReturn(c, "failed")
  /\ UNCHANGED RChistory

\* Mutants: the clock of backoff.Retry is not looked at; one retry too many.
NoElapsedLimit(c, d) == ~cancelled[c] /\ retries[c] < MaxRetries
OneTooMany(c, d) ==
  ~cancelled[c] /\ retries[c] =< MaxRetries /\ age[c] + d =< MaxElapsed

\* NextBackOff answers d and not Stop.
Allowed(c, d) ==
  ~cancelled[c] /\ retries[c] < MaxRetries /\ age[c] + d =< MaxElapsed

\* The attempt failed in a way that is not permanent.
Backoff(c) ==
  \E d \in 0 .. MaxInterval :
    \/ /\ Allowed(c, d)
       /\ step' = [step EXCEPT ![c] = "waiting"]
       /\ timer' = [timer EXCEPT ![c] = d]
       /\ retries' = [retries EXCEPT ![c] = @ + 1]
       /\ reply' = [reply EXCEPT ![c] = "none"]
       /\ UNCHANGED <<kind, age, cancelled, outcome>>
    \/ ~Allowed(c, d) /\ RCReturn(c, "failed")

\* The answer of the attempt is read in full, or its body breaks off.
Succeeds(c, whole) ==
  /\ reply[c] \in {"ok", "garbled"}
  /\ kind[c] # "bare" => reply[c] = "ok" /\ whole

\* Mutant: a strict call treats an undecodable result as the others do.
LenientStop(c, whole) == reply[c] = "refused"

\* backoff.Permanent: a status that is not retryable and, for strict calls, a
\* result that does not decode.  Strict calls read the body before the status.
Permanent(c, whole) ==
  \/ reply[c] = "refused" /\ (kind[c] = "strict" => whole)
  \/ reply[c] = "garbled" /\ kind[c] = "strict" /\ whole

\* An answer is there and its body was read in full, or not.
Hear(c, whole) ==
  /\ step[c] = "sent" /\ reply[c] # "none"
  /\ heard' = [heard EXCEPT ![c] = IF whole THEN reply[c] ELSE "none"]
  /\ UNCHANGED <<sent, accepted>>

Success(c, whole) ==
  Hear(c, whole) /\ Succeeds(c, whole) /\ RCReturn(c, "success")

Stop(c, whole) ==
  Hear(c, whole) /\ Permanent(c, whole) /\ RCReturn(c, "refused")

Again(c, whole) ==
  /\ Hear(c, whole)
  /\ ~Succeeds(c, whole) /\ ~Permanent(c, whole)
  /\ Backoff(c)

\* http.Do fails: no connection, or an answer lost on its way.
TransportError(c) ==
  /\ step[c] = "sent"
  /\ Backoff(c)
  /\ UNCHANGED RChistory

\* HTTPTimeout, or the caller's context: strict calls give up.
TimedOut(c) ==
  /\ step[c] = "sent"
  /\ timer[c] = 0 \/ cancelled[c]
  /\ \/ kind[c] = "strict" /\ RCReturn(c, "failed")
     \/ kind[c] # "strict" /\ Backoff(c)
  /\ UNCHANGED RChistory

\* The delay of backoff.Retry is over.
Retry(c) ==
  /\ step[c] = "waiting" /\ timer[c] = 0
  /\ step' = [step EXCEPT ![c] = "ready"]
  /\ UNCHANGED <<kind, retries, timer, age, cancelled, reply, outcome, RChistory>>

\* The caller's context ends the delay.
WaitCancelled(c) ==
  /\ step[c] = "waiting" /\ cancelled[c]
  /\ RCReturn(c, "failed")
  /\ UNCHANGED RChistory

-----------------------------------------------------------------------------
(* The caller, the server and time *)

Cancel(c) ==
  /\ step[c] # "idle" /\ ~cancelled[c]
  /\ cancelled' = [cancelled EXCEPT ![c] = TRUE]
  /\ UNCHANGED <<kind, loop, age, outcome, RChistory>>

\* The request reaches the server within its time and is answered with r.
Arrive(c, r) ==
  /\ step[c] = "sent" /\ reply[c] = "none" /\ timer[c] > 0 /\ ~cancelled[c]
  /\ reply' = [reply EXCEPT ![c] = r]
  /\ accepted' = [accepted EXCEPT ![c] = @ \/ r \in {"ok", "garbled"}]
  /\ UNCHANGED <<kind, step, retries, timer, age, cancelled, outcome, sent, heard>>

Busy(c) == step[c] # "idle"

\* One unit of time; nobody who need not wait waits.
RCTick ==
  /\ \A c \in Calls :
       Busy(c) => step[c] # "ready" /\ timer[c] > 0 /\ ~cancelled[c]
  /\ \E c \in Calls : Busy(c)
  /\ timer' = [c \in Calls |-> IF Busy(c) THEN timer[c] - 1 ELSE timer[c]]
  /\ age' = [c \in Calls |-> IF Busy(c) THEN age[c] + 1 ELSE age[c]]
  /\ UNCHANGED <<kind, step, retries, cancelled, reply, outcome, RChistory>>

Proceed(c) ==
  \/ Send(c) \/ SendCancelled(c) \/ TransportError(c) \/ TimedOut(c)
  \/ Retry(c) \/ WaitCancelled(c)
  \/ \E whole \in BOOLEAN : Success(c, whole) \/ Stop(c, whole) \/ Again(c, whole)

RCNext ==
  \/ \E c \in Calls : StartStrict(c) \/ StartResult(c) \/ StartBare(c)
  \/ \E c \in Calls : Proceed(c) \/ Cancel(c)
  \/ \E c \in Calls, r \in Replies : Arrive(c, r)
  \/ RCTick

RCSpec == RCInit /\ [][RCNext]_RCvars
-----------------------------------------------------------------------------
(* Properties *)

\* A call sends at most MaxRetries requests after its first, and only returns
\* success when the server accepted one of this call's requests.
Call == INSTANCE BoundedCall
          WITH MaxSends <- MaxRetries + 1, sends <- sent,
               running <- {c \in Calls : Busy(c)}
BoundedRetries == Call!Spec

\* A call is over once MaxElapsedTime and one more attempt have passed: the
\* clock is only looked at between attempts.
EndsInTime ==
  \A c \in Calls :
    /\ age[c] =< MaxElapsed + HTTPTimeout
    /\ step[c] = "ready" => age[c] =< MaxElapsed

\* A strict call sends nothing more once it has read a whole answer that is not
\* a transient failure: an accepted request whose result is malformed is not
\* repeated.
StrictNeverRepeats ==
  [][\A c \in Calls :
       kind[c] = "strict" /\ step[c] = "waiting" /\ step'[c] = "ready"
         => heard[c] \in {"none", "transient"}]_RCvars
=============================================================================
