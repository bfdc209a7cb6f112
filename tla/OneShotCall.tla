----------------------------- MODULE OneShotCall -----------------------------
(***************************************************************************)
(* What callers are promised by a client that never repeats a mutation:    *)
(* the server carries a call out at most once while the caller waits,      *)
(* "done" is said only of a call that was carried out, and "refused" only  *)
(* of one that was not.  The client may always answer "unknown".           *)
(***************************************************************************)
CONSTANT Callers

VARIABLES
  state,    \* "ready" before the call, "open" during it, "closed" after it
  done,     \* the server carried the call out
  verdict   \* what the client told the caller

vars == <<state, done, verdict>>

Init ==
  /\ state = [c \in Callers |-> "ready"]
  /\ done = [c \in Callers |-> FALSE]
  /\ verdict = [c \in Callers |-> "none"]

Set(c, s, d, v) ==
  /\ state' = [state EXCEPT ![c] = s]
  /\ done' = [done EXCEPT ![c] = d]
  /\ verdict' = [verdict EXCEPT ![c] = v]

Start(c) == state[c] # "open" /\ Set(c, "open", FALSE, "none")

\* A call that never leaves the client is over at once.
Reject(c) == state[c] # "open" /\ Set(c, "closed", FALSE, "refused")

\* The caller turns to something else.
Forget(c) == state[c] # "open" /\ Set(c, "ready", FALSE, "none")

Perform(c) == state[c] = "open" /\ ~done[c] /\ Set(c, "open", TRUE, "none")

Close(c) ==
  /\ state[c] = "open"
  /\ \E v \in {IF done[c] THEN "done" ELSE "refused", "unknown"} :
       Set(c, "closed", done[c], v)

Next == \E c \in Callers :
          Start(c) \/ Reject(c) \/ Forget(c) \/ Perform(c) \/ Close(c)

Spec == Init /\ [][Next]_vars
=============================================================================
