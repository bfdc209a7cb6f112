---------------------------- MODULE BoundedCall ----------------------------
(***************************************************************************)
(* What the retrying clients promise of a call: it sends a bounded number  *)
(* of requests, all of them before it returns, and it reports success only *)
(* if the server accepted a request of this very call.  The permission     *)
(* manifest client and the SDK's HTTP client are shown to implement it.    *)
(***************************************************************************)
EXTENDS Integers

CONSTANTS
  Calls,     \* goroutines, each with one call at a time
  MaxSends   \* requests a call may send

VARIABLES
  running,   \* the calls under way
  sends,     \* requests each call sent
  accepted,  \* the server accepted a request of the call
  outcome    \* what the call last returned

vars == <<running, sends, accepted, outcome>>

Init ==
  /\ running = {}
  /\ sends = [c \in Calls |-> 0]
  /\ accepted = [c \in Calls |-> FALSE]
  /\ outcome = [c \in Calls |-> "none"]

Start(c) ==
  /\ c \notin running
  /\ running' = running \cup {c}
  /\ sends' = [sends EXCEPT ![c] = 0]
  /\ accepted' = [accepted EXCEPT ![c] = FALSE]
  /\ outcome' = [outcome EXCEPT ![c] = "none"]

Send(c) ==
  /\ c \in running
  /\ sends[c] < MaxSends
  /\ sends' = [sends EXCEPT ![c] = @ + 1]
  /\ UNCHANGED <<running, accepted, outcome>>

Accept(c) ==
  /\ c \in running
  /\ sends[c] > 0
  /\ accepted' = [accepted EXCEPT ![c] = TRUE]
  /\ UNCHANGED <<running, sends, outcome>>

Return(c, o) ==
  /\ c \in running
  /\ o = "success" => accepted[c]
  /\ running' = running \ {c}
  /\ outcome' = [outcome EXCEPT ![c] = o]
  /\ UNCHANGED <<sends, accepted>>

Next ==
  \E c \in Calls :
    \/ Start(c) \/ Send(c) \/ Accept(c)
    \/ \E o \in {"success", "refused", "failed"} : Return(c, o)

Spec == Init /\ [][Next]_vars
=============================================================================
