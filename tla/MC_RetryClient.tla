--------------------------- MODULE MC_RetryClient ---------------------------
(* A small instance of RetryClient.  Calls share no state: one is enough.    *)
EXTENDS RetryClient

CONSTANT c1

MCCalls == {c1}
=============================================================================
