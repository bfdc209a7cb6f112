------------------------- MODULE MC_AccountSecurity -------------------------
(* A small instance of AccountSecurity. *)
EXTENDS AccountSecurity, TLC

CONSTANTS c1, c2, k1

MCCallers == {c1, c2}
MCKeys == {k1}
Symmetry == Permutations(Callers)
=============================================================================
