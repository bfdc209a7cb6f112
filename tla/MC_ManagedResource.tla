------------------------- MODULE MC_ManagedResource -------------------------
(* A small instance of ManagedResource. *)
EXTENDS ManagedResource, TLC

CONSTANTS e1, e2, i1, i2

MCEditors == {e1, e2}
MCKeys == {i1, i2}
Symmetry == Permutations(Editors) \cup Permutations(Keys)
=============================================================================
