--------------------------- MODULE MC_PortalToken ---------------------------
(* Small instances of PortalToken. *)
EXTENDS PortalToken, TLC

CONSTANTS c1, c2, read, write, nobody

MCCallers == {c1, c2}
MCScopes == {read, write}
MCMethods == {"GET", "POST"}
MCReadMethods == {"GET"}
MCLifetimes == {3, 5}

Symmetry == Permutations(Callers)
=============================================================================
