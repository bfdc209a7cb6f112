----------------------- MODULE MC_PermissionResolver -----------------------
(* A small instance of PermissionResolver. *)
EXTENDS PermissionResolver

CONSTANTS c1, c2, k1, nobody

TwoCallers == {c1, c2}
OneKey == {k1}
=============================================================================
