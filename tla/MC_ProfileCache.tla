--------------------------- MODULE MC_ProfileCache ---------------------------
(* Small instances of ProfileCache. *)
EXTENDS ProfileCache, TLC

CONSTANTS c1, c2, c3, userKey, tokenKey

TwoCallers == {c1, c2}
ThreeCallers == {c1, c2, c3}
OneKey == {userKey}
TwoKeys == {userKey, tokenKey}

Symmetry == Permutations(Callers) \cup Permutations(Keys)
=============================================================================
