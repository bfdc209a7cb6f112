------------------------------ MODULE MC_JWKS ------------------------------
(* Small instances of JWKS. *)
EXTENDS JWKS, TLC

CONSTANTS k1, k2, v1, v2, p1

MCKids == {k1, k2}
MCVerifiers == {v1, v2}
OneKid == {k1}
MCPreloaders == {p1}

=============================================================================
