--------------------------- MODULE MC_ManifestSync ---------------------------
(* A small instance of ManifestSync. *)
EXTENDS ManifestSync

CONSTANTS c1, c2, nobody

MCCommands == {c1, c2}
OneLifetime == {4}
=============================================================================
