----------------------------- MODULE MCDocTurns -----------------------------
(* Instances of DocTurns for TLC. *)
EXTENDS DocTurns

Interchangeable == Permutations(Panels)

=============================================================================
