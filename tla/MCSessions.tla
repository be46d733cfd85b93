----------------------------- MODULE MCSessions -----------------------------
(***************************************************************************)
(* Sessions on a small instance: grants and handlers are interchangeable,   *)
(* and the run with this symmetry checks invariants only.                  *)
(***************************************************************************)
EXTENDS Sessions, TLC

Symmetry == Permutations(Grants) \cup Permutations(Handlers)

=============================================================================
