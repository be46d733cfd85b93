------------------------------ MODULE MCGates ------------------------------
(***************************************************************************)
(* Gates on a small instance.  Gates, codes and streams are interchangeable *)
(* in Init and in every action, and the run with this symmetry checks       *)
(* invariants only.                                                        *)
(***************************************************************************)
EXTENDS Gates, TLC

Symmetry == Permutations(GateIds) \cup Permutations(Codes) \cup Permutations(Streams)

=============================================================================
