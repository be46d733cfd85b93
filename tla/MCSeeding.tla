------------------------------ MODULE MCSeeding ------------------------------
(***************************************************************************)
(* Seeding on a small instance: which of the drawn zones is which makes no *)
(* difference.                                                             *)
(***************************************************************************)
EXTENDS Seeding, TLC

Symmetry == Permutations(ExtraZones)

=============================================================================
