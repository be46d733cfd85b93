----------------------------- MODULE MCParking -----------------------------
(***************************************************************************)
(* Instances of Parking for TLC.                                           *)
(***************************************************************************)
EXTENDS Parking, TLC

\* Transactions, cards and handlers are interchangeable.
Symmetry == Permutations(Txs) \cup Permutations(Cards) \cup Permutations(Handlers)

=============================================================================
