------------------------------ MODULE MCPlates ------------------------------
(* Plates on a small instance: two plates, one of them written in two ways. *)
EXTENDS Plates

MCReadings ==
  {[plate |-> "a", spaced |-> FALSE], [plate |-> "a", spaced |-> TRUE],
   [plate |-> "b", spaced |-> FALSE]}

=============================================================================
