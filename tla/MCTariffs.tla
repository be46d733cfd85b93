------------------------------ MODULE MCTariffs ------------------------------
(* A small instance of Tariffs: short days, short tiers, fees of a few rupiah. *)
EXTENDS Tariffs, TLC

CONSTANT p1

Tier(minutes, fee, last) == [minutes |-> minutes, fee |-> fee, last |-> last]

\* Tiers that end, tiers that go on, a last tier in the middle, and two
\* lists that are refused.
MCTierLists ==
  {<<Tier(2, 3, FALSE), Tier(1, 2, TRUE)>>,
   <<Tier(1, 1, FALSE), Tier(2, 4, FALSE)>>,
   <<Tier(2, 3, TRUE), Tier(1, 5, FALSE)>>,
   <<Tier(1, 1, TRUE), Tier(1, 2, TRUE)>>,
   <<Tier(0, 1, TRUE)>>}

MCTariffs == {[base |-> 2, grace |-> 1]}

Rate(type, value, start, end, applies) ==
  [type |-> type, value |-> value, start |-> start, end |-> end, applies |-> applies]

\* Two multipliers, a free override, and one that is refused.
MCRateRequests ==
  {Rate("multiplier", 150, 0, 0, {p1}), Rate("multiplier", 83, 0, 0, {p1}),
   Rate("override", 0, 0, 0, {p1}), Rate("override", 5, 1, 0, {p1})}

Interchangeable == Permutations(RateIds)

=============================================================================
