----------------------------- MODULE ParkingLot -----------------------------
(***************************************************************************)
(* What the transaction service promises (all-logic.md, sections 12 and    *)
(* 15): a vehicle goes from open to awaiting payment to exited, or is      *)
(* cancelled while open, and the zone's counter moves with it in the same  *)
(* step.  There are no requests here, no reads and no interleaving.        *)
(***************************************************************************)
EXTENDS Integers

CONSTANTS Txs, Zones, NoZone

VARIABLES
  status,   \* status of each transaction
  zone,     \* zone the vehicle entered
  counter   \* occupied count of each zone

lotVars == <<status, zone, counter>>

Init ==
  /\ status = [t \in Txs |-> "none"]
  /\ zone = [t \in Txs |-> NoZone]
  /\ counter = [z \in Zones |-> 0]

Move(t, from, to) ==
  /\ status[t] = from
  /\ status' = [status EXCEPT ![t] = to]

Enter(t, z) ==
  /\ Move(t, "none", "open")
  /\ zone' = [zone EXCEPT ![t] = z]
  /\ counter' = [counter EXCEPT ![z] = @ + 1]

\* The slot is free from the exit on, not from the payment on.
Leave(t, to) ==
  /\ Move(t, "open", to)
  /\ counter' = [counter EXCEPT ![zone[t]] = @ - 1]
  /\ UNCHANGED zone

\* Payment: in one step, or in two when the exit is confirmed apart.
Close(t) ==
  /\ \/ Move(t, "awaiting_payment", "exited")
     \/ Move(t, "awaiting_payment", "paid")
     \/ Move(t, "paid", "exited")
  /\ UNCHANGED <<zone, counter>>

Next ==
  \E t \in Txs :
    \/ \E z \in Zones : Enter(t, z)
    \/ Leave(t, "awaiting_payment")
    \/ Leave(t, "cancelled")
    \/ Close(t)

Spec == Init /\ [][Next]_lotVars

=============================================================================
