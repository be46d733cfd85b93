SPECIFICATION Spec
CONSTANTS
  Txs = {t1, t2, t3}
  Zones = {z1, z2}
  Cards = {c1, c2}
  Handlers = {h1}
  Capacities = {1, 2}
  Ops = {"entry", "exit", "cancel", "settle", "simulate", "mark_paid", "mark_exited"}
  MaxRequests = 6
  NoTx = NoTx
  NoZone = NoZone
  NoCard = NoCard
SYMMETRY Symmetry
INVARIANTS
  OneActivePerCard
  WithinCapacity
PROPERTIES
  ImplementsLot
CHECK_DEADLOCK FALSE
