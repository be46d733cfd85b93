SPECIFICATION Spec
CONSTANTS
  Txs = {t1, t2, t3}
  Zones = {z1}
  Cards = {c1}
  Handlers = {h1, h2}
  Capacities = {2}
  Ops = {"entry", "exit", "cancel", "settle"}
  MaxRequests = 6
  NoTx = NoTx
  NoZone = NoZone
  NoCard = NoCard
SYMMETRY Symmetry
INVARIANTS
  TypeOK
  DriftBounded
  LogWellFormed
  StatusLogged
  CodesDense
  CapacityRowPerEdge
CHECK_DEADLOCK FALSE
