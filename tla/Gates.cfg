SPECIFICATION Spec
CONSTANTS
  GateIds = {g1, g2}
  Cashiers = {u1}
  Codes = {c1}
  Addresses = {i1}
  Streams = {s1, s2}
  Admins = {a1}
  MaxFaults = 1
  None = None
INVARIANTS
  TypeOK
  WithCashierStaffed
  DeliveredOnRecord
  ServedOnce
  OneListenerPerCode
  RegisteredOpen
CHECK_DEADLOCK FALSE
SYMMETRY Symmetry
