SPECIFICATION Spec
CONSTANTS
  Txs = {t1}
  Payments = {p1, p2}
  Refunds = {r1, r2}
  Desks = {h1, h2}
  Admins = {a1}
  MaxFaults = 1
  None = None
INVARIANTS
  ExitedIsPaid
  AgreesWithMidtrans
  RefundOnce
PROPERTIES
  SettledExits
CHECK_DEADLOCK FALSE
