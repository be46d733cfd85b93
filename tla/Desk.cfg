SPECIFICATION Spec
CONSTANTS
  Cashiers = {u1}
  Gates = {g1}
  Txs = {t1}
  Streams = {s1, s2}
  Screens = {c1, c2}
  Asks = {k1}
  Tills = {d1}
  CashierBuffer = 1
  KioskBuffer = 1
  MaxFaults = 1
  None = None
INVARIANTS OneKioskListener ClosedOnce ListedOpen PollFindsWhatIsSent
PROPERTIES KioskHears
CHECK_DEADLOCK FALSE
