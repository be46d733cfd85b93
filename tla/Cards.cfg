SPECIFICATION CardsSpec
CONSTANTS
  Ids = {i1, i2}
  Uids = {u1, u2}
  Vehicles = {v1}
  Operators = {o1, o2}
  Requests = {h1, h2}
  MaxStays = 2
  None = None
INVARIANTS RevokedOpensNothing DeactivationOnRecord
PROPERTY RevokedFrozen
