SPECIFICATION Spec
CONSTANTS
  Users = {u1}
  Grants = {g1, g2, g3}
  Handlers = {h1, h2}
  Ops = {"login", "refresh", "logout"}
  LockAfter = 1
  MaxFaults = 1
  MaxTwins = 0
  None = None
INVARIANTS
  OneHolderPerLogin
CHECK_DEADLOCK FALSE
SYMMETRY Symmetry
