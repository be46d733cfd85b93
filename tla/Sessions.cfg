SPECIFICATION Spec
CONSTANTS
  Users = {u1}
  Grants = {g1, g2}
  Handlers = {h1, h2}
  Ops = {"login", "refresh", "validate", "logout", "password", "deactivate", "update"}
  LockAfter = 1
  MaxFaults = 0
  MaxTwins = 1
  None = None
INVARIANTS
  TypeOK
  DeactivationReachesAll
  LogoutEndsToken
CHECK_DEADLOCK FALSE
SYMMETRY Symmetry
