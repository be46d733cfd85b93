SPECIFICATION Spec
CONSTANTS
  p1 = p1
  Pairs = {p1}
  TierLists <- MCTierLists
  Tariffs <- MCTariffs
  RateRequests <- MCRateRequests
  ConfigIds = {f1}
  RateIds = {r1, r2}
  EndTime = 4
  Entries = {0, 2}
  Starts = {0, 3}
  Ends = {None}
  Day = 2
  Digits = 10000
  MaxFaults = 1
  None = None
INVARIANTS FeeAsDefined LongerPaysNoLess AllTiersOrNone
SYMMETRY Interchangeable
CHECK_DEADLOCK FALSE
