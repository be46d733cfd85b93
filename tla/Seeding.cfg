SPECIFICATION SeedingSpec
CONSTANTS
  FixedZones = {z1}
  ExtraZones = {z2, z3}
  MaxTxs = 2
  MaxRuns = 3
  MaxFaults = 1
INVARIANTS RecoveredByRun 
PROPERTY Reseeds
CHECK_DEADLOCK FALSE
SYMMETRY Symmetry
