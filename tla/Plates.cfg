SPECIFICATION PlatesSpec
CONSTANTS
  Entry = j0
  Exits = {j1}
  Readings <- MCReadings
  Handlers = {h1}
  MaxRetries = 2
  MaxFaults = 2
  Null = Null
INVARIANTS FlagIsEarned VehicleIsSeen
PROPERTY JobEnds
CHECK_DEADLOCK FALSE
