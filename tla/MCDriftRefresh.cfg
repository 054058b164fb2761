CONSTANTS
  Slots = 1
  MaxRuns = 3
  MaxMoves = 0
  MaxFaults = 1
SPECIFICATION FairSpec
CHECK_DEADLOCK FALSE
PROPERTIES
  Refreshed
