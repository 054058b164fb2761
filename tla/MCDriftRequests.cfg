CONSTANTS
  Slots = 2
  MaxRuns = 2
  MaxMoves = 1
  MaxFaults = 1
SPECIFICATION FairSpec
CHECK_DEADLOCK FALSE
INVARIANTS
  SlotsBalance
  CompletedIsBacked
PROPERTIES
  Recovered
