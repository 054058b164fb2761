CONSTANTS
  Slots = 2
  MaxRuns = 2
  MaxMoves = 0
  MaxFaults = 2
SPECIFICATION FairSpec
CHECK_DEADLOCK FALSE
INVARIANTS
  SlotsBalance
  CompletedIsBacked
PROPERTIES
  Recovered
