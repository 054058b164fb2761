CONSTANTS
  MaxPolls = 2
  MaxRev = 1
  MaxOutages = 2
  MaxReloads = 1
SPECIFICATION ClientFairSpec
PROPERTIES
  Converges
  LastGoodKept
  OneChain
