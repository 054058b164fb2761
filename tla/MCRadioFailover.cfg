\* Two channels, one with spare receivers and one without.
CONSTANTS
  ChannelOf <- TwoChannels
  Replicas = 1
  MaxFaults = 2
SPECIFICATION FairSpec
INVARIANTS
  NoOrphan
  ConnectionsBounded
PROPERTIES
  ChannelsRecover
  StopCompletes
CHECK_DEADLOCK FALSE
