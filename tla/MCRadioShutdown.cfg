\* stop() while the supervisor reconnects a receiver.
CONSTANTS
  ChannelOf <- TwoChannels
  Replicas = 1
  MaxFaults = 2
SPECIFICATION Spec
INVARIANT
  NothingSurvives
CHECK_DEADLOCK FALSE
