CONSTANTS
  Incidents = {d}
  Spikes = {}
  Distress = {d}
  Contents = {c1, c2}
  NoContent = NoContent
  Retention = 1
  Keep = 1
  Window = 2
  Ttl = 2
  ScanLimit = 1
  BatchSize = 1
  MaxEvents = 1
  MaxTime = 0
  MaxEdits = 1
  MaxFaults = 1
  MaxResets = 0
SPECIFICATION FairSpec
PROPERTIES
  StaleNeverReplaces
