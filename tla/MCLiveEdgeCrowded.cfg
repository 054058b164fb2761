\* Two reports that compete for the one row of the second query, and a spike.
CONSTANTS
  Incidents = {d, e, s}
  Spikes = {s}
  Distress = {d}
  Contents = {c1}
  NoContent = NoContent
  Retention = 1
  Keep = 0
  Window = 1
  Ttl = 1
  ScanLimit = 1
  BatchSize = 1
  MaxEvents = 1
  MaxTime = 1
  MaxEdits = 1
  MaxFaults = 0
  MaxResets = 0
SPECIFICATION FairSpec
INVARIANTS
  AckMeansProcessed
  RemovalJustified
PROPERTIES
  Reaches
