\* A distress report and a newer spike that fills the scan limit.  One tick is
\* longer than Keep, so that delivered ids are pruned.
CONSTANTS
  Incidents = {d, s}
  Spikes = {s}
  Distress = {d}
  Contents = {c1}
  NoContent = NoContent
  Retention = 1
  Keep = 0
  Window = 1
  Ttl = 1
  ScanLimit = 1
  BatchSize = 1
  MaxEvents = 1
  MaxTime = 1
  MaxEdits = 1
  MaxFaults = 1
  MaxResets = 1
SPECIFICATION FairSpec
INVARIANTS
  AckMeansProcessed
  RemovalJustified
PROPERTIES
  Reaches
