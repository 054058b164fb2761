CONSTANTS
  i1 = i1
  i2 = i2
  i3 = i3
  v1 = v1
  v2 = v2
  Incidents = {i1, i2, i3}
  Versions = {v1, v2}
  Ids <- MCIds
  MaxTime = 2
  Ttl = 2
  MaxEvents = 2
  MaxResets = 1
SPECIFICATION Spec
SYMMETRY Symmetry
INVARIANTS
  AcceptedOnce
  NoResurrection
  VisibleIsLatest
  EvictedOnlyWhenFull
