\* One thread and two restarts: both rows of one post may be loaded.
CONSTANTS
  phone = phone
  Phone = Phone
  other = other
  Reports <- TwoPosts
  AlarmPhone <- Spellings
  Normalised <- Normal
  Threads = {t1}
  Facts = {f}
  Locations = {}
  Replies = {r}
  None = None
  MaxEvents = 2
  SeedLimit = 1
  DedupWindow = 4
  MaxObjects = 4
  MaxCalls = 4
  MaxRestarts = 2
  MaxFails = 1
SPECIFICATION StoreSpec
INVARIANTS
  StoreTypeOK
  OneRowPerItem
  OneMarkerPerPost
CHECK_DEADLOCK FALSE
