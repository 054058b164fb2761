\* A deque of one event and a window of three keys: two posts, one of them an
\* Alarm Phone report under two spellings.
CONSTANTS
  phone = phone
  Phone = Phone
  other = other
  Reports <- TwoPosts
  AlarmPhone <- Spellings
  Normalised <- Normal
  Threads = {t1, t2}
  Facts = {f}
  Locations = {l}
  Replies = {r}
  None = None
  MaxEvents = 1
  SeedLimit = 1
  DedupWindow = 3
  MaxObjects = 3
  MaxCalls = 3
  MaxRestarts = 1
  MaxFails = 1
SPECIFICATION StoreFairSpec
INVARIANTS
  OneRowPerItem
  OneMarkerPerPost
PROPERTIES
  Recorded
  WaiterReleased
\* The bounded calls end.
CHECK_DEADLOCK FALSE
