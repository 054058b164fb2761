\* A reply and an update of the same event by two threads; nothing fails.
CONSTANTS
  phone = phone
  Phone = Phone
  other = other
  Reports <- OnePost
  AlarmPhone <- Spellings
  Normalised <- Normal
  Threads = {t1, t2}
  Facts = {f}
  Locations = {l}
  Replies = {r}
  None = None
  MaxEvents = 1
  SeedLimit = 1
  DedupWindow = 2
  MaxObjects = 1
  MaxCalls = 3
  MaxRestarts = 0
  MaxFails = 0
SPECIFICATION StoreSpec
INVARIANT
  ReplyDurable
CHECK_DEADLOCK FALSE
