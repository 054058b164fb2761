CONSTANTS
  Events = {e1}
  Window = 1
  RecentWindow = 1
  MaxTime = 0
  MaxPosts = 3
  MaxReviews = 0
  MaxFails = 0
SPECIFICATION FairSpec
PROPERTIES
  LaterEvidenceRevises
