CONSTANTS
  Events = {e1}
  Window = 1
  RecentWindow = 2
  MaxTime = 3
  MaxPosts = 2
  MaxReviews = 1
  MaxFails = 1
SPECIFICATION FairSpec
INVARIANTS
  ResolvedHasEvidence
  RulesAgree
PROPERTIES
  UpdatedNeverGoesBack
  ConclusionReachesRow
  SilenceRetires
