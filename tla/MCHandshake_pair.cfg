SPECIFICATION FairSpec
CONSTANTS
  p1 = p1
  p2 = p2
  Client = {p1, p2}
  MaxCand = 3
  MayLeave = {p1, p2}
  MayFail = TRUE
INVARIANTS
  NoGlare
  NoCandidateLost
  DescriptionsMatch
PROPERTIES
  EveryPairBecomesReady
CHECK_DEADLOCK FALSE
