SPECIFICATION FairSpec
CONSTANTS
  None = None
  Version <- MCVersion
  MaxPre = 2
  Spelling <- MCSpelling
INVARIANTS
  UpdaterInv
PROPERTIES
  NeverOlder
  CacheForward
  
CHECK_DEADLOCK FALSE
