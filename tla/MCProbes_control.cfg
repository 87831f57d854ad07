SPECIFICATION CtlFairSpec
CONSTANTS
  c1 = c1
  c2 = c2
  t1 = t1
  None = None
  Call = {c1, c2}
  Ping = {t1}
  MaxChunks = 1
  MaxQueued = 2
  MaxDrops = 1
INVARIANTS
  ProbesInv
PROPERTIES
  CallReturns
  PingsAreForgotten
CHECK_DEADLOCK FALSE
