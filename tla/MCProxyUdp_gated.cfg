SPECIFICATION FairSpec
CONSTANTS
  d = d
  x = x
  y = y
  Dialer = d
  Asker = {d}
  MaxPrompts = 2
  Src = {x, y}
  MaxId = 2
  MaxInFlight = 2
INVARIANTS
  ProxyUdpInv
PROPERTIES
  DialsWithLeave
  SilentSourceRecovers
CHECK_DEADLOCK FALSE
