SPECIFICATION Spec
CONSTANTS
  f1 = f1
  o1 = o1
  o2 = o2
  NoPortal = NoPortal
  Foreign = {f1}
  Own = {o1, o2}
  MaxSessions = 2
  MaxLaunches = 3
  Habits = {}
SYMMETRY Symmetric
INVARIANTS
  LeftIsForgotten
  LiveHasRow
  KeptForNextLaunch
CHECK_DEADLOCK FALSE
