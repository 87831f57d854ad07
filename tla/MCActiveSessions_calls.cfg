SPECIFICATION FairSpec
CONSTANTS
  f1 = f1
  o1 = o1
  o2 = o2
  NoPortal = NoPortal
  Foreign = {f1}
  Own = {o1}
  MaxSessions = 1
  MaxLaunches = 2
  Habits = {"cancels", "rejoins", "signsOut"}
INVARIANTS
  FailureLeavesNothing
  OrphanOnlyAtEnd
PROPERTIES
  EveryCallReturns
CHECK_DEADLOCK FALSE
