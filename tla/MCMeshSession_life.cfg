SPECIFICATION FairSpec
CONSTANTS
  r1 = r1
  Remote = {r1}
  OwnerChoices = {TRUE, FALSE}
  MaxSessions = 3
  MaxAttempts = 2
  QueueBound = 2
INVARIANTS
  EntriesOfThisSession
  CloseLeavesNothing
  LeaveSticks
PROPERTIES
  CloseTerminates
  ReconnectEnds
CHECK_DEADLOCK FALSE
