SPECIFICATION FairSpec
CONSTANTS
  a = a
  b = b
  Peer = {a, b}
  Dialers = {a}
  MaxStreams = 2
  MaxInFlight = 2
INVARIANTS
  StreamsIndependent
  PipesIntoTarget
  ClosedIsClosed
PROPERTIES
  HandlerReturns
  PeerHeardAgain
CHECK_DEADLOCK FALSE
