SPECIFICATION Spec
CONSTANTS
  a = a
  b = b
  Peer = {a, b}
  Dialers = {a, b}
  MaxStreams = 1
  MaxInFlight = 2
INVARIANTS
  StreamsIndependent
CHECK_DEADLOCK FALSE
