SPECIFICATION PortSpec
SYMMETRY Alike
CONSTANTS
  s1 = s1
  c1 = c1
  c2 = c2
  c3 = c3
  tcp = tcp
  udp = udp
  None = None
  Session = {s1}
  Proto = {tcp, udp}
  Call = {c1, c2, c3}
  AtOnce = 2
INVARIANTS
  PeersAgree
  ExposesInv
CHECK_DEADLOCK FALSE
