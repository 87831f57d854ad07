SPECIFICATION Spec
CONSTANTS
  p1 = p1
  p2 = p2
  None = None
  Portal = {p1, p2}
  MaxAttempts = 2
  MaxEras = 3
  MaxEntering = 2
SYMMETRY Symmetry
INVARIANTS
  AccountInv
  ForeignRows
  RememberedHasAccount
CHECK_DEADLOCK FALSE
