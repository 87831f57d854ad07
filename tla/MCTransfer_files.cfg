SPECIFICATION FairSpec
CONSTANTS
  a = a
  b = b
  n = n
  Sender = {a, b}
  Name = {n}
  Xfer <- OneEach
  MaxChunks = 2
  Length = {2}
  MaxQueued = 2
  MaxDrops = 1
  MaxCopies = 2
INVARIANTS
  TransferInv
  CancelledIsNotSaved
PROPERTIES
  ReplacedByOthersOnly
  EveryOfferResolves
  Delivers
CHECK_DEADLOCK FALSE
