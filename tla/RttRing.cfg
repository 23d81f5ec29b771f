SPECIFICATION FairSpec
CONSTANTS
  Size = 3
  BufLen = 2
  MaxBytes = 5
  MaxResets = 1
INVARIANTS TypeOK InOrder PendingIntact InsideBuffer
PROPERTIES AllDelivered Heals
CHECK_DEADLOCK FALSE
