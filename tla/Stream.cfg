SPECIFICATION FairSpec
CONSTANTS
  x = x
  y = y
  c1 = c1
  Ids = {1, 2}
  Names = {x, y}
  Lists <- MCLists
  Subscribers = {"stream"}
  Capacity = 2
  MaxBatches = 2
  MaxChanges = 3
  Clients = {c1}
  LineQueue = 2
  DropLimit = 1
  MaxStarts = 1
INVARIANTS LatestNames LossesAddUp ColumnsAnnounced
PROPERTIES DropsNeverFall TapLossTold
CHECK_DEADLOCK FALSE
