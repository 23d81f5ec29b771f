SPECIFICATION FairSpec
CONSTANTS
  Requests = {}
  WatchSets <- MCWatchSets
  Cells = {1, 2}
  MaxWatches = 2
  Periods = {2, 3}
  MaxPeriod = 3
  Polls = {}
  Modulus = 2
  MaxSeq = 6
  MaxSamples = 4
  MaxCommands = 2
  Faults = {"sampleloss"}
INVARIANTS RowsLabelled StopsCleanly MissedCounted RowsReachSink
PROPERTY Settles
CHECK_DEADLOCK FALSE
