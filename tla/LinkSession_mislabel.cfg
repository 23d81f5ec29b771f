SPECIFICATION Spec
CONSTANTS
  Requests = {}
  WatchSets <- MCTwoSets
  Cells = {1, 2}
  MaxWatches = 2
  Periods = {2}
  MaxPeriod = 2
  Polls = {}
  Modulus = 4
  MaxSeq = 4
  MaxSamples = 2
  MaxCommands = 2
  Faults = {"loss"}
INVARIANTS RowsLabelled
CHECK_DEADLOCK FALSE
