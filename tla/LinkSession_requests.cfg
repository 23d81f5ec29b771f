SPECIFICATION FairSpec
CONSTANTS
  r1 = r1
  r2 = r2
  Requests = {r1, r2}
  WatchSets <- MCTwoSets
  Cells = {1, 2}
  MaxWatches = 2
  Periods = {1}
  MaxPeriod = 2
  Polls = {"LEASE", "READ"}
  Modulus = 4
  MaxSeq = 4
  MaxSamples = 0
  MaxCommands = 1
  Faults = {"loss", "fail", "late", "lapse", "takeover"}
PROPERTIES KeepsContract RequestsAnswered
CHECK_DEADLOCK FALSE
