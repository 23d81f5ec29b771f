SPECIFICATION FairSpec
CONSTANTS
  r1 = r1
  r2 = r2
  Requests = {r1, r2}
  DownCap = 2
  MaxSeq = 3
  MaxSessions = 2
  Faults = {"full", "dropped", "late", "reset", "lapse", "takeover", "shut"}
INVARIANT RefusalExplained
PROPERTIES KeepsContract Answered
CHECK_DEADLOCK FALSE
