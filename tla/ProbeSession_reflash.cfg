SPECIFICATION Spec
CONSTANTS
  s1 = s1
  b1 = b1
  b2 = b2
  Sets = {s1}
  Discards = {}
  Saves = {}
  Builds = {b1, b2}
  HasRtt = FALSE
  LostAfter = 2
  MaxRound = 1
  MaxSends = 1
  MaxFlaps = 1
  Faults = {"reflash"}
INVARIANTS WritesMatch
CHECK_DEADLOCK FALSE
