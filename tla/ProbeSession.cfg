SPECIFICATION FairSpec
CONSTANTS
  s1 = s1
  d1 = d1
  b1 = b1
  b2 = b2
  Sets = {s1}
  Discards = {d1}
  Saves = {}
  Builds = {b1, b2}
  HasRtt = TRUE
  LostAfter = 2
  MaxRound = 1
  MaxSends = 1
  MaxFlaps = 1
  Faults = {"glitch"}
INVARIANTS WritesMatch LostIsReal
PROPERTIES KeepsContract NoticesLoss RequestsAnswered
CHECK_DEADLOCK FALSE
