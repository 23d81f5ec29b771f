SPECIFICATION FairSpec
CONSTANTS
  p1 = p1
  q1 = q1
  d1 = d1
  d2 = d2
  r1 = r1
  t1 = t1
  o1 = o1
  e1 = e1
  l1 = l1
  g1 = g1
  Probes = {p1}
  Serials = {q1}
  Disconnects = {d1, d2}
  Recordings = {r1}
  StopCalls = {t1}
  Opens = {o1}
  OtherCalls = {p1, q1, o1}
  Elfs = {e1}
  Lists = {l1}
  Launches = {g1}
  QueueSize = 2
  Disk = TRUE
  MaxCalls = 3
  OutboxSize = 1
  MaxBatches = 1
  Faults = {"lost", "unreadable"}
INVARIANTS NoOrphan LastWordHolds RecordsWholeSession
PROPERTY CallsReturn
CHECK_DEADLOCK FALSE
