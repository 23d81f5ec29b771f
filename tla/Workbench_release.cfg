SPECIFICATION Spec
CONSTANTS
  p1 = p1
  d1 = d1
  e1 = e1
  l1 = l1
  g1 = g1
  Probes = {p1}
  Serials = {}
  Disconnects = {d1}
  Recordings = {}
  StopCalls = {}
  Opens = {}
  OtherCalls = {p1}
  Elfs = {e1}
  Lists = {l1}
  Launches = {g1}
  QueueSize = 1
  Disk = FALSE
  MaxCalls = 2
  OutboxSize = 1
  MaxBatches = 0
  Faults = {}
INVARIANTS ProbeFree
CHECK_DEADLOCK FALSE
