SPECIFICATION AllSpec
CONSTANTS
  Attempts = 3
  Total = 3
  MaxPage = 2
  Versions = {1, 2}
  MaxPayload = 2
  MaxRead = 5
  Gap = 1
  MaxLen = 4
  Watches <- MCWatches
  Periods = {2, 3}
  TickWrap = 4
  Window = 3
  MaxNow = 6
  MaxTicks = 3
  Byte <- MCByte
  Failures <- MCFailures
INVARIANTS ConnectedKnowsAll FramesRecovered BatchTrue TicksKept
PROPERTY HandshakeEnds
CHECK_DEADLOCK FALSE
