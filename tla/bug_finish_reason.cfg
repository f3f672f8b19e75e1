SPECIFICATION SSpec
CONSTANTS
  Threads = {1, 2, 3}
  NoThread = 0
  Recurrent = TRUE
  UseMRope = TRUE
  NCtx = 4
  PkMax = 2
  NSlots = 2
  TextOf <- MCTextOf
  Body <- LimitBody
  GenToks = {1}
  Chunk = 2
  TimeSlice = 1
  HeartbeatOn = FALSE
  Ssd = FALSE
  MaxFaults = 0
INVARIANT FinishReason
CHECK_DEADLOCK FALSE
