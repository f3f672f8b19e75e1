SPECIFICATION SFairSpec
CONSTANTS
  Threads = {1, 2, 3}
  NoThread = 0
  Recurrent = TRUE
  UseMRope = TRUE
  NCtx = 6
  PkMax = 2
  NSlots = 2
  TextOf <- MCTextOf
  Body <- MixedBody
  GenToks = {2}
  Chunk = 2
  TimeSlice = 1
  HeartbeatOn = TRUE
  Ssd = FALSE
  MaxFaults = 1
PROPERTY Answered
CHECK_DEADLOCK FALSE
