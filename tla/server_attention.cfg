SPECIFICATION SSpec
CONSTANTS
  Threads = {1, 2, 3}
  NoThread = 0
  Recurrent = FALSE
  UseMRope = FALSE
  NCtx = 6
  PkMax = 2
  NSlots = 1
  TextOf <- MCTextOf
  Body <- AttnBody
  GenToks = {1, 2}
  Chunk = 1
  TimeSlice = 1
  HeartbeatOn = FALSE
  Ssd = FALSE
  MaxFaults = 0
INVARIANTS OwnConversation
CHECK_DEADLOCK FALSE
