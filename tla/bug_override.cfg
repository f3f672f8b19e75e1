SPECIFICATION SSpec
CONSTANTS
  Threads = {1, 2}
  NoThread = 0
  Recurrent = TRUE
  UseMRope = TRUE
  NCtx = 6
  PkMax = 2
  NSlots = 2
  TextOf <- MCTextOf
  Body <- StaleBody
  GenToks = {1}
  Chunk = 2
  TimeSlice = 1
  HeartbeatOn = FALSE
  Ssd = FALSE
  MaxFaults = 1
INVARIANT OwnConversation
CHECK_DEADLOCK FALSE
