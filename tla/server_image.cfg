SPECIFICATION SSpec
CONSTANTS
  Threads = {1, 2, 3}
  NoThread = 0
  Recurrent = TRUE
  UseMRope = TRUE
  NCtx = 6
  PkMax = 2
  NSlots = 2
  TextOf <- MCTextOf
  Body <- ImageBody
  GenToks = {1}
  Chunk = 5
  TimeSlice = 1
  HeartbeatOn = TRUE
  Ssd = FALSE
  MaxFaults = 0
INVARIANTS OwnConversation SlotsHonest
CHECK_DEADLOCK FALSE
