SPECIFICATION SSpec
CONSTANTS
  Threads = {1, 2, 3}
  NoThread = 0
  Recurrent = TRUE
  UseMRope = TRUE
  NCtx = 6
  PkMax = 2
  NSlots = 2
  TextOf <- MCTextOf
  Body <- SsdBody
  GenToks = {1}
  Chunk = 2
  TimeSlice = 1
  HeartbeatOn = TRUE
  Ssd = TRUE
  MaxFaults = 2
INVARIANTS OwnConversation SlotsHonest
CHECK_DEADLOCK FALSE
