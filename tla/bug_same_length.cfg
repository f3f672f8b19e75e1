SPECIFICATION SSpec
CONSTANTS
  Threads = {1, 2, 3}
  NoThread = 0
  Recurrent = FALSE
  UseMRope = TRUE
  NCtx = 6
  PkMax = 2
  NSlots = 2
  TextOf <- MCTextOf
  Body <- EvenBody
  GenToks = {1}
  Chunk = 2
  TimeSlice = 1
  HeartbeatOn = FALSE
  Ssd = FALSE
  MaxFaults = 0
PROPERTY ParkedOnSwitch
CHECK_DEADLOCK FALSE
