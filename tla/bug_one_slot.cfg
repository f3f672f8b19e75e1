SPECIFICATION SSpec
CONSTANTS
  Threads = {1, 2, 3}
  NoThread = 0
  Recurrent = TRUE
  UseMRope = TRUE
  NCtx = 6
  PkMax = 2
  NSlots = 1
  TextOf <- MCTextOf
  Body <- TextBody
  GenToks = {1}
  Chunk = 2
  TimeSlice = 1
  HeartbeatOn = FALSE
  Ssd = FALSE
  MaxFaults = 0
PROPERTY ParkedOnSwitch
CHECK_DEADLOCK FALSE
