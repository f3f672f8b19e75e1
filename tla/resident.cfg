SPECIFICATION RSpec
CONSTANTS
  Layers = {1, 2}
  Experts = {1, 2}
  Roles <- OneRole
  Pools = {"a"}
  PoolOf <- OnePool
  NSlots <- Slots3
  NUsed = 1
  Margin = 0
  Ssd = FALSE
  Rankings <- OneOrder
  Modes = {"plain", "fast", "resident"}
  ResMin = 2
  WarmTok = 1
  Budget = 1
  CmRefill = 1
  UsePle = FALSE
  Win = 1
  Rounds = 1
INVARIANTS CTypeOK HoldsWeights EnsureUsable TokenExact StampHonest
