SPECIFICATION CSpec
CONSTANTS
  Layers = {1, 2}
  Experts = {1, 2}
  Roles <- TwoRoles
  Pools = {"a", "b"}
  PoolOf <- TwoPools
  NSlots <- UnevenSlots
  NUsed = 1
  Margin = 0
  Ssd = TRUE
  Rankings <- OneOrder
INVARIANTS EnsureUsable

