SPECIFICATION CSpec
CONSTANTS
  Layers = {1, 2, 3}
  Experts = {1}
  Roles <- TwoRoles
  Pools = {"a", "b"}
  PoolOf <- TwoPools
  NSlots <- UnevenSlots
  NUsed = 1
  Margin = 0
  Ssd = TRUE
  Rankings <- LayerOrders
INVARIANTS MapsAgree OccExact QuotaFits

