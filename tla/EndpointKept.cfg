SPECIFICATION SiteSpec
CONSTANTS
  MaxOrders = 2
  MaxSlips  = 0
  MaxTurns  = 0
INVARIANTS
  EndpointKept
CHECK_DEADLOCK FALSE
