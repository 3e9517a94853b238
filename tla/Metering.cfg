SPECIFICATION MCSpec
CONSTANTS
  NumLots       = 2
  MaxTime       = 0
  Amount        <- Purchases
  Expiry        <- NeverExpiring
  Records       = {"r1", "r2"}
  Cost          <- Prices
  Txs           = {"t1", "t2", "t3", "t4"}
  RecordOf      <- TwoForEach
  Expirers      = {}
  SlowCommit    = FALSE
  NoTx          = "none"
  Instances     = {"i1"}
  HasDisk       = {"i1"}
  PodFates      = {"failed", "terminated", "recovers"}
  GracefulExit  = TRUE
  NodeErrors    = TRUE
  SlowSweep     = FALSE
  MaxPods       = 2
  MaxCommands   = 3
  MaxDrops      = 1
  MaxUplink     = 2
  Collectors    = {"c"}
  Settler       = "c"
  DiskRate      = 1
  Horizon       = 2
  Runway        = 4
  HoldPeriod    = 1
  Retention     = 1
  StartBalance  = 4
  TopUpAmount   = 4
  MaxTopUps     = 1
  ReviveWindow  = 1
  MaxPending    = 1
  MaxMinutes    = 5
  MaxFaults     = 1
  StoreRequests = {"p1", "p2", "d", "c", "u", "g"}
  OpOf          <- OneOfEach
  Size          <- SmallAndLarge
  Keys          = {1}
  Buckets       = {1, 2}
  Slots         = 1
  BackendFails  = TRUE
  MaxHours      = 4
  MaxDownloads  = 1
  Callers       = {"b1", "b2"}
  MaxTitles     = 2
  MaxRobots     = 2
  MaxRequests   = 3
  MaxMishaps    = 1
  Direct        = TRUE
INVARIANTS
  RegistrySound
  DrawnAtMostCost
  
  BilledAsUsed
  
  
  CatalogTrue
  StorageBilledFairly
PROPERTIES
  ImplementsPrepaidAccount
CHECK_DEADLOCK FALSE
