SPECIFICATION MCSpec
CONSTANTS
  NumLots      = 2
  MaxTime      = 1
  Amount       <- GrantAndPurchase
  Expiry       <- GrantThenNeverExpiring
  Records      = {"r1", "r2"}
  Cost         <- Prices
  Txs          = {"t1", "t2", "t3"}
  RecordOf     <- TwoForFirst
  Expirers     = {"e1"}
  SlowCommit   = TRUE
  NoTx         = "none"
  Settings     <- SomeSettings
  Agents       = {"a"}
  MaxOpen      = 1
  Addresses    = {"x", "y"}
  TierLimit    = 2
  CreateLimit  = 2
  DryRun       = FALSE
  MaxCalls     = 4
  MaxOrders    = 2
  MaxSlips     = 1
  MaxTurns     = 4
  GpuNodes     <- TwoGpus
  Launches     = {1, 2, 3}
  Wishes       = {1, 3}
  MaxRestarted = 1
  k1           = k1
  k2           = k2
  Clerks       = {k1, k2}
  MaxMonth     = 3
  MaxDocs      = 2
  MaxUsage     = 1
  MaxNames     = 2
  MaxMisses    = 1
SYMMETRY AlikeClerks
INVARIANTS
  TypeOK
  OverdrawnOnlyByLateDraws
  
  
  ObjectsSound
  LaunchesSound
  DocumentsSound
PROPERTIES
  DrawsInOrder
CHECK_DEADLOCK FALSE
