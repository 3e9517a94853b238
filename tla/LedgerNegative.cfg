SPECIFICATION Spec
CONSTANTS
  NumLots    = 2
  MaxTime    = 1
  Amount     <- GrantAndPurchase
  Expiry     <- GrantThenNeverExpiring
  Records    = {"r1", "r2"}
  Cost       <- Prices
  Txs        = {"t1", "t2", "t3"}
  RecordOf   <- TwoForFirst
  Expirers   = {"e1"}
  SlowCommit = FALSE
  NoTx       = "none"
INVARIANTS
  BalanceNeverNegative
CHECK_DEADLOCK FALSE
