SPECIFICATION MCSpec
CONSTANTS
  Users             = {"u"}
  Roles             = {"admin", "member"}
  AccessLife        = 2
  RefreshLife       = 4
  MaxTokens         = 6
  Keys              = {"k1", "k2"}
  Requests          = {"q1", "q2"}
  Ids               = {1, 2}
  Console           = {}
  w1 = w1
  w2 = w2
  Replicas          = {w1, w2}
  Threshold         = 1
  Cap               = 1
  MaxAutoFailures   = 2
  SlowAttempts      = FALSE
  UnrecordedIntents = FALSE
  UnknownOutcomes   = FALSE
  Incidents         = {"rule", "card", "crash", "month"}
  MaxIncidents      = 2
  MaxMonth          = 2
  Links             = {w1, w2}
  Watchers          = {w1, w2}
  MicroPerCent      = 2
  LeastCents        = 2
  MostCents         = 4
  MaxUnpaid         = 2
  WatchWindow       = 2
  Transfers         = {1, 5}
  MaxTransactions   = 2
  MaxTicks          = 2
  Cycles            = {"y1"}
  Sweeps            = {"s"}
  Operators         = {"o"}
  MaxAttempts       = 2
  MaxMonths         = 1
  MaxInvoices       = 1
  MaxTries          = 2
  Nodes             = {"n1"}
  Labels            = {"x"}
  Placings          = {"p1", "p2"}
  Size              <- PlaceSizes
  Capacity          = 2
  MaxEnrolments     = 2
  MaxChanges        = 3
  Legacy            = TRUE
  MaxDeploys        = 2
  MaxFailures       = 2
  MaxHolds          = 1
  Editors           = {w1, w2}
  Backends          = {"b1", "b2"}
  Asked             <- SomeWishes
  MaxEdits          = 3
  MaxBreaks         = 1
INVARIANTS
  ModelsSound
  RunsWhatItsRowSays
  ServedAsLatelyHeld
  StrandsOnlyOverlapping
  FitsUnlessExcused
  RuleObeyed
  TransactionPaysOnce
  CollectedOnce
PROPERTIES
  EndpointStays
SYMMETRY Alike
CHECK_DEADLOCK FALSE
