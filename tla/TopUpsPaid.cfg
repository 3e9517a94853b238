SPECIFICATION FairSpec
CONSTANTS
  Ids               = {1, 2}
  Console           = {1}
  Replicas          = {"r1"}
  Threshold         = 1
  Cap               = 1
  MaxAutoFailures   = 2
  SlowAttempts      = FALSE
  UnrecordedIntents = FALSE
  UnknownOutcomes   = FALSE
  Incidents         = {"rule", "card", "crash", "month"}
  MaxIncidents      = 1
  MaxMonth          = 2
INVARIANTS
  CreditMatchesPayment
PROPERTIES
  PaidIsCredited
  LowBalanceRecharged
CHECK_DEADLOCK FALSE
