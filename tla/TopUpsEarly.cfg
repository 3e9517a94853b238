SPECIFICATION FairSpec
CONSTANTS
  Ids               = {1, 2}
  Console           = {}
  Replicas          = {"r1"}
  Threshold         = 1
  Cap               = 1
  MaxAutoFailures   = 2
  SlowAttempts      = FALSE
  UnrecordedIntents = TRUE
  UnknownOutcomes   = FALSE
  Incidents         = {"crash"}
  MaxIncidents      = 1
  MaxMonth          = 1
PROPERTIES
  PaidIsCredited
CHECK_DEADLOCK FALSE
