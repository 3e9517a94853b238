SPECIFICATION MCSpec
CONSTANTS
  Instances       = {"i1"}
  HasDisk         = {}
  PodFates        = {"failed", "terminated", "gone", "recovers"}
  GracefulExit    = TRUE
  NodeErrors      = TRUE
  SlowSweep       = FALSE
  MaxPods         = 1
  MaxCommands     = 2
  MaxDrops        = 0
  MaxUplink       = 2
  Callers         = {"c1", "c2"}
  Requests        = {"create", "delete"}
  OtherAgents     = FALSE
  LostReplies     = FALSE
  DbFailures      = {}
  MaxOfEach       = 1
  MaxRestarts     = 1
  LateSeed        = FALSE
  PromptReconnect = TRUE
PROPERTIES
  NoPodIsNoticed
  RunningPodIsBilled
  
  LapsedCreditForfeited
CHECK_DEADLOCK FALSE
