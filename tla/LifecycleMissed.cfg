SPECIFICATION FairSpec
CONSTANTS
  Instances       = {"i1"}
  HasDisk         = {}
  PodFates        = {"gone"}
  GracefulExit    = TRUE
  NodeErrors      = FALSE
  SlowSweep       = FALSE
  MaxPods         = 1
  MaxCommands     = 1
  MaxDrops        = 1
  MaxUplink       = 2
  Callers         = {"c1", "c2"}
  Requests        = {"create", "delete"}
  OtherAgents     = FALSE
  LostReplies     = FALSE
  DbFailures      = {}
  MaxOfEach       = 1
  MaxRestarts     = 0
  LateSeed        = FALSE
  PromptReconnect = FALSE
PROPERTIES
  NothingBilledWithoutPod
CHECK_DEADLOCK FALSE
