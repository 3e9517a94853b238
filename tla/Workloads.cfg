SPECIFICATION MCSpec
CONSTANTS
  Instances        = {"i1"}
  HasDisk          = {"i1"}
  PodFates         = {"failed", "terminated", "gone"}
  GracefulExit     = FALSE
  NodeErrors       = FALSE
  SlowSweep        = FALSE
  MaxPods          = 1
  MaxCommands      = 6
  MaxDrops         = 0
  MaxUplink        = 2
  Callers          = {"c1", "c2"}
  Requests         = {"create", "start", "hold", "purge"}
  OtherAgents      = TRUE
  LostReplies      = FALSE
  DbFailures       = {"create", "start"}
  MaxOfEach        = 1
  MaxRestarts      = 0
  LateSeed         = FALSE
  PromptReconnect  = FALSE
  Deploys          = {a, b}
  Savers           = {"s"}
  FlowTimeout      = 1
  StaleAfter       = 2
  Sizes            = {1, 2}
  MaxVersions      = 1
  MaxPlans         = 1
  MaxEdits         = 0
  MaxApps          = 1
  MaxCrashes       = 1
  Calls            = {a, b}
  Costs            = {1}
  Dearest          = 1
  Messages         = {"m1", "m2"}
  Raises           = {"r1", "r2"}
  FirstBudget      = 1
  Budgets          = {2, 3}
  MaxLosses        = 1
  Prompts          = {a, b, c}
  Accounts         = {"a"}
  Asker            <- OneAccount
  Backends         = {"b1"}
  AccountCap       = 2
  Externals        = TRUE
  Capacities       = {1, 2}
  WorstCase        = 1
  Charges          = {1}
  StartCredit      = 0
  GrantSize        = 1
  MaxGrants        = 1
  MaxRemounts      = 1
  Shells           = {"s"}
  Fetches          = {"f"}
  ShellChunks      = 3
  FetchChunks      = 1
  Buffer           = 1
  MaxShells        = 1
  MaxFetches       = 1
  MaxSessions      = 2
  MaxInTransit     = 1
  Models           = {1, 2}
  Gb               <- ModelSizes
  ModelBudget      = 2
  MaxMishaps       = 1
INVARIANTS
  
  OneDeployAtATime
  
  
  SlotsExact
  StreamsSound
  
SYMMETRY Alike
CHECK_DEADLOCK FALSE
