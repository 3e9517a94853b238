SPECIFICATION StreamsSpec
CONSTANTS
  Shells       = {"s"}
  Fetches      = {}
  ShellChunks  = 3
  FetchChunks  = 1
  Buffer       = 1
  MaxShells    = 1
  MaxFetches   = 1
  MaxSessions  = 1
  MaxInTransit = 1
INVARIANTS
  NeverPanics
CHECK_DEADLOCK FALSE
