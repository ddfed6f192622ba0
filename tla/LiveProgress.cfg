SPECIFICATION FairSpec
CONSTANTS
  Clients = {c1, c2}
  Host = host
  NoClient = none
  Commands = {ok}
  ValidCommands = {ok}
  Faulty = {c2}
  Corrupt = corrupt
  Interval = 1
  HistoryIntervals = 1
  StartTick = 0
  MaxTick = 3
  TickBudget = 1
  LocalBatch = 1
  Recording = FALSE
  FailFast = TRUE
  MaxSubmits = 0
PROPERTIES
  TicksReachReplicas
  LoopNeverBlocks
