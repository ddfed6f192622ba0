SPECIFICATION Spec
CONSTANTS
  Clients = {c1}
  Host = host
  NoClient = none
  Commands = {one, two, bad}
  ValidCommands = {one, two}
  Faulty = {c1}
  Corrupt = corrupt
  Interval = 1
  HistoryIntervals = 1
  StartTick = 0
  MaxTick = 2
  TickBudget = 2
  LocalBatch = 1
  Recording = TRUE
  FailFast = FALSE
  MaxSubmits = 2
INVARIANTS
  CommandsInOrder
  RecordingSound
  ReplicasFollowLog
PROPERTIES
  ImplementsSequencer
