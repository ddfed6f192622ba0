SPECIFICATION Spec
CONSTANTS
  Clients = {c1, c2}
  Host = host
  NoClient = none
  Commands = {ok}
  ValidCommands = {ok}
  Faulty = {c2}
  Corrupt = corrupt
  Interval = 1
  HistoryIntervals = 1
  StartTick = 3
  MaxTick = 7
  TickBudget = 1
  LocalBatch = 1
  Recording = TRUE
  FailFast = FALSE
  MaxSubmits = 0
INVARIANTS
  TypeOK
  HonestReportsAccepted
  VerifiedIsAgreed
  DivergenceDetected
  ClientsNeverRefuse
