SPECIFICATION FairSpec
CONSTANTS
  c1 = c1
  Clients = {c1}
  NoClient = NoClient
  Faulty = {c1}
  Expected = 1
  Chunks = 4
  MaxMemory = 3
  SendLimit = 2
  FinalTick = 2
  Timeout = 1
  Patience = 0
  MaxQueued = 2
  Memory <- MCMemory
INVARIANTS
  TypeOK NobodyRefused
PROPERTY
  PeersGoLive
