SPECIFICATION Spec
CONSTANTS
  c1 = c1
  c2 = c2
  Clients = {c1, c2}
  NoClient = NoClient
  Faulty = {c2}
  Expected = 2
  Chunks = 2
  MaxMemory = 3
  SendLimit = 2
  FinalTick = 0
  Timeout = 1
  Patience = 1
  MaxQueued = 2
  Memory <- MCMemory
INVARIANTS
  ReceiverMemoryBounded BarrierSound
PROPERTY
  ReadyWaits
