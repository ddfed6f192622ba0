SPECIFICATION AuthoritySpec
CONSTANTS
  c1 = c1
  c2 = c2
  Clients = {c1, c2}
  NoClient = NoClient
  Faulty = {c1}
  Expected = 1
  Chunks = 1
  MaxMemory = 3
  SendLimit = 2
  FinalTick = 0
  Timeout = 1
  Patience = 1
  MaxQueued = 2
  Memory <- MCMemory
PROPERTY
  StragglersLeave
