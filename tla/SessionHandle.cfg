\* One session of each kind, its owner and two threads that submit commands.
SPECIFICATION Spec
CONSTANTS
  Sessions = {s1}
  Callers = {u1, u2}
  NoSession = NoSession
  Kinds = {"host", "dedicated", "replica"}
  Capacity = 2
  MaxAccepted = 3
INVARIANTS AcceptedIsKept EndIsHonest
PROPERTIES ShutdownReturns KeepsPromise
CHECK_DEADLOCK FALSE
