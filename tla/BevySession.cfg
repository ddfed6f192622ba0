\* Two sessions that an App may attach one after the other, or at once.
SPECIFICATION BevySpec
CONSTANTS
  Sessions = {s1, s2}
  Callers = {}
  NoSession = NoSession
  Kinds = {"host"}
  Capacity = 1
  MaxAccepted = 1
INVARIANTS FrameFollowsSlot DetachedIsOver
PROPERTIES ExitEndsSession
CHECK_DEADLOCK FALSE
