\* Two sessions over three files, the second of which may resume what the first recorded.
SPECIFICATION Spec
CONSTANTS
  Paths = {"save", "run", "run2"}
  NoPath = "none"
  Absent = Absent
  Games = {own, older, foreign}
  OwnGame = own
  ForeignGames = {foreign}
  Inputs = {a}
  Interval = 2
  InitialFiles <- MCInitialFiles
  MaxLog = 3
  MaxGrowth = 2
  MaxSessions = 2
INVARIANTS RecordingIsHistory ReadInFull ServedAgree LossIsBounded
