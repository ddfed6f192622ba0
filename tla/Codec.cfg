\* Every byte string of up to eight digits, read as every message, and those of up to
\* six read as every type.
SPECIFICATION Spec
CONSTANTS
  Base = 4
  MaxPayload = 2
  MaxChunk = 2
  MaxRecord = 7
  Refused = Refused
  MaxBytes = 8
  CountBytes = 1
  LengthBytes = 2
  NotUtf8 = {3}
  MaxAllocation = 8
  MaxDepth = 2
  MaxDigits = 6
INVARIANTS RoundTrips PassesAgree HashesTellApart Unambiguous MeasuredFirst
CHECK_DEADLOCK FALSE
