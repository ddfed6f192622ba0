\* A loop whose work takes from nothing to fourteen ticks, with late wake-ups.
SPECIFICATION Spec
CONSTANTS
  Duration = 2
  MaxWork = 28
  MaxSleep = 2
  MaxTime = 60
INVARIANTS Paced
CHECK_DEADLOCK FALSE
