SPECIFICATION Spec
CONSTANTS
  HoursPerDay = 3
  MinutesPerHour = 2
  Minute = 1
  Families <- Irregular
  MaxWindows = 1
  Start = 42
  End = 84
INVARIANT
  FindsNextFlip
CHECK_DEADLOCK FALSE
