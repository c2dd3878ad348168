SPECIFICATION Spec
CONSTANTS
  HoursPerDay = 3
  MinutesPerHour = 2
  Minute = 2
  Families <- Regular
  MaxWindows = 2
  Start = 84
  End = 168
INVARIANTS
  FindsNextFlip
  HorizonSuffices
CHECK_DEADLOCK FALSE
