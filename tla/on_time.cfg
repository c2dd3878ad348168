SPECIFICATION FairSpec
CONSTANTS
  Nil = Nil
  HoursPerDay = 4
  MinutesPerHour = 1
  Minute = 2
  Second = 2
  Specs <- MCSpecs
  Zone <- Greenwich
  WakeValues <- MCWakeValues
  Start = 57
  End = 66
  MaxDisturbances = 2
  MaxLag = 1
INVARIANTS
  TypeOK
  ActsOnTime
  StatusIsTrue
  OverrideIsBounded
  UsersHaveLastWord
  GaugesAreTrue
  HasWakeConfigMap
  PromptInv
PROPERTY
  NeverExtended
  ComesToRest
CHECK_DEADLOCK FALSE
