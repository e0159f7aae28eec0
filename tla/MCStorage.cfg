SPECIFICATION Spec
CONSTANTS
  None = None
  DayLength = 3
  TierDays <- Ages112
  MayPrune = TRUE
  DiskFaults = TRUE
  MaxClock = 8
INVARIANTS
  TypeOK
  AgedArchived
  AgedInRollups
PROPERTIES
  PrunedWhileArchived
