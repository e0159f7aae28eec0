SPECIFICATION Spec
CONSTANTS
  None = None
  DayLength = 2
  TierDays <- Ages112
  MayPrune = TRUE
  DiskFaults = FALSE
  MaxClock = 6
INVARIANTS
  LosslessArchive
