SPECIFICATION FairSpec
CONSTANTS
  u1 = u1
  u2 = u2
  k1 = k1
  k2 = k2
  k3 = k3
  None = None
  Controllers = {u1, u2}
  Keys = {k1, k3}
  Paths = {1}
  Home <- OwnKeys
  Preference <- RankOrder
  FailureThreshold = 1
  InitialBackoff = 1
  MaxBackoff = 1
  FloatExponents = 1
  FailCap = 1
  Supported = {u1}
  BackfillOnStartup = TRUE
  BackfillOnReconnect = TRUE
  DiscoveryInterval = 1
  MaxElapsed = 1
  RefreshFaults = FALSE
  WriteFaults = FALSE
  Signals = TRUE
  MaxCrashes = 1
INVARIANTS
  HistoryAttempted
  PersistedPresence
  CleanShutdown
PROPERTIES
  StopEndsRun
  PresentGetsPolled
