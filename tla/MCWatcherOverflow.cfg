SPECIFICATION Spec
CONSTANTS
  u1 = u1
  u2 = u2
  k1 = k1
  k2 = k2
  k3 = k3
  None = None
  Controllers = {u1}
  Keys = {k1}
  Paths = {1}
  Home <- OnlyU1
  Preference <- RankOrder
  FailureThreshold = 3
  InitialBackoff = 1
  MaxBackoff = 30
  FloatExponents = 1024
  FailCap = 1025
  Supported = {}
  BackfillOnStartup = FALSE
  BackfillOnReconnect = FALSE
  DiscoveryInterval = 15
  MaxElapsed = 15
  RefreshFaults = FALSE
  WriteFaults = FALSE
  Signals = FALSE
  MaxCrashes = 0
INVARIANTS
  FailuresContained
