SPECIFICATION Spec
CONSTANTS
  u1 = u1
  u2 = u2
  k1 = k1
  k2 = k2
  k3 = k3
  None = None
  Controllers = {u1, u2}
  Keys = {k1, k2, k3}
  Paths = {1, 2}
  Home <- OwnKeys
  Preference <- RankOrder
  FailureThreshold = 2
  InitialBackoff = 1
  MaxBackoff = 1
  FloatExponents = 1024
  FailCap = 2
  Supported = {}
  BackfillOnStartup = FALSE
  BackfillOnReconnect = FALSE
  DiscoveryInterval = 2
  MaxElapsed = 2
  RefreshFaults = TRUE
  WriteFaults = TRUE
  Signals = FALSE
  MaxCrashes = 0
INVARIANTS
  TypeOK
  OneEndpointPerController
  StaleClientsClosed
  PersistedPresence
PROPERTIES
  LifecycleFollowsController
