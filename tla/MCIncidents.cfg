SPECIFICATION FairSpec
CONSTANTS
  Missing = Missing
  Site = "site"
  Observations <- Observed
  Actors = {"s", "r", "t"}
  Streams = {"s"}
  ServiceOf <- ServiceOfActor
  MaxChanges = 2
  MaxCancels = 1
  MaxRequests = 1
INVARIANTS
  EventsTellIncidents
  HealthHonest
PROPERTIES
  ResolvedOnEvidence
  IncidentsSettle
