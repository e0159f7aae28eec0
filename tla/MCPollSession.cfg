SPECIFICATION Spec
CONSTANTS
  Media = {"rtu", "tcp"}
  Blocks <- FourBlocks
  MaxPolls = 3
  MaxClients = 2
  MaxInAir = 2
  None = None
INVARIANTS
  PortReleased
  AnswersBelong
  Replayed
PROPERTIES
  WaitsEnd
CHECK_DEADLOCK FALSE
