SPECIFICATION Spec
CONSTANTS
  lan = lan usb = usb gen1 = gen1 gen2 = gen2 edge = edge
  tristar = tristar genstar1 = genstar1 genstar2 = genstar2 readyedge = readyedge
  mppt = mppt float = float ok = ok bad = bad product = product capitals = capitals small = small
  Devices = {lan, usb}
  Controllers = {tristar}
  Texts = {mppt, float, ok, bad, product}
  Null = Null
  None = None
  OwnerOf <- MCOwnerOf
  ReadingsOf <- MCReadingsOf
  Registers <- MCRegisters
  Metrics <- MCMetrics
  ProfileOf <- MCProfileOf
  CanonicalOf <- MCCanonicalOf
  LoggedWh <- MCLoggedWh
  SerialOf <- MCSerialOf
  Folded <- MCFolded
  ProductOf <- MCProductOf
  Retaining = {lan}
  Flaky = {lan}
  Quiet = {ok}
  Gateways = {readyedge}
  Chargers = {tristar, genstar1, genstar2}
  FloatText = float
  DayLength = 3
  Shift = 1
  OldestOffset = 1
  MaxClock = 4
  MaxWrites = 3
  MaxPoints = 3
  MaxGap = 1
  MaxEnergyDays = 10
  Bucket = 1
  HistoryDays = 2
  BacktestDays = 2
  MinTrainingDays = 1
  MinDailySamples = 1
  MinStates = 1
  ProductivePower = 12
  BaselineReach = 1
CHECK_DEADLOCK FALSE
INVARIANTS StatusTells RetainedDaysTrue AnalyticsAgree
