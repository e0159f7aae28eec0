SPECIFICATION Spec
CONSTANTS
  Controllers = {"c1", "c2"}
  Connections = {"k1", "k2"}
  OutcomesOf <- Outcomes
  Benchmarks = {1000, 500}
  Fallback = 2000
  PersistEvery = 1000
  SamplesPerInterval = 3
  MinSuccess = 9800
  MaxHeadroom = 8000
  MaxMisses = 500
  MaxLost = 200
  MaxBus = 7000
  MaxSkip = 1
  MaxChanges = 1
  MaxFailedSaves = 1
  None = None
INVARIANTS
  SafeInterval
  BenchmarkAgrees
PROPERTIES
  RowsKeepComing
  CalibrationEnds
