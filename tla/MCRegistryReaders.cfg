SPECIFICATION Spec
CONSTANTS
  k1 = k1
  k2 = k2
  s1 = s1
  s2 = s2
  reader = reader
  NoSerial = NoSerial
  None = None
  Watcher = Watcher
  Keys = {k1, k2}
  Serials = {s1}
  Readers = {reader}
SYMMETRY Interchangeable
INVARIANTS
  OneUidPerSerial
PROPERTIES
  UidImmutable
