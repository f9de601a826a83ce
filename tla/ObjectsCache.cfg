SPECIFICATION Spec
CONSTANTS
  k1 = k1
  obj = obj
  other = other
  w1 = w1
  w2 = w2
  Absent = Absent
  NoEntry = NoEntry
  Key <- Keys
  Value <- Objects
  Worker <- Workers
  Retention = 2
  MaxLatency = 1
  MaxTime = 7
SYMMETRY Symmetry
INVARIANT TypeOK
INVARIANT EntriesExpireInTime
PROPERTY BoundedStaleness
CHECK_DEADLOCK FALSE
