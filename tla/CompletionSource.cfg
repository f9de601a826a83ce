SPECIFICATION Spec
CONSTANTS
  Objects <- DirectSource
  Things <- AllThings
  MaxChanges = 0
  MaxStores = 0
INVARIANT OffersEveryName
CHECK_DEADLOCK FALSE
