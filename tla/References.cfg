SPECIFICATION Spec
CONSTANTS
  Objects <- AllObjects
  Things <- AllThings
  MaxChanges = 1
  MaxStores = 1
INVARIANT TypeOK
INVARIANT ReportsAreTrue
INVARIANT ProjectsComeFirst
INVARIANT EveryReferenceSettled
INVARIANT OfferedNamesPass
INVARIANT HoverAgrees
CHECK_DEADLOCK FALSE
