SPECIFICATION Spec
CONSTANTS
  N <- ThreeObjects
INVARIANT TypeOK
INVARIANT NoSendBlocks
INVARIANT OneBatchPerObject
INVARIANT NoGoroutineLeft
PROPERTY Returns
PROPERTY WaitEnds
CHECK_DEADLOCK FALSE
