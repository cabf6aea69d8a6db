CONSTANTS
  Kinds <- MCKinds
  MaxDuplicates = 2
  StaleLimit = 2
SPECIFICATION Spec
CHECK_DEADLOCK FALSE
INVARIANT StaleStopIsNoCancellation
