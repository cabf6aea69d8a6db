CONSTANTS
  Kinds <- MCKinds
  MaxDuplicates = 2
  StaleLimit = 2
SPECIFICATION Spec
CHECK_DEADLOCK FALSE
INVARIANTS
  GreenIsVerified
  NoUnguardedDeletes
  ResyncHasReason
PROPERTIES
  RunEnds
  FollowsEngine
