CONSTANTS
  m1 = m1
  m2 = m2
  MaxVersion = 2
  Instances = {m1, m2}
  FailLimit = 2
  MaxIdle = 1
SPECIFICATION Spec
CHECK_DEADLOCK FALSE
INVARIANTS
  MonitorWatchesCurrent
  VerdictPauses
PROPERTIES
  EnabledIsServed
  PausedGoesQuiet
