CONSTANTS
  j1 = j1
  j2 = j2
  w1 = w1
  w2 = w2
  w3 = w3
  m1 = m1
  m2 = m2
  Jobs = {j1, j2}
  Workers = {w1, w2, w3}
  Monitors = {m1, m2}
  JobOf <- MCJobOf
  MaxActive = 2
  MaxRepeats = 1
SPECIFICATION Spec
INVARIANTS
  ProcessesHoldSlots
  QueuedCancelHonoured
  NothingLeaks
PROPERTIES
  ImplementsMutex
  AcceptedRunEnds
