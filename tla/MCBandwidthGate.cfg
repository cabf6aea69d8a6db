CONSTANTS
  t1 = t1
  t2 = t2
  t3 = t3
  Threads = {t1, t2, t3}
  MaxActive = 2
  Requests <- MCRequests
SPECIFICATION Spec
INVARIANTS
  QueueMatchesThreads
  IdleGateIsNotAsleep
PROPERTIES
  NoOvertaking
  TimedRequestsAnswered
  OnlyPriorityStarves
  ImplementsSlots
