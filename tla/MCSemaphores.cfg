\* A semaphore with two units and one without any, whose waiters never come back:
\* at the end nobody is left to run. Try-lockers, and a thread that returns
\* (thread_exit halts the machine, hence no deadlock check).
SPECIFICATION Spec
CONSTANTS
  thread0 = thread0  w1 = w1  w2 = w2  w3 = w3  s1 = s1  s2 = s2
  scheduler_lock = scheduler_lock  NULL = NULL
  Threads <- FourThreads
  Sems <- TwoSems
  Mutexes <- None
  Locks <- TwoSemsLocks
  initialCount <- TwoAndNone
  Lockers <- FourThreads
  TryLockers <- TwoWorkers
  Yielders <- OnlyThread0
  Exiters <- OnlyW3
INVARIANTS
  UnitsConserved
  OnlyDeadlockIsFatal
PROPERTIES
  ImplementsSemaphore
CHECK_DEADLOCK FALSE
