\* Two lockers of one mutex and kernel_main: the timer is not always unmasked.
SPECIFICATION FairSpec
CONSTANTS
  thread0 = thread0  w1 = w1  w2 = w2  w3 = w3  s1 = s1  s2 = s2
  scheduler_lock = scheduler_lock  NULL = NULL
  Threads <- ThreeThreads
  Sems <- OneSem
  Mutexes <- OneSem
  Locks <- OneSemLocks
  initialCount <- OneUnit
  Lockers <- TwoWorkers
  TryLockers <- None
  Yielders <- OnlyThread0
  Exiters <- None
PROPERTIES
  TimerReenabled
