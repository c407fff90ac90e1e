\* kernel.c's threads, three of them on one mutex and kernel_main yielding, with fairness.
SPECIFICATION FairSpec
CONSTANTS
  thread0 = thread0  w1 = w1  w2 = w2  w3 = w3  s1 = s1  s2 = s2
  scheduler_lock = scheduler_lock  NULL = NULL
  Threads <- FourThreads
  Sems <- OneSem
  Mutexes <- OneSem
  Locks <- OneSemLocks
  initialCount <- OneUnit
  Lockers <- ThreeWorkers
  TryLockers <- None
  Yielders <- OnlyThread0
  Exiters <- None
INVARIANTS
  TypeOK
  NeverSpins
  NoFailure
  SpinDiscipline
  InterruptFlag
  ThreadQueues
  NoLostWakeup
  MutualExclusion
  MaskHasOwner
PROPERTIES
  HandOff
  WaiterServed
  ReadyRuns
