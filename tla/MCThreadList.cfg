\* Three threads, in any order on both lists and in the queue.
CONSTANTS
  NULL = NULL
  t1 = t1
  t2 = t2
  t3 = t3
  Threads = {t1, t2, t3}
SPECIFICATION Spec
SYMMETRY ThreadSymmetry
INVARIANTS
  ListsLinked
  QueueLinked
