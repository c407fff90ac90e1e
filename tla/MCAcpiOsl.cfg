\* Two walkers, whose methods take an AML mutex, and a caller whose method unloads a
\* table or waits for an event, which stops the machine, as a finite timeout does.
CONSTANTS
  w1 = w1
  w2 = w2
  m1 = m1
  Threads = {w1, w2, m1}
  Walkers = {w1, w2}
  Callers = {m1}
  Unloaders = {m1}
  Holders = {w1, w2}
  EventWaiters = {m1}
  Timeouts = {"WAIT_FOREVER", "DO_NOT_WAIT", "finite"}
SPECIFICATION FairSpec
INVARIANTS
  OwnerNoted
  WalksUndisturbed
  ReadersCounted
PROPERTIES
  WalkEnds
  WaiterGetsMutex
CHECK_DEADLOCK FALSE
