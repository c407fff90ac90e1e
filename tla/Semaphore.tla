----------------------------- MODULE Semaphore -----------------------------
(***************************************************************************)
(* The counting semaphores of src/kernel/semaphore.c and the mutexes of    *)
(* src/kernel/mutex.c, which are semaphores that start at 1.               *)
(*                                                                         *)
(* A thread that finds the count at 0 queues a waiter_t that lives on its  *)
(* own stack, marks itself suspended, drops the semaphore's spin lock and  *)
(* only then yields: between the two ("gap") the timer may preempt it, and *)
(* an unlock may already have chosen it.  semaphore_unlock hands its unit  *)
(* to the longest waiter without going through the count.                  *)
(***************************************************************************)
EXTENDS Scheduler

CONSTANTS
  Sems,                   \* the semaphore_t objects; each is also its spin lock
  Mutexes,                \* those that are mutexes
  initialCount            \* the argument of semaphore_init

ASSUME SemaphoreAssumption ==
  /\ Locks = Sems \cup {scheduler_lock}
  /\ scheduler_lock \notin Sems
  /\ NULL \notin Sems
  /\ Mutexes \subseteq Sems
  /\ initialCount \in [Sems -> Nat]

VARIABLES
  count, waiters,         \* the members of each semaphore_t
  sem                     \* the semaphore a thread is calling with or holds

semVars == <<count, waiters, sem>>

SemTypeOK ==
  /\ count \in [Sems -> Nat]
  /\ waiters \in [Sems -> Seq(Threads)]
  /\ sem \in [Threads -> Sems \cup {NULL}]
  /\ blocker \in [Threads -> Sems \cup {NULL}]

mutex_init == 1

semaphore_init ==
  /\ count = [s \in Sems |-> IF s \in Mutexes THEN mutex_init ELSE initialCount[s]]
  /\ waiters = [s \in Sems |-> <<>>]
  /\ sem = [t \in Threads |-> NULL]

mySem == sem[current_thread]

\* What a step under the semaphore's spin lock leaves alone in the scheduler.
schedUnchanged == UNCHANGED <<listVars, stackVars, irq0_masked>>
-----------------------------------------------------------------------------
\* semaphore_lock: the call, up to and including its spin_lock.
semaphore_lock(s) ==
  /\ At("run")
  /\ spin_lock(s)
  /\ sem' = [sem EXCEPT ![current_thread] = s]
  /\ Goto("lock_body")
  /\ UNCHANGED <<count, waiters>> /\ schedUnchanged

\* semaphore_lock in a build that tests count >= 0.
lock_got_early ==
  /\ At("lock_body")
  /\ count[mySem] >= 0
  /\ count' = [count EXCEPT ![mySem] = @ - 1]
  /\ Goto("lock_got")
  /\ UNCHANGED <<spinVars, waiters, sem>> /\ schedUnchanged

\* The count is positive: take a unit.
lock_got ==
  /\ At("lock_body")
  /\ count[mySem] > 0
  /\ count' = [count EXCEPT ![mySem] = @ - 1]
  /\ Goto("lock_got")
  /\ UNCHANGED <<spinVars, waiters, sem>> /\ schedUnchanged

lock_return ==
  /\ At("lock_got")
  /\ spin_unlock(mySem)
  /\ Goto("cs")
  /\ UNCHANGED semVars /\ schedUnchanged

\* semaphore_lock in a build that pushes the waiter in front.
lock_block_lifo ==
  /\ At("lock_body")
  /\ count[mySem] = 0
  /\ waiters' = [waiters EXCEPT ![mySem] = <<current_thread>> \o @]
  /\ state' = [state EXCEPT ![current_thread] = "SUSPENDED"]
  /\ blocker' = [blocker EXCEPT ![current_thread] = mySem]
  /\ Goto("lock_block")
  /\ UNCHANGED <<spinVars, count, sem, current_thread, ready_list, suspended_list,
                 stackVars, irq0_masked>>

\* The count is 0: queue the waiter and mark the thread suspended.
lock_block ==
  /\ At("lock_body")
  /\ count[mySem] = 0
  /\ waiters' = [waiters EXCEPT ![mySem] = Append(@, current_thread)]
  /\ state' = [state EXCEPT ![current_thread] = "SUSPENDED"]
  /\ blocker' = [blocker EXCEPT ![current_thread] = mySem]
  /\ Goto("lock_block")
  /\ UNCHANGED <<spinVars, count, sem, current_thread, ready_list, suspended_list,
                 stackVars, irq0_masked>>

\* ... drop the spin lock; interrupts are on again.
lock_block_unlock ==
  /\ At("lock_block")
  /\ spin_unlock(mySem)
  /\ Goto("gap")
  /\ UNCHANGED semVars /\ schedUnchanged

\* ... and yield.  By now the thread may have been preempted, and woken up.
lock_yield ==
  /\ At("gap")
  /\ thread_yield("cs")
  /\ UNCHANGED semVars
-----------------------------------------------------------------------------
\* semaphore_try_lock: the call, up to and including its spin_lock.
semaphore_try_lock(s) ==
  /\ At("run")
  /\ spin_lock(s)
  /\ sem' = [sem EXCEPT ![current_thread] = s]
  /\ Goto("try_body")
  /\ UNCHANGED <<count, waiters>> /\ schedUnchanged

try_got ==
  /\ At("try_body")
  /\ count[mySem] > 0
  /\ count' = [count EXCEPT ![mySem] = @ - 1]
  /\ Goto("lock_got")
  /\ UNCHANGED <<spinVars, waiters, sem>> /\ schedUnchanged

\* No unit: release the spin lock and return 0.
try_failed ==
  /\ At("try_body")
  /\ count[mySem] = 0
  /\ spin_unlock(mySem)
  /\ sem' = [sem EXCEPT ![current_thread] = NULL]
  /\ Goto("run")
  /\ UNCHANGED <<count, waiters>> /\ schedUnchanged
-----------------------------------------------------------------------------
\* semaphore_unlock: the call, up to and including its spin_lock.
semaphore_unlock ==
  /\ At("cs")
  /\ spin_lock(mySem)
  /\ Goto("unlock_body")
  /\ UNCHANGED semVars /\ schedUnchanged

\* Nobody waits: the unit goes back to the count.
unlock_count ==
  /\ At("unlock_body")
  /\ waiters[mySem] = <<>>
  /\ count' = [count EXCEPT ![mySem] = @ + 1]
  /\ Goto("unlock_done")
  /\ UNCHANGED <<spinVars, waiters, sem>> /\ schedUnchanged

\* semaphore_unlock in a build that also increments the count when it wakes.
unlock_wakeup_and_count ==
  /\ At("unlock_body")
  /\ waiters[mySem] # <<>>
  /\ thread' = [thread EXCEPT ![current_thread] = Head(waiters[mySem])]
  /\ waiters' = [waiters EXCEPT ![mySem] = Tail(@)]
  /\ count' = [count EXCEPT ![mySem] = @ + 1]
  /\ spin_lock(scheduler_lock)
  /\ Goto("wakeup_body")
  /\ UNCHANGED <<sem, listVars, ret, intd, saved, irq0_masked>>

\* Pop the first waiter and call thread_wakeup on it, up to and including the
\* spin_lock of thread_wakeup: the unit passes to that thread.
unlock_wakeup ==
  /\ At("unlock_body")
  /\ waiters[mySem] # <<>>
  /\ thread' = [thread EXCEPT ![current_thread] = Head(waiters[mySem])]
  /\ waiters' = [waiters EXCEPT ![mySem] = Tail(@)]
  /\ spin_lock(scheduler_lock)
  /\ Goto("wakeup_body")
  /\ UNCHANGED <<count, sem, listVars, ret, intd, saved, irq0_masked>>

unlock_return ==
  /\ At("unlock_done")
  /\ spin_unlock(mySem)
  /\ sem' = [sem EXCEPT ![current_thread] = NULL]
  /\ Goto("run")
  /\ UNCHANGED <<count, waiters>> /\ schedUnchanged
=============================================================================
