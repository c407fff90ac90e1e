------------------------------- MODULE Kernel -------------------------------
(***************************************************************************)
(* The running kernel: threads as src/kernel/kernel.c writes them, calling *)
(* the semaphores and the scheduler while the timer preempts them.         *)
(*                                                                         *)
(* thread0 is kernel_main: it creates the other threads and, like every    *)
(* Yielder, calls thread_yield in a loop.  Lockers are thread1..thread3 of *)
(* kernel.c: lock, print, unlock, for ever.  TryLockers use the            *)
(* non-blocking form, and Exiters may return from their thread function.   *)
(***************************************************************************)
EXTENDS Semaphore, FiniteSets

CONSTANTS Lockers, TryLockers, Yielders, Exiters

ASSUME KernelAssumption ==
  (Lockers \cup TryLockers \cup Yielders \cup Exiters) \subseteq Threads

vars == <<spinVars, schedVars, semVars>>

TypeOK == SpinTypeOK /\ SchedTypeOK /\ SemTypeOK

Init == SpinInit /\ thread_init /\ semaphore_init

\* The calls a thread makes on its own account; thread0's are those of kernel_main.
create(child) ==
  current_thread = thread0 /\ thread_create(child) /\ UNCHANGED semVars
yield ==
  At("run") /\ current_thread \in Yielders /\ thread_yield("run") /\ UNCHANGED semVars
lock_sem(s) == current_thread \in Lockers /\ semaphore_lock(s)
try_lock_sem(s) == current_thread \in TryLockers /\ semaphore_try_lock(s)
exit == current_thread \in Exiters /\ thread_exit /\ UNCHANGED semVars

Client ==
  \/ \E child \in Threads : create(child)
  \/ yield
  \/ \E s \in Sems : lock_sem(s)
  \/ \E s \in Sems : try_lock_sem(s)
  \/ exit

\* The steps inside the scheduler and inside the semaphores.
SchedulerStep ==
  /\ \/ timer_callback
     \/ yield_body
     \/ switched
     \/ yield_done
     \/ irq_exit
     \/ wakeup_body
     \/ wakeup_done
     \/ create_body
     \/ create_done
     \/ thread_entry
     \/ thread_entry_return
  /\ UNCHANGED semVars

SemaphoreStep ==
  \/ lock_got
  \/ lock_return
  \/ lock_block
  \/ lock_block_unlock
  \/ lock_yield
  \/ try_got
  \/ try_failed
  \/ semaphore_unlock
  \/ unlock_count
  \/ unlock_wakeup
  \/ unlock_return

Step(t) == current_thread = t /\ (Client \/ SchedulerStep \/ SemaphoreStep)

Tick == timer_interrupt /\ UNCHANGED semVars

Next == Tick \/ \E t \in Threads : Step(t)

Spec == Init /\ [][Next]_vars

(***************************************************************************)
(* The CPU keeps executing; the timer keeps ticking, so an interrupt that  *)
(* can be taken again and again is taken; and a tick is a millisecond      *)
(* (timer_init(1000, ...)), so interruptible code that is switched to      *)
(* again and again executes its next instruction at last.  Nothing is      *)
(* assumed of which thread the scheduler picks.                            *)
(***************************************************************************)
OwnStep(t) == pc[t] \in InterruptibleLabels /\ Step(t)

Fairness ==
  /\ WF_vars(\E t \in Threads : Step(t))
  /\ SF_vars(Tick)
  /\ \A t \in Threads : SF_vars(OwnStep(t))

FairSpec == Spec /\ Fairness
-----------------------------------------------------------------------------
(***************************************************************************)
(* Who holds a unit of a semaphore.  A thread owns one from the moment it  *)
(* decremented the count until it gives it back, and a waiter owns one     *)
(* from the moment semaphore_unlock popped it, long before it runs again.  *)
(***************************************************************************)
\* Where a thread is in its own code, behind the interrupt that stopped it.
place(t) == IF intd[t] = "none" THEN pc[t] ELSE intd[t]

inSemaphoreLock(t) ==
  \/ place(t) \in {"lock_block", "gap"}
  \/ place(t) \in YieldLabels /\ ret[t] = "cs"

Queued(t, s) == \E i \in DOMAIN waiters[s] : waiters[s][i] = t

Owns(t, s) ==
  /\ sem[t] = s
  /\ \/ place(t) \in {"lock_got", "cs", "unlock_body"}
     \/ inSemaphoreLock(t) /\ ~Queued(t, s)

Owners(s) == {t \in Threads : Owns(t, s)}

InitialUnits(s) == IF s \in Mutexes THEN mutex_init ELSE initialCount[s]
-----------------------------------------------------------------------------
(***************************************************************************)
(* Safety.                                                                 *)
(***************************************************************************)
\* spinlock.c: no spin lock is ever waited for.  On one CPU a lock that is taken
\* when spin_lock looks stays taken, so waiting once means waiting for ever.
NeverSpins == cpu # "spinning"

\* No fatal() and no assert of spinlock.c and thread.c fires and the scheduler
\* never switches to a null pointer: at least as long as every thread that blocks
\* waits for a unit that some other thread is going to release.
NoFailure == cpu # "fatal"

\* The same for any clients, also such that wait for what nobody will release: only
\* the missing idle thread stops the machine, when all threads that exist sleep.
OnlyDeadlockIsFatal ==
  cpu = "fatal" => \A t \in Threads : state[t] \in {"none", "SUSPENDED"}

\* spinlock.c: g_spinLockCount counts exactly the locks that are held, and
\* while one is held no interrupt can come.
SpinDiscipline ==
  /\ g_spinLockCount = Cardinality({l \in Locks : lock[l] = 1})
  /\ g_spinLockCount > 0 => ~intr

\* Interrupts come back on: code that is not under a spin lock and not in the
\* interrupt handler runs with the flag on, whichever thread was switched out
\* and in since (thread_schedule's save and restore of g_interruptsEnabled),
\* and the handler itself runs with it off, so that it never nests.
InterruptFlag ==
  cpu = "running" =>
    /\ pc[current_thread] \in ClientLabels \cup {"gap"} => intr
    /\ intd[current_thread] # "none" => ~intr

\* thread.c: the current thread is on no list; a ready thread is on ready_list
\* once, a suspended one on suspended_list once, and on nothing else.  Two
\* windows are excepted: a thread_t between thread_create's first line and its
\* list_append, and the current thread between the lines that change its state
\* (semaphore_lock, thread_yield) and the switch.
ThreadQueues ==
  LET Times(list, t) == Cardinality({i \in DOMAIN list : list[i] = t})
      beingCreated(t) == pc[current_thread] = "create_body" /\ thread[current_thread] = t
  IN  cpu = "running" =>
        \A t \in Threads :
          /\ Times(ready_list, t) =
               IF state[t] = "READY" /\ ~beingCreated(t) THEN 1 ELSE 0
          /\ Times(suspended_list, t) =
               IF state[t] = "SUSPENDED" /\ t # current_thread THEN 1 ELSE 0
          /\ state[t] = "RUNNING" => t = current_thread

\* semaphore.c: units are neither lost nor made.  With InitialUnits 1 this is
\* mutual exclusion.
UnitsConserved ==
  \A s \in Sems : count[s] + Cardinality(Owners(s)) = InitialUnits(s)

\* Two threads are never both between mutex_lock and mutex_unlock of a mutex.
MutualExclusion ==
  \A s \in Mutexes : \A t, u \in Threads :
    sem[t] = s /\ place(t) = "cs" /\ sem[u] = s /\ place(u) = "cs" => t = u

\* semaphore.c: nobody sleeps beside a free unit, a suspended thread is queued
\* on its blocker or being woken up at this moment, and every queued waiter_t
\* belongs to a thread still inside semaphore_lock, whose stack holds it.
NoLostWakeup ==
  /\ \A s \in Sems : waiters[s] # <<>> => count[s] = 0
  /\ \A t \in Threads :
       state[t] = "SUSPENDED" =>
         \/ Queued(t, blocker[t])
         \/ pc[current_thread] = "wakeup_body" /\ thread[current_thread] = t
  /\ \A t \in Threads, s \in Sems :
       Queued(t, s) => sem[t] = s /\ inSemaphoreLock(t) /\ state[t] = "SUSPENDED"

\* interrupt.c and thread_entry: as long as the timer is masked some thread has
\* the unmasking still to do, in its interrupt handler or in thread_entry.
MaskHasOwner ==
  irq0_masked => \E t \in Threads : intd[t] # "none" \/ pc[t] \in EntryLabels
-----------------------------------------------------------------------------
(***************************************************************************)
(* What a step may never do.                                               *)
(***************************************************************************)
\* A thread that is put to sleep on a semaphore leaves it only with the unit:
\* it passes from queued to owner in the one step of the unlocking thread, and
\* no other thread, locker or try-locker, gets the unit in between.
HandOff ==
  [][\A s \in Sems : \A t \in Threads :
       Queued(t, s) /\ ~Queued(t, s)' =>
         /\ Owns(t, s)'
         /\ waiters[s][1] = t
         /\ count'[s] = count[s]]_vars

(***************************************************************************)
(* The semaphores of the running kernel implement the abstract ones.       *)
(***************************************************************************)
Abstract == INSTANCE AbstractSemaphore WITH
  Clients <- Threads, Semaphores <- Sems,
  Units <- [s \in Sems |-> InitialUnits(s)],
  free <- count, queue <- waiters, owner <- [s \in Sems |-> Owners(s)]

\* semaphore.c behind the scheduler and the timer behaves as the first-come
\* first-served semaphore of AbstractSemaphore, every operation in one step.
ImplementsSemaphore == Abstract!AbstractSpec

Queues == INSTANCE AbstractLists WITH
  Lists <- {"ready_list", "suspended_list"},
  lists <- [l \in {"ready_list", "suspended_list"} |->
              IF l = "ready_list" THEN ready_list ELSE suspended_list],
  taken <- current_thread

\* thread.c: whatever the threads and the timer do, the lists are used as ThreadList
\* expects, a thread being appended only when it is on neither, and the scheduler
\* is first come first served: the thread that runs next became ready first.
ImplementsLists == Queues!AbstractSpec
-----------------------------------------------------------------------------
(***************************************************************************)
(* Liveness.                                                               *)
(***************************************************************************)
\* A thread queued on a semaphore gets into its critical section.
WaiterServed ==
  \A t \in Threads, s \in Sems : Queued(t, s) ~> (sem[t] = s /\ pc[t] = "cs")

\* thread_yield and the timer: as long as the timer is unmasked again and again,
\* whoever unmasks it, a thread that is ready runs.
ReadyRuns ==
  []<>~irq0_masked =>
    \A t \in Threads : state[t] = "READY" ~> state[t] = "RUNNING"

\* interrupt.c:256 "Done handling the interrupt, re-enable it": the timer,
\* masked when its interrupt was taken, is unmasked again.
TimerReenabled == irq0_masked ~> ~irq0_masked
=============================================================================
