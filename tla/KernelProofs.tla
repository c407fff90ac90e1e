---------------------------- MODULE KernelProofs ----------------------------
(***************************************************************************)
(* Theorems about Kernel, for every set of threads and semaphores, every   *)
(* choice of clients and every initial count.                              *)
(*                                                                         *)
(* The safety properties of the kernel do not follow from themselves: that *)
(* a critical section excludes the timer depends on what every thread that *)
(* is switched out will find when it comes back.  IInv says it: which      *)
(* locks are held at which label of the current thread, where the threads  *)
(* that are not current stopped, and what each of them saved.  QInv and    *)
(* UnitsInv, further down, say the same of the lists and of the units of   *)
(* the semaphores.                                                         *)
(***************************************************************************)
EXTENDS Kernel, SequenceTheorems, FiniteSetTheorems, TLAPS

SchedulerLockLabels == YieldLabels \cup WakeupLabels \cup CreateLabels \cup {"entry"}
SemLockLabels == {"lock_body", "lock_got", "lock_block", "try_body",
                  "unlock_body", "unlock_done"} \cup WakeupLabels

\* The current thread's label tells which spin locks are held, and how deep.
LocksInv ==
  LET at == pc[current_thread]
  IN  /\ lock[scheduler_lock] = IF at \in SchedulerLockLabels THEN 1 ELSE 0
      /\ \A s \in Sems : lock[s] = IF at \in SemLockLabels /\ sem[current_thread] = s
                                   THEN 1 ELSE 0
      /\ g_spinLockCount = (IF at \in SchedulerLockLabels THEN 1 ELSE 0)
                             + (IF at \in SemLockLabels THEN 1 ELSE 0)

\* ... whether interrupts are on, and whether the outermost spin_unlock will
\* turn them on.
FlagInv ==
  LET at == pc[current_thread]
  IN  /\ intr => at \in InterruptibleLabels
      /\ cpu = "running" /\ at \in {"run", "cs", "gap"} => intr
      /\ at \in {"lock_body", "lock_got", "lock_block", "try_body", "unlock_body",
                 "unlock_done", "wakeup_body", "wakeup_done", "create_body",
                 "create_done", "yield_body", "yield_done"} =>
           (g_interruptsEnabled <=> intd[current_thread] = "none")

\* The threads that are not current wait in thread_switch or have not started;
\* one that waits saved the flag its own spin_unlock needs.  A thread is under
\* its timer interrupt exactly from timer_callback to irq_exit.
StackInv ==
  /\ pc[current_thread] # "none"
  /\ \A t \in Threads :
       /\ t # current_thread => pc[t] \in {"none", "switched", "entry"}
       /\ pc[t] = "switched" => (saved[t] <=> intd[t] = "none")
       /\ pc[t] \in HandlerLabels => intd[t] # "none"
       /\ intd[t] # "none" => pc[t] \in YieldLabels \cup HandlerLabels
       /\ pc[t] = "none" <=> state[t] = "none"

\* Only threads that exist are on a list, waited for or passed as an argument.
ExistInv ==
  /\ \A i \in DOMAIN ready_list : pc[ready_list[i]] # "none"
  /\ \A s \in Sems : \A i \in DOMAIN waiters[s] : pc[waiters[s][i]] # "none"
  /\ pc[current_thread] \in WakeupLabels \cup CreateLabels =>
       /\ thread[current_thread] \in Threads
       /\ pc[thread[current_thread]] # "none"

\* A thread inside a semaphore operation, or holding a unit, has its semaphore,
\* and keeps it while it yields inside semaphore_lock.
SemInv ==
  \A t \in Threads :
    /\ place(t) \in SemLockLabels \cup {"gap", "cs"} => sem[t] \in Sems
    /\ ret[t] = "cs" => place(t) \in YieldLabels /\ sem[t] \in Sems

IInv ==
  /\ TypeOK
  /\ cpu # "spinning"
  /\ LocksInv
  /\ FlagInv
  /\ StackInv
  /\ ExistInv
  /\ SemInv
-----------------------------------------------------------------------------
USE DEF YieldLabels, WakeupLabels, CreateLabels, HandlerLabels, ClientLabels, EntryLabels,
        InterruptibleLabels, SchedulerLockLabels, SemLockLabels

\* spin_lock keeps the types of the spin lock's variables.
LEMMA SpinLockType ==
  ASSUME NEW l \in Locks, SpinTypeOK, spin_lock(l)
  PROVE  SpinTypeOK'
<1>1. /\ cpu' \in CpuStates
      /\ lock' \in [Locks -> {0, 1}]
      /\ g_spinLockCount' \in Nat
  BY DEF SpinTypeOK, spin_lock, CpuStates
<1>2. intr' \in BOOLEAN /\ g_interruptsEnabled' \in BOOLEAN
  BY Zenon DEF SpinTypeOK, spin_lock
<1>. QED  BY <1>1, <1>2 DEF SpinTypeOK

\* So does spin_unlock, whether its asserts hold or stop the machine.
LEMMA SpinUnlockType ==
  ASSUME NEW l \in Locks, SpinTypeOK, spin_unlock(l)
  PROVE  SpinTypeOK'
<1>1. /\ cpu' \in CpuStates
      /\ lock' \in [Locks -> {0, 1}]
      /\ g_spinLockCount' \in Nat
  <2>1. CASE intr \/ g_spinLockCount = 0
    BY <2>1 DEF SpinTypeOK, spin_unlock, CpuStates
  <2>2. CASE ~(intr \/ g_spinLockCount = 0)
    <3>1. lock' = [lock EXCEPT ![l] = 0] /\ cpu' = cpu /\ g_spinLockCount' = g_spinLockCount - 1
      BY <2>2, Zenon DEF spin_unlock
    <3>. QED  BY <2>2, <3>1 DEF SpinTypeOK
  <2>. QED  BY <2>1, <2>2
<1>2. intr' \in BOOLEAN /\ g_interruptsEnabled' \in BOOLEAN
  BY Zenon DEF SpinTypeOK, spin_unlock
<1>. QED  BY <1>1, <1>2 DEF SpinTypeOK

\* A thread inside a semaphore operation or between lock and unlock has a
\* semaphore to work on, and no interrupt handler below it.
LEMMA AtSemaphore ==
  ASSUME IInv, pc[current_thread] \in SemLockLabels \cup {"gap", "cs"}
  PROVE  mySem \in Sems /\ mySem \in Locks /\ intd[current_thread] = "none"
BY SemaphoreAssumption DEF IInv, TypeOK, SchedTypeOK, SemInv, StackInv, place, mySem

\* The outermost spin_lock, taken from interruptible code, records that
\* interrupts were on; the spin_unlock that matches it turns them on again.
LEMMA OutermostLock ==
  ASSUME IInv, cpu = "running", pc[current_thread] \in {"run", "cs", "gap"},
         NEW l \in Locks, spin_lock(l)
  PROVE  /\ cpu' = "running"
         /\ intr' = FALSE
         /\ g_interruptsEnabled' = TRUE
         /\ g_spinLockCount' = 1
         /\ lock' = [k \in Locks |-> IF k = l THEN 1 ELSE 0]
<1>1. lock = [k \in Locks |-> 0] /\ g_spinLockCount = 0 /\ intr
  BY SemaphoreAssumption DEF IInv, LocksInv, FlagInv, TypeOK, SpinTypeOK
<1>. QED  BY <1>1 DEF spin_lock

\* spin_unlock at nesting depth 1, in thread-level code: no assert fires, the lock
\* is free and interrupts are on again.
LEMMA OutermostUnlock ==
  ASSUME IInv, intd[current_thread] = "none",
         pc[current_thread] \in {"lock_got", "lock_block", "try_body", "unlock_done",
                                 "create_done", "yield_done"},
         NEW l \in Locks, lock[l] = 1, spin_unlock(l)
  PROVE  /\ cpu' = cpu
         /\ intr' = TRUE
         /\ g_interruptsEnabled' = g_interruptsEnabled
         /\ g_spinLockCount' = 0
         /\ lock' = [k \in Locks |-> 0]
<1>1. ~intr /\ g_spinLockCount = 1 /\ g_interruptsEnabled
  BY DEF IInv, LocksInv, FlagInv
<1>2. lock' = [lock EXCEPT ![l] = 0] /\ cpu' = cpu /\ g_spinLockCount' = 0
      /\ intr' = g_interruptsEnabled /\ g_interruptsEnabled' = g_interruptsEnabled
  BY <1>1 DEF spin_unlock, IInv, TypeOK, SpinTypeOK
<1>3. lock \in [Locks -> {0, 1}] /\ \A k \in Locks : k # l => lock[k] # 1
  BY SemaphoreAssumption DEF IInv, TypeOK, SpinTypeOK, LocksInv
<1>. QED  BY <1>1, <1>2, <1>3

\* interrupt_dispatch: the timer finds no lock held, because IF is on only at
\* interruptible labels.
LEMMA TimerInterruptInv ==
  ASSUME IInv, timer_interrupt, UNCHANGED semVars
  PROVE  IInv'
<1>. USE SchedulerAssumption, SemaphoreAssumption
     DEF IInv, timer_interrupt, At, Goto, spinVars, listVars, stackVars, schedVars, semVars
<1>1. SpinTypeOK'
  BY DEF TypeOK, SpinTypeOK, CpuStates
<1>2. SchedTypeOK'
  BY DEF TypeOK, SchedTypeOK, ExistInv, StackInv, FlagInv, SemaphoreLabels, Labels
<1>3. SemTypeOK'
  BY DEF TypeOK, SemTypeOK, SchedTypeOK
<1>4. cpu' # "spinning" /\ LocksInv'
  BY DEF LocksInv, FlagInv, StackInv, SemInv, TypeOK, SpinTypeOK, SchedTypeOK, SemTypeOK, place
<1>5. FlagInv'
  BY DEF FlagInv, LocksInv, StackInv, TypeOK, SpinTypeOK, SchedTypeOK
<1>6. StackInv'
  BY DEF FlagInv, StackInv, ExistInv, TypeOK, SchedTypeOK
<1>7. ExistInv'
  BY DEF ExistInv, StackInv, SemInv, TypeOK, SchedTypeOK, SemTypeOK, place
<1>8. SemInv'
  BY DEF FlagInv, SemInv, StackInv, place, TypeOK, SchedTypeOK, SemTypeOK
<1>9. QED  BY <1>1, <1>2, <1>3, <1>4, <1>5, <1>6, <1>7, <1>8, Zenon DEF TypeOK

\* timer_callback's thread_yield takes scheduler_lock, which is free: the
\* interrupted label was interruptible.
LEMMA TimerCallbackInv ==
  ASSUME IInv, timer_callback, UNCHANGED semVars
  PROVE  IInv'
<1>. USE SchedulerAssumption, SemaphoreAssumption
     DEF IInv, timer_callback, At, Goto, spinVars, listVars, stackVars, schedVars, semVars
<1>1. SpinTypeOK'
  BY SpinLockType DEF TypeOK
<1>2. SchedTypeOK'
  BY DEF TypeOK, SchedTypeOK, ExistInv, StackInv, FlagInv, SemaphoreLabels, Labels
<1>3. SemTypeOK'
  BY DEF TypeOK, SemTypeOK, SchedTypeOK
<1>4. cpu' # "spinning" /\ LocksInv'
  BY DEF LocksInv, FlagInv, StackInv, SemInv, TypeOK, SpinTypeOK, SchedTypeOK, SemTypeOK, place, spin_lock
<1>5. FlagInv'
  BY DEF FlagInv, LocksInv, StackInv, TypeOK, SpinTypeOK, SchedTypeOK, spin_lock
<1>6. StackInv'
  BY DEF FlagInv, StackInv, ExistInv, TypeOK, SchedTypeOK
<1>7. ExistInv'
  BY DEF ExistInv, StackInv, SemInv, TypeOK, SchedTypeOK, SemTypeOK, place
<1>8. SemInv'
  BY DEF FlagInv, SemInv, StackInv, place, TypeOK, SchedTypeOK, SemTypeOK
<1>. QED  BY <1>1, <1>2, <1>3, <1>4, <1>5, <1>6, <1>7, <1>8, Zenon DEF TypeOK

\* A failed check stops the machine and changes nothing else.
LEMMA FatalInv ==
  ASSUME IInv, Fatal, UNCHANGED <<schedVars, semVars>>
  PROVE  IInv'
<1>. USE DEF IInv, Fatal, schedVars, listVars, stackVars, semVars
<1>1. TypeOK'
  BY DEF TypeOK, SpinTypeOK, SchedTypeOK, SemTypeOK, CpuStates
<1>2. cpu' # "spinning" /\ LocksInv' /\ FlagInv'
  BY DEF LocksInv, FlagInv
<1>3. StackInv' /\ ExistInv' /\ SemInv'
  BY DEF StackInv, ExistInv, SemInv, place
<1>. QED  BY <1>1, <1>2, <1>3

\* thread_yield and thread_schedule: a check fails, the thread goes on, or the next
\* ready thread comes back to "switched" or starts in "entry", with scheduler_lock held.
LEMMA YieldBodyInv ==
  ASSUME IInv, yield_body, UNCHANGED semVars
  PROVE  IInv'
<1>. USE SchedulerAssumption, SemaphoreAssumption
     DEF IInv, At, Goto, spinVars, listVars, stackVars, schedVars, semVars
<1>. DEFINE st == state[current_thread]
            next == IF st = "RUNNING" THEN "READY" ELSE st
            me == current_thread
<1>1. CASE Fatal /\ UNCHANGED <<schedVars, semVars>>
  BY <1>1, FatalInv
<1>2. CASE /\ ready_list = <<>>
           /\ state' = [state EXCEPT ![me] = "RUNNING"]
           /\ pc' = [pc EXCEPT ![me] = "yield_done"]
           /\ pc[me] = "yield_body"
           /\ UNCHANGED <<spinVars, current_thread, ready_list, suspended_list, saved,
                          blocker, ret, intd, thread, irq0_masked>>
  <2>1. TypeOK'
    BY <1>2 DEF TypeOK, SpinTypeOK, SchedTypeOK, SemTypeOK, Labels
  <2>2. cpu' # "spinning" /\ LocksInv' /\ FlagInv'
    BY <1>2 DEF LocksInv, FlagInv, TypeOK, SchedTypeOK
  <2>3. StackInv' /\ ExistInv' /\ SemInv'
    BY <1>2 DEF StackInv, ExistInv, SemInv, place, TypeOK, SchedTypeOK, SemTypeOK
  <2>. QED  BY <2>1, <2>2, <2>3
<1>3. CASE ready_list # <<>> /\ st \in {"RUNNING", "SUSPENDED"} /\ switch_from(next)
           /\ pc[me] = "yield_body" /\ UNCHANGED <<blocker, ret, intd, thread, irq0_masked>>
  <2>. DEFINE new == Head(ready_list)
  <2>1. /\ me \in Threads /\ new \in Threads /\ pc[new] # "none" /\ next \in {"READY", "SUSPENDED"}
        /\ Tail(ready_list) \in Seq(Threads)
    BY <1>3 DEF ExistInv, TypeOK, SchedTypeOK
  <2>2. /\ current_thread' = new
        /\ pc' = [pc EXCEPT ![me] = "switched"]
        /\ saved' = [saved EXCEPT ![me] = g_interruptsEnabled]
        /\ state' = [state EXCEPT ![me] = next, ![new] = "RUNNING"]
        /\ UNCHANGED spinVars
        /\ ready_list' = IF next = "READY" THEN Append(Tail(ready_list), me) ELSE Tail(ready_list)
        /\ suspended_list' = IF next = "READY" THEN suspended_list ELSE Append(suspended_list, me)
    <3>1. /\ Head(Append(ready_list, me)) = new
          /\ Tail(Append(ready_list, me)) = Append(Tail(ready_list), me)
      BY <1>3, HeadTailAppend DEF TypeOK, SchedTypeOK
    <3>. QED  BY <1>3, <2>1, <3>1 DEF switch_from
  <2>3. pc'[new] \in {"switched", "entry"} /\ pc'[me] = "switched"
    BY <2>1, <2>2 DEF StackInv, TypeOK, SchedTypeOK
  <2>4. TypeOK'
    <3>1. SchedTypeOK'
      <4>1. ready_list' \in Seq(Threads) /\ suspended_list' \in Seq(Threads)
        BY <2>1, <2>2 DEF TypeOK, SchedTypeOK
      <4>2. saved' \in [Threads -> BOOLEAN]
        BY <2>1, <2>2, Zenon DEF TypeOK, SpinTypeOK, SchedTypeOK
      <4>. QED  BY <1>3, <2>1, <2>2, <4>1, <4>2 DEF TypeOK, SchedTypeOK, Labels
    <3>. QED  BY <1>3, <2>2, <3>1 DEF TypeOK, SpinTypeOK, SemTypeOK
  <2>5. cpu' # "spinning" /\ LocksInv' /\ FlagInv'
    BY <1>3, <2>1, <2>2, <2>3 DEF LocksInv, FlagInv, TypeOK, SchedTypeOK
  <2>6. StackInv'
    BY <1>3, <2>1, <2>2, <2>3 DEF StackInv, FlagInv, TypeOK, SchedTypeOK
  <2>7. ExistInv'
    <3>1. \A t \in Threads : pc[t] # "none" => pc'[t] # "none"
      BY <2>1, <2>2 DEF TypeOK, SchedTypeOK
    <3>2. \A i \in DOMAIN ready_list' : pc'[ready_list'[i]] # "none"
      BY <1>3, <2>1, <2>2, <2>3, <3>1 DEF ExistInv, TypeOK, SchedTypeOK
    <3>. QED  BY <2>2, <2>3, <3>1, <3>2 DEF ExistInv, TypeOK, SemTypeOK
  <2>8. SemInv'
    BY <1>3, <2>1, <2>2 DEF SemInv, place, TypeOK, SchedTypeOK, SemTypeOK
  <2>. QED  BY <2>4, <2>5, <2>6, <2>7, <2>8
<1>. QED
  BY <1>1, <1>2, <1>3 DEF yield_body, thread_schedule, schedule_refuses, TypeOK, SchedTypeOK

\* Back from thread_switch: g_interruptsEnabled becomes what this thread saved, so
\* FlagInv holds again whichever thread ran before.
LEMMA SwitchedInv ==
  ASSUME IInv, switched, UNCHANGED semVars
  PROVE  IInv'
<1>. USE SchedulerAssumption, SemaphoreAssumption
     DEF IInv, switched, At, Goto, spinVars, listVars, stackVars, schedVars, semVars
<1>1. SpinTypeOK'
  <2>1. g_interruptsEnabled' \in BOOLEAN
    BY Zenon DEF TypeOK, SchedTypeOK
  <2>. QED  BY <2>1 DEF TypeOK, SpinTypeOK
<1>2. SchedTypeOK'
  BY DEF TypeOK, SchedTypeOK, ExistInv, StackInv, FlagInv, SemaphoreLabels, Labels
<1>3. SemTypeOK'
  BY DEF TypeOK, SemTypeOK, SchedTypeOK
<1>4. cpu' # "spinning" /\ LocksInv'
  BY DEF LocksInv, FlagInv, StackInv, SemInv, TypeOK, SpinTypeOK, SchedTypeOK, SemTypeOK, place
<1>5. FlagInv'
  BY DEF FlagInv, LocksInv, StackInv, TypeOK, SpinTypeOK, SchedTypeOK
<1>6. StackInv'
  BY DEF FlagInv, StackInv, ExistInv, TypeOK, SchedTypeOK
<1>7. ExistInv'
  BY DEF ExistInv, StackInv, SemInv, TypeOK, SchedTypeOK, SemTypeOK, place
<1>8. SemInv'
  BY DEF FlagInv, SemInv, StackInv, place, TypeOK, SchedTypeOK, SemTypeOK
<1>. QED  BY <1>1, <1>2, <1>3, <1>4, <1>5, <1>6, <1>7, <1>8, Zenon DEF TypeOK

\* thread_yield's spin_unlock enables interrupts for thread-level code and leaves
\* them off in the timer's handler.
LEMMA YieldDoneInv ==
  ASSUME IInv, yield_done, UNCHANGED semVars
  PROVE  IInv'
<1>. USE SchedulerAssumption, SemaphoreAssumption
     DEF IInv, yield_done, yield_returns_to, At, Goto, spinVars, listVars, stackVars, schedVars, semVars
<1>1. SpinTypeOK'
  BY SpinUnlockType DEF TypeOK
<1>2. SchedTypeOK'
  BY DEF TypeOK, SchedTypeOK, ExistInv, StackInv, FlagInv, SemaphoreLabels, Labels
<1>3. SemTypeOK'
  BY DEF TypeOK, SemTypeOK, SchedTypeOK
<1>4. cpu' # "spinning" /\ LocksInv'
  BY DEF LocksInv, FlagInv, StackInv, SemInv, TypeOK, SpinTypeOK, SchedTypeOK, SemTypeOK, place, spin_unlock
<1>5. FlagInv'
  BY DEF FlagInv, LocksInv, StackInv, TypeOK, SpinTypeOK, SchedTypeOK, spin_unlock
<1>6. StackInv'
  BY DEF FlagInv, StackInv, ExistInv, TypeOK, SchedTypeOK
<1>7. ExistInv'
  BY DEF ExistInv, StackInv, SemInv, TypeOK, SchedTypeOK, SemTypeOK, place
<1>8. SemInv'
  BY DEF FlagInv, SemInv, StackInv, place, TypeOK, SchedTypeOK, SemTypeOK
<1>. QED  BY <1>1, <1>2, <1>3, <1>4, <1>5, <1>6, <1>7, <1>8, Zenon DEF TypeOK

\* The handler returns to the label it interrupted, with interrupts on.
LEMMA IrqExitInv ==
  ASSUME IInv, irq_exit, UNCHANGED semVars
  PROVE  IInv'
<1>. USE SchedulerAssumption, SemaphoreAssumption
     DEF IInv, irq_exit, At, Goto, spinVars, listVars, stackVars, schedVars, semVars
<1>0. intd[current_thread] \in {"run", "cs", "gap", "entry_pic"}
  BY DEF StackInv, TypeOK, SchedTypeOK
<1>1. SpinTypeOK'
  BY DEF TypeOK, SpinTypeOK, CpuStates
<1>2. SchedTypeOK'
  BY DEF TypeOK, SchedTypeOK, ExistInv, StackInv, FlagInv, SemaphoreLabels, Labels
<1>3. SemTypeOK'
  BY DEF TypeOK, SemTypeOK, SchedTypeOK
<1>4. cpu' # "spinning" /\ LocksInv'
  BY <1>0 DEF LocksInv, FlagInv, StackInv, SemInv, TypeOK, SpinTypeOK, SchedTypeOK, SemTypeOK, place
<1>5. FlagInv'
  BY DEF FlagInv, LocksInv, StackInv, TypeOK, SpinTypeOK, SchedTypeOK
<1>6. StackInv'
  BY ZenonT(40) DEF FlagInv, StackInv, ExistInv, TypeOK, SchedTypeOK
<1>7. ExistInv'
  BY <1>0 DEF ExistInv, StackInv, SemInv, TypeOK, SchedTypeOK, SemTypeOK, place
<1>8. SemInv'
  BY DEF FlagInv, SemInv, StackInv, place, TypeOK, SchedTypeOK, SemTypeOK
<1>. QED  BY <1>1, <1>2, <1>3, <1>4, <1>5, <1>6, <1>7, <1>8, Zenon DEF TypeOK

\* list_remove returns a list of threads.
LEMMA ListRemoveType ==
  ASSUME NEW S, NEW q \in Seq(S), NEW e
  PROVE  list_remove(q, e) \in Seq(S)
<1>1. CASE \E k \in DOMAIN q : q[k] = e
  <2>. DEFINE r == [i \in 1..(Len(q) - 1) |-> IF \E k \in 1..i : q[k] = e THEN q[i + 1] ELSE q[i]]
  <2>1. Len(q) - 1 \in Nat
    BY <1>1
  <2>2. \A i \in 1..(Len(q) - 1) : r[i] \in S
    OBVIOUS
  <2>3. r \in Seq(S)
    BY <2>1, <2>2
  <2>. QED  BY <1>1, <2>3 DEF list_remove
<1>2. CASE ~ \E k \in DOMAIN q : q[k] = e
  BY <1>2 DEF list_remove
<1>. QED  BY <1>1, <1>2

\* thread_wakeup moves one thread between the lists.
LEMMA WakeupBodyInv ==
  ASSUME IInv, wakeup_body, UNCHANGED semVars
  PROVE  IInv'
<1>. USE SchedulerAssumption, SemaphoreAssumption
     DEF IInv, At, Goto, spinVars, listVars, stackVars, schedVars, semVars
<1>. DEFINE t == thread[current_thread]
<1>1. CASE Fatal /\ UNCHANGED <<schedVars, semVars>>
  BY <1>1, FatalInv
<1>2. CASE /\ pc[current_thread] = "wakeup_body"
           /\ state[t] = "SUSPENDED"
           /\ state' = [state EXCEPT ![t] = "READY"]
           /\ blocker' = [blocker EXCEPT ![t] = NULL]
           /\ suspended_list' = list_remove(suspended_list, t)
           /\ ready_list' = Append(ready_list, t)
           /\ pc' = [pc EXCEPT ![current_thread] = "wakeup_done"]
           /\ UNCHANGED <<spinVars, current_thread, stackVars, irq0_masked>>
  <2>1. t \in Threads /\ pc[t] # "none" /\ list_remove(suspended_list, t) \in Seq(Threads)
    BY <1>2, ListRemoveType DEF TypeOK, SchedTypeOK, ExistInv
  <2>2. TypeOK'
    BY <1>2, <2>1 DEF TypeOK, SpinTypeOK, SchedTypeOK, SemTypeOK, Labels
  <2>3. cpu' # "spinning" /\ LocksInv' /\ FlagInv'
    BY <1>2 DEF LocksInv, FlagInv, TypeOK, SchedTypeOK
  <2>4. StackInv'
    BY <1>2, <2>1 DEF StackInv, TypeOK, SchedTypeOK
  <2>5. ExistInv'
    <3>1. \A u \in Threads : pc[u] # "none" => pc'[u] # "none"
      BY <1>2 DEF TypeOK, SchedTypeOK
    <3>2. \A i \in DOMAIN ready_list' : pc'[ready_list'[i]] # "none"
      BY <1>2, <2>1, <3>1 DEF ExistInv, TypeOK, SchedTypeOK
    <3>. QED  BY <1>2, <2>1, <3>1, <3>2 DEF ExistInv, TypeOK, SemTypeOK, SchedTypeOK
  <2>6. SemInv'
    BY <1>2 DEF SemInv, place, TypeOK, SchedTypeOK, SemTypeOK
  <2>. QED  BY <2>2, <2>3, <2>4, <2>5, <2>6
<1>. QED
  BY <1>1, <1>2 DEF wakeup_body

\* thread_wakeup's spin_unlock is the inner one: interrupts stay off.
LEMMA WakeupDoneInv ==
  ASSUME IInv, wakeup_done, UNCHANGED semVars
  PROVE  IInv'
<1>. USE SchedulerAssumption, SemaphoreAssumption
     DEF IInv, wakeup_done, At, Goto, spinVars, listVars, stackVars, schedVars, semVars
<1>1. SpinTypeOK'
  BY SpinUnlockType DEF TypeOK
<1>2. SchedTypeOK'
  BY DEF TypeOK, SchedTypeOK, ExistInv, StackInv, FlagInv, SemaphoreLabels, Labels
<1>3. SemTypeOK'
  BY DEF TypeOK, SemTypeOK, SchedTypeOK
<1>0. intr' = FALSE /\ g_spinLockCount' = 1 /\ cpu' = cpu
      /\ lock' = [lock EXCEPT ![scheduler_lock] = 0] /\ g_interruptsEnabled' = g_interruptsEnabled
  <2>1. ~intr /\ g_spinLockCount = 2
    BY DEF LocksInv, FlagInv
  <2>. QED  BY <2>1 DEF spin_unlock
<1>4. cpu' # "spinning" /\ LocksInv'
  BY <1>0 DEF LocksInv, FlagInv, StackInv, SemInv, TypeOK, SpinTypeOK, SchedTypeOK, SemTypeOK, place
<1>5. FlagInv'
  BY <1>0 DEF FlagInv, LocksInv, StackInv, TypeOK, SpinTypeOK, SchedTypeOK
<1>6. StackInv'
  BY DEF FlagInv, StackInv, ExistInv, TypeOK, SchedTypeOK
<1>7. ExistInv'
  BY DEF ExistInv, StackInv, SemInv, TypeOK, SchedTypeOK, SemTypeOK, place
<1>8. SemInv'
  BY DEF FlagInv, SemInv, StackInv, place, TypeOK, SchedTypeOK, SemTypeOK
<1>. QED  BY <1>1, <1>2, <1>3, <1>4, <1>5, <1>6, <1>7, <1>8, Zenon DEF TypeOK

\* thread_create puts a thread that exists on ready_list.
LEMMA CreateBodyInv ==
  ASSUME IInv, create_body, UNCHANGED semVars
  PROVE  IInv'
<1>. USE SchedulerAssumption, SemaphoreAssumption
     DEF IInv, create_body, At, Goto, spinVars, listVars, stackVars, schedVars, semVars
<1>1. SpinTypeOK'
  BY DEF TypeOK, SpinTypeOK, CpuStates
<1>2. SchedTypeOK'
  BY DEF TypeOK, SchedTypeOK, ExistInv, StackInv, FlagInv, SemaphoreLabels, Labels
<1>3. SemTypeOK'
  BY DEF TypeOK, SemTypeOK, SchedTypeOK
<1>4. cpu' # "spinning" /\ LocksInv'
  BY DEF LocksInv, FlagInv, StackInv, SemInv, TypeOK, SpinTypeOK, SchedTypeOK, SemTypeOK, place
<1>5. FlagInv'
  BY DEF FlagInv, LocksInv, StackInv, TypeOK, SpinTypeOK, SchedTypeOK
<1>6. StackInv'
  BY DEF FlagInv, StackInv, ExistInv, TypeOK, SchedTypeOK
<1>7. ExistInv'
  BY DEF ExistInv, StackInv, SemInv, TypeOK, SchedTypeOK, SemTypeOK, place
<1>8. SemInv'
  BY DEF FlagInv, SemInv, StackInv, place, TypeOK, SchedTypeOK, SemTypeOK
<1>. QED  BY <1>1, <1>2, <1>3, <1>4, <1>5, <1>6, <1>7, <1>8, Zenon DEF TypeOK

\* thread_create's spin_unlock is an outermost one.
LEMMA CreateDoneInv ==
  ASSUME IInv, create_done, UNCHANGED semVars
  PROVE  IInv'
<1>. USE SchedulerAssumption, SemaphoreAssumption
     DEF IInv, create_done, At, Goto, spinVars, listVars, stackVars, schedVars, semVars
<1>9. /\ cpu' = cpu /\ intr' = TRUE /\ g_interruptsEnabled' = g_interruptsEnabled
      /\ g_spinLockCount' = 0 /\ lock' = [k \in Locks |-> 0]
  BY OutermostUnlock DEF LocksInv, mySem, StackInv, TypeOK, SchedTypeOK
<1>1. SpinTypeOK'
  BY <1>9 DEF TypeOK, SpinTypeOK, CpuStates
<1>2. SchedTypeOK'
  BY <1>9 DEF TypeOK, SchedTypeOK, ExistInv, StackInv, FlagInv, SemaphoreLabels, Labels
<1>3. SemTypeOK'
  BY <1>9 DEF TypeOK, SemTypeOK, SchedTypeOK
<1>4. cpu' # "spinning" /\ LocksInv'
  BY <1>9 DEF LocksInv, FlagInv, StackInv, SemInv, TypeOK, SpinTypeOK, SchedTypeOK, SemTypeOK, place
<1>5. FlagInv'
  BY <1>9 DEF FlagInv, LocksInv, StackInv, TypeOK, SpinTypeOK, SchedTypeOK
<1>6. StackInv'
  BY <1>9 DEF FlagInv, StackInv, ExistInv, TypeOK, SchedTypeOK
<1>7. ExistInv'
  BY <1>9 DEF ExistInv, StackInv, SemInv, TypeOK, SchedTypeOK, SemTypeOK, place
<1>8. SemInv'
  BY <1>9 DEF FlagInv, SemInv, StackInv, place, TypeOK, SchedTypeOK, SemTypeOK
<1>. QED  BY <1>1, <1>2, <1>3, <1>4, <1>5, <1>6, <1>7, <1>8, Zenon DEF TypeOK

\* thread_entry releases the lock the previous thread took; the flag it finds may
\* turn interrupts on or leave them off.
LEMMA ThreadEntryInv ==
  ASSUME IInv, thread_entry, UNCHANGED semVars
  PROVE  IInv'
<1>. USE SchedulerAssumption, SemaphoreAssumption
     DEF IInv, thread_entry, At, Goto, spinVars, listVars, stackVars, schedVars, semVars
<1>1. SpinTypeOK'
  BY SpinUnlockType DEF TypeOK
<1>2. SchedTypeOK'
  BY DEF TypeOK, SchedTypeOK, ExistInv, StackInv, FlagInv, SemaphoreLabels, Labels
<1>3. SemTypeOK'
  BY DEF TypeOK, SemTypeOK, SchedTypeOK
<1>4. cpu' # "spinning" /\ LocksInv'
  BY DEF LocksInv, FlagInv, StackInv, SemInv, TypeOK, SpinTypeOK, SchedTypeOK, SemTypeOK, place, spin_unlock
<1>5. FlagInv'
  BY DEF FlagInv, LocksInv, StackInv, TypeOK, SpinTypeOK, SchedTypeOK, spin_unlock
<1>6. StackInv'
  BY DEF FlagInv, StackInv, ExistInv, TypeOK, SchedTypeOK
<1>7. ExistInv'
  BY DEF ExistInv, StackInv, SemInv, TypeOK, SchedTypeOK, SemTypeOK, place
<1>8. SemInv'
  BY DEF FlagInv, SemInv, StackInv, place, TypeOK, SchedTypeOK, SemTypeOK
<1>. QED  BY <1>1, <1>2, <1>3, <1>4, <1>5, <1>6, <1>7, <1>8, Zenon DEF TypeOK

\* A thread function starts with interrupts on.
LEMMA ThreadEntryReturnInv ==
  ASSUME IInv, thread_entry_return, UNCHANGED semVars
  PROVE  IInv'
<1>. USE SchedulerAssumption, SemaphoreAssumption
     DEF IInv, thread_entry_return, At, Goto, spinVars, listVars, stackVars, schedVars, semVars
<1>1. SpinTypeOK'
  BY DEF TypeOK, SpinTypeOK, CpuStates
<1>2. SchedTypeOK'
  BY DEF TypeOK, SchedTypeOK, ExistInv, StackInv, FlagInv, SemaphoreLabels, Labels
<1>3. SemTypeOK'
  BY DEF TypeOK, SemTypeOK, SchedTypeOK
<1>4. cpu' # "spinning" /\ LocksInv'
  BY DEF LocksInv, FlagInv, StackInv, SemInv, TypeOK, SpinTypeOK, SchedTypeOK, SemTypeOK, place
<1>5. FlagInv'
  BY DEF FlagInv, LocksInv, StackInv, TypeOK, SpinTypeOK, SchedTypeOK
<1>6. StackInv'
  BY DEF FlagInv, StackInv, ExistInv, TypeOK, SchedTypeOK
<1>7. ExistInv'
  BY DEF ExistInv, StackInv, SemInv, TypeOK, SchedTypeOK, SemTypeOK, place
<1>8. SemInv'
  BY DEF FlagInv, SemInv, StackInv, place, TypeOK, SchedTypeOK, SemTypeOK
<1>. QED  BY <1>1, <1>2, <1>3, <1>4, <1>5, <1>6, <1>7, <1>8, Zenon DEF TypeOK

\* thread_create is called with interrupts on and no lock held.
LEMMA ThreadCreateInv ==
  ASSUME IInv, NEW child \in Threads, thread_create(child), UNCHANGED semVars
  PROVE  IInv'
<1>. USE SchedulerAssumption, SemaphoreAssumption
     DEF IInv, thread_create, Fatal, At, Goto, spinVars, listVars, stackVars, schedVars, semVars
<1>9. /\ cpu' = "running" /\ intr' = FALSE /\ g_interruptsEnabled' = TRUE
      /\ g_spinLockCount' = 1 /\ lock' = [k \in Locks |-> IF k = scheduler_lock THEN 1 ELSE 0]
  BY OutermostLock DEF FlagInv
<1>1. SpinTypeOK'
  BY <1>9 DEF TypeOK, SpinTypeOK, CpuStates
<1>2. SchedTypeOK'
  BY <1>9 DEF TypeOK, SchedTypeOK, ExistInv, StackInv, FlagInv, SemaphoreLabels, Labels
<1>3. SemTypeOK'
  BY <1>9 DEF TypeOK, SemTypeOK, SchedTypeOK
<1>4. cpu' # "spinning" /\ LocksInv'
  BY <1>9 DEF LocksInv, FlagInv, StackInv, SemInv, TypeOK, SpinTypeOK, SchedTypeOK, SemTypeOK, place
<1>5. FlagInv'
  BY <1>9 DEF FlagInv, LocksInv, StackInv, TypeOK, SpinTypeOK, SchedTypeOK
<1>6. StackInv'
  BY <1>9 DEF FlagInv, StackInv, ExistInv, TypeOK, SchedTypeOK
<1>7. ExistInv'
  BY <1>9 DEF ExistInv, StackInv, SemInv, TypeOK, SchedTypeOK, SemTypeOK, place
<1>8. SemInv'
  BY <1>9 DEF FlagInv, SemInv, StackInv, place, TypeOK, SchedTypeOK, SemTypeOK
<1>. QED  BY <1>1, <1>2, <1>3, <1>4, <1>5, <1>6, <1>7, <1>8, Zenon DEF TypeOK

\* A client's thread_yield takes the free scheduler_lock.
LEMMA YieldInv ==
  ASSUME IInv, yield
  PROVE  IInv'
<1>. USE SchedulerAssumption, SemaphoreAssumption
     DEF IInv, yield, thread_yield, At, Goto, spinVars, listVars, stackVars, schedVars, semVars
<1>9. /\ cpu' = "running" /\ intr' = FALSE /\ g_interruptsEnabled' = TRUE
      /\ g_spinLockCount' = 1 /\ lock' = [k \in Locks |-> IF k = scheduler_lock THEN 1 ELSE 0]
  BY OutermostLock
<1>1. SpinTypeOK'
  BY <1>9 DEF TypeOK, SpinTypeOK, CpuStates
<1>2. SchedTypeOK'
  BY <1>9 DEF TypeOK, SchedTypeOK, ExistInv, StackInv, FlagInv, SemaphoreLabels, Labels
<1>3. SemTypeOK'
  BY <1>9 DEF TypeOK, SemTypeOK, SchedTypeOK
<1>4. cpu' # "spinning" /\ LocksInv'
  BY <1>9 DEF LocksInv, FlagInv, StackInv, SemInv, TypeOK, SpinTypeOK, SchedTypeOK, SemTypeOK, place
<1>5. FlagInv'
  BY <1>9, SMTT(30) DEF FlagInv, LocksInv, StackInv, TypeOK, SpinTypeOK, SchedTypeOK
<1>6. StackInv'
  BY <1>9 DEF FlagInv, StackInv, ExistInv, TypeOK, SchedTypeOK
<1>7. ExistInv'
  BY <1>9 DEF ExistInv, StackInv, SemInv, TypeOK, SchedTypeOK, SemTypeOK, place
<1>8. SemInv'
  BY <1>9 DEF FlagInv, SemInv, StackInv, place, TypeOK, SchedTypeOK, SemTypeOK
<1>. QED  BY <1>1, <1>2, <1>3, <1>4, <1>5, <1>6, <1>7, <1>8, Zenon DEF TypeOK

\* thread_exit turns interrupts off and halts.
LEMMA ThreadExitInv ==
  ASSUME IInv, thread_exit, UNCHANGED semVars
  PROVE  IInv'
<1>. USE SchedulerAssumption, SemaphoreAssumption
     DEF IInv, thread_exit, At, Goto, spinVars, listVars, stackVars, schedVars, semVars
<1>1. SpinTypeOK'
  BY DEF TypeOK, SpinTypeOK, CpuStates
<1>2. SchedTypeOK'
  BY DEF TypeOK, SchedTypeOK, ExistInv, StackInv, FlagInv, SemaphoreLabels, Labels
<1>3. SemTypeOK'
  BY DEF TypeOK, SemTypeOK, SchedTypeOK
<1>4. cpu' # "spinning" /\ LocksInv'
  BY DEF LocksInv, FlagInv, StackInv, SemInv, TypeOK, SpinTypeOK, SchedTypeOK, SemTypeOK, place
<1>5. FlagInv'
  BY DEF FlagInv, LocksInv, StackInv, TypeOK, SpinTypeOK, SchedTypeOK
<1>6. StackInv'
  BY DEF FlagInv, StackInv, ExistInv, TypeOK, SchedTypeOK
<1>7. ExistInv'
  BY DEF ExistInv, StackInv, SemInv, TypeOK, SchedTypeOK, SemTypeOK, place
<1>8. SemInv'
  BY DEF FlagInv, SemInv, StackInv, place, TypeOK, SchedTypeOK, SemTypeOK
<1>. QED  BY <1>1, <1>2, <1>3, <1>4, <1>5, <1>6, <1>7, <1>8, Zenon DEF TypeOK

\* semaphore_lock takes the free lock of its semaphore.
LEMMA SemaphoreLockInv ==
  ASSUME IInv, NEW s \in Sems, semaphore_lock(s)
  PROVE  IInv'
<1>. USE SchedulerAssumption, SemaphoreAssumption
     DEF IInv, semaphore_lock, mySem, schedUnchanged, At, Goto, spinVars, listVars, stackVars, schedVars, semVars
<1>9. /\ cpu' = "running" /\ intr' = FALSE /\ g_interruptsEnabled' = TRUE
      /\ g_spinLockCount' = 1 /\ lock' = [k \in Locks |-> IF k = s THEN 1 ELSE 0]
  BY OutermostLock
<1>1. SpinTypeOK'
  BY <1>9 DEF TypeOK, SpinTypeOK, CpuStates
<1>2. SchedTypeOK'
  BY <1>9 DEF TypeOK, SchedTypeOK, ExistInv, StackInv, FlagInv, SemaphoreLabels, Labels
<1>3. SemTypeOK'
  BY <1>9 DEF TypeOK, SemTypeOK, SchedTypeOK
<1>4. cpu' # "spinning" /\ LocksInv'
  BY <1>9 DEF LocksInv, FlagInv, StackInv, SemInv, TypeOK, SpinTypeOK, SchedTypeOK, SemTypeOK, place
<1>5. FlagInv'
  BY <1>9 DEF FlagInv, LocksInv, StackInv, TypeOK, SpinTypeOK, SchedTypeOK
<1>6. StackInv'
  BY <1>9 DEF FlagInv, StackInv, ExistInv, TypeOK, SchedTypeOK
<1>7. ExistInv'
  BY <1>9 DEF ExistInv, StackInv, SemInv, TypeOK, SchedTypeOK, SemTypeOK, place
<1>8. SemInv'
  BY <1>9 DEF FlagInv, SemInv, StackInv, place, TypeOK, SchedTypeOK, SemTypeOK
<1>. QED  BY <1>1, <1>2, <1>3, <1>4, <1>5, <1>6, <1>7, <1>8, Zenon DEF TypeOK

\* semaphore_lock takes a unit.
LEMMA LockGotInv ==
  ASSUME IInv, lock_got
  PROVE  IInv'
<1>. USE SchedulerAssumption, SemaphoreAssumption
     DEF IInv, lock_got, mySem, schedUnchanged, At, Goto, spinVars, listVars, stackVars, schedVars, semVars
<1>0. mySem \in Sems /\ mySem \in Locks /\ intd[current_thread] = "none"
  BY AtSemaphore
<1>1. SpinTypeOK'
  BY <1>0 DEF TypeOK, SpinTypeOK, CpuStates
<1>2. SchedTypeOK'
  BY <1>0 DEF TypeOK, SchedTypeOK, ExistInv, StackInv, FlagInv, SemaphoreLabels, Labels
<1>3. SemTypeOK'
  BY <1>0 DEF TypeOK, SemTypeOK, SchedTypeOK
<1>4. cpu' # "spinning" /\ LocksInv'
  BY <1>0 DEF LocksInv, FlagInv, StackInv, SemInv, TypeOK, SpinTypeOK, SchedTypeOK, SemTypeOK, place
<1>5. FlagInv'
  BY <1>0 DEF FlagInv, LocksInv, StackInv, TypeOK, SpinTypeOK, SchedTypeOK
<1>6. StackInv'
  BY <1>0 DEF FlagInv, StackInv, ExistInv, TypeOK, SchedTypeOK
<1>7. ExistInv'
  BY <1>0 DEF ExistInv, StackInv, SemInv, TypeOK, SchedTypeOK, SemTypeOK, place
<1>8. SemInv'
  BY <1>0 DEF FlagInv, SemInv, StackInv, place, TypeOK, SchedTypeOK, SemTypeOK
<1>. QED  BY <1>1, <1>2, <1>3, <1>4, <1>5, <1>6, <1>7, <1>8, Zenon DEF TypeOK

\* semaphore_lock releases its lock and returns.
LEMMA LockReturnInv ==
  ASSUME IInv, lock_return
  PROVE  IInv'
<1>. USE SchedulerAssumption, SemaphoreAssumption
     DEF IInv, lock_return, mySem, schedUnchanged, At, Goto, spinVars, listVars, stackVars, schedVars, semVars
<1>0. mySem \in Sems /\ mySem \in Locks /\ intd[current_thread] = "none"
  BY AtSemaphore
<1>9. /\ cpu' = cpu /\ intr' = TRUE /\ g_interruptsEnabled' = g_interruptsEnabled
      /\ g_spinLockCount' = 0 /\ lock' = [k \in Locks |-> 0]
  BY <1>0, OutermostUnlock DEF LocksInv, mySem, StackInv, TypeOK, SchedTypeOK
<1>1. SpinTypeOK'
  BY <1>9, <1>0 DEF TypeOK, SpinTypeOK, CpuStates
<1>2. SchedTypeOK'
  BY <1>9, <1>0 DEF TypeOK, SchedTypeOK, ExistInv, StackInv, FlagInv, SemaphoreLabels, Labels
<1>3. SemTypeOK'
  BY <1>9, <1>0 DEF TypeOK, SemTypeOK, SchedTypeOK
<1>4. cpu' # "spinning" /\ LocksInv'
  BY <1>9, <1>0 DEF LocksInv, FlagInv, StackInv, SemInv, TypeOK, SpinTypeOK, SchedTypeOK, SemTypeOK, place
<1>5. FlagInv'
  BY <1>9, <1>0 DEF FlagInv, LocksInv, StackInv, TypeOK, SpinTypeOK, SchedTypeOK
<1>6. StackInv'
  BY <1>9, <1>0 DEF FlagInv, StackInv, ExistInv, TypeOK, SchedTypeOK
<1>7. ExistInv'
  BY <1>9, <1>0 DEF ExistInv, StackInv, SemInv, TypeOK, SchedTypeOK, SemTypeOK, place
<1>8. SemInv'
  BY <1>9, <1>0 DEF FlagInv, SemInv, StackInv, place, TypeOK, SchedTypeOK, SemTypeOK
<1>. QED  BY <1>1, <1>2, <1>3, <1>4, <1>5, <1>6, <1>7, <1>8, Zenon DEF TypeOK

\* semaphore_lock queues the current thread, which exists.
LEMMA LockBlockInv ==
  ASSUME IInv, lock_block
  PROVE  IInv'
<1>. USE SchedulerAssumption, SemaphoreAssumption
     DEF IInv, lock_block, mySem, schedUnchanged, At, Goto, spinVars, listVars, stackVars, schedVars, semVars
<1>0. mySem \in Sems /\ mySem \in Locks /\ intd[current_thread] = "none"
  BY AtSemaphore
<1>1. SpinTypeOK'
  BY <1>0 DEF TypeOK, SpinTypeOK, CpuStates
<1>2. SchedTypeOK'
  BY <1>0 DEF TypeOK, SchedTypeOK, ExistInv, StackInv, FlagInv, SemaphoreLabels, Labels
<1>3. SemTypeOK'
  BY <1>0 DEF TypeOK, SemTypeOK, SchedTypeOK
<1>4. cpu' # "spinning" /\ LocksInv'
  BY <1>0 DEF LocksInv, FlagInv, StackInv, SemInv, TypeOK, SpinTypeOK, SchedTypeOK, SemTypeOK, place
<1>5. FlagInv'
  BY <1>0 DEF FlagInv, LocksInv, StackInv, TypeOK, SpinTypeOK, SchedTypeOK
<1>6. StackInv'
  BY <1>0 DEF FlagInv, StackInv, ExistInv, TypeOK, SchedTypeOK
<1>7. ExistInv'
  BY <1>0 DEF ExistInv, StackInv, SemInv, TypeOK, SchedTypeOK, SemTypeOK, place
<1>8. SemInv'
  BY <1>0 DEF FlagInv, SemInv, StackInv, place, TypeOK, SchedTypeOK, SemTypeOK
<1>. QED  BY <1>1, <1>2, <1>3, <1>4, <1>5, <1>6, <1>7, <1>8, Zenon DEF TypeOK

\* semaphore_lock releases its lock before it yields.
LEMMA LockBlockUnlockInv ==
  ASSUME IInv, lock_block_unlock
  PROVE  IInv'
<1>. USE SchedulerAssumption, SemaphoreAssumption
     DEF IInv, lock_block_unlock, mySem, schedUnchanged, At, Goto, spinVars, listVars, stackVars, schedVars, semVars
<1>0. mySem \in Sems /\ mySem \in Locks /\ intd[current_thread] = "none"
  BY AtSemaphore
<1>9. /\ cpu' = cpu /\ intr' = TRUE /\ g_interruptsEnabled' = g_interruptsEnabled
      /\ g_spinLockCount' = 0 /\ lock' = [k \in Locks |-> 0]
  BY <1>0, OutermostUnlock DEF LocksInv, mySem, StackInv, TypeOK, SchedTypeOK
<1>1. SpinTypeOK'
  BY <1>9, <1>0 DEF TypeOK, SpinTypeOK, CpuStates
<1>2. SchedTypeOK'
  BY <1>9, <1>0 DEF TypeOK, SchedTypeOK, ExistInv, StackInv, FlagInv, SemaphoreLabels, Labels
<1>3. SemTypeOK'
  BY <1>9, <1>0 DEF TypeOK, SemTypeOK, SchedTypeOK
<1>4. cpu' # "spinning" /\ LocksInv'
  BY <1>9, <1>0 DEF LocksInv, FlagInv, StackInv, SemInv, TypeOK, SpinTypeOK, SchedTypeOK, SemTypeOK, place
<1>5. FlagInv'
  BY <1>9, <1>0 DEF FlagInv, LocksInv, StackInv, TypeOK, SpinTypeOK, SchedTypeOK
<1>6. StackInv'
  BY <1>9, <1>0 DEF FlagInv, StackInv, ExistInv, TypeOK, SchedTypeOK
<1>7. ExistInv'
  BY <1>9, <1>0 DEF ExistInv, StackInv, SemInv, TypeOK, SchedTypeOK, SemTypeOK, place
<1>8. SemInv'
  BY <1>9, <1>0 DEF FlagInv, SemInv, StackInv, place, TypeOK, SchedTypeOK, SemTypeOK
<1>. QED  BY <1>1, <1>2, <1>3, <1>4, <1>5, <1>6, <1>7, <1>8, Zenon DEF TypeOK

\* semaphore_lock yields from the gap, with no lock held.
LEMMA LockYieldInv ==
  ASSUME IInv, lock_yield
  PROVE  IInv'
<1>. USE SchedulerAssumption, SemaphoreAssumption
     DEF IInv, lock_yield, mySem, schedUnchanged, thread_yield, At, Goto, spinVars, listVars, stackVars, schedVars, semVars
<1>0. mySem \in Sems /\ mySem \in Locks /\ intd[current_thread] = "none"
  BY AtSemaphore
<1>9. /\ cpu' = "running" /\ intr' = FALSE /\ g_interruptsEnabled' = TRUE
      /\ g_spinLockCount' = 1 /\ lock' = [k \in Locks |-> IF k = scheduler_lock THEN 1 ELSE 0]
  BY <1>0, OutermostLock
<1>1. SpinTypeOK'
  BY <1>9, <1>0 DEF TypeOK, SpinTypeOK, CpuStates
<1>2. SchedTypeOK'
  BY <1>9, <1>0 DEF TypeOK, SchedTypeOK, ExistInv, StackInv, FlagInv, SemaphoreLabels, Labels
<1>3. SemTypeOK'
  BY <1>9, <1>0 DEF TypeOK, SemTypeOK, SchedTypeOK
<1>4. cpu' # "spinning" /\ LocksInv'
  BY <1>9, <1>0 DEF LocksInv, FlagInv, StackInv, SemInv, TypeOK, SpinTypeOK, SchedTypeOK, SemTypeOK, place
<1>5. FlagInv'
  BY <1>9, <1>0 DEF FlagInv, LocksInv, StackInv, TypeOK, SpinTypeOK, SchedTypeOK
<1>6. StackInv'
  BY <1>9, <1>0 DEF FlagInv, StackInv, ExistInv, TypeOK, SchedTypeOK
<1>7. ExistInv'
  BY <1>9, <1>0 DEF ExistInv, StackInv, SemInv, TypeOK, SchedTypeOK, SemTypeOK, place
<1>8. SemInv'
  BY <1>9, <1>0 DEF FlagInv, SemInv, StackInv, place, TypeOK, SchedTypeOK, SemTypeOK
<1>. QED  BY <1>1, <1>2, <1>3, <1>4, <1>5, <1>6, <1>7, <1>8, Zenon DEF TypeOK

\* semaphore_try_lock takes the free lock of its semaphore.
LEMMA SemaphoreTryLockInv ==
  ASSUME IInv, NEW s \in Sems, semaphore_try_lock(s)
  PROVE  IInv'
<1>. USE SchedulerAssumption, SemaphoreAssumption
     DEF IInv, semaphore_try_lock, mySem, schedUnchanged, At, Goto, spinVars, listVars, stackVars, schedVars, semVars
<1>9. /\ cpu' = "running" /\ intr' = FALSE /\ g_interruptsEnabled' = TRUE
      /\ g_spinLockCount' = 1 /\ lock' = [k \in Locks |-> IF k = s THEN 1 ELSE 0]
  BY OutermostLock
<1>1. SpinTypeOK'
  BY <1>9 DEF TypeOK, SpinTypeOK, CpuStates
<1>2. SchedTypeOK'
  BY <1>9 DEF TypeOK, SchedTypeOK, ExistInv, StackInv, FlagInv, SemaphoreLabels, Labels
<1>3. SemTypeOK'
  BY <1>9 DEF TypeOK, SemTypeOK, SchedTypeOK
<1>4. cpu' # "spinning" /\ LocksInv'
  BY <1>9 DEF LocksInv, FlagInv, StackInv, SemInv, TypeOK, SpinTypeOK, SchedTypeOK, SemTypeOK, place
<1>5. FlagInv'
  BY <1>9 DEF FlagInv, LocksInv, StackInv, TypeOK, SpinTypeOK, SchedTypeOK
<1>6. StackInv'
  BY <1>9 DEF FlagInv, StackInv, ExistInv, TypeOK, SchedTypeOK
<1>7. ExistInv'
  BY <1>9 DEF ExistInv, StackInv, SemInv, TypeOK, SchedTypeOK, SemTypeOK, place
<1>8. SemInv'
  BY <1>9 DEF FlagInv, SemInv, StackInv, place, TypeOK, SchedTypeOK, SemTypeOK
<1>. QED  BY <1>1, <1>2, <1>3, <1>4, <1>5, <1>6, <1>7, <1>8, Zenon DEF TypeOK

\* semaphore_try_lock takes a unit.
LEMMA TryGotInv ==
  ASSUME IInv, try_got
  PROVE  IInv'
<1>. USE SchedulerAssumption, SemaphoreAssumption
     DEF IInv, try_got, mySem, schedUnchanged, At, Goto, spinVars, listVars, stackVars, schedVars, semVars
<1>0. mySem \in Sems /\ mySem \in Locks /\ intd[current_thread] = "none"
  BY AtSemaphore
<1>1. SpinTypeOK'
  BY <1>0 DEF TypeOK, SpinTypeOK, CpuStates
<1>2. SchedTypeOK'
  BY <1>0 DEF TypeOK, SchedTypeOK, ExistInv, StackInv, FlagInv, SemaphoreLabels, Labels
<1>3. SemTypeOK'
  BY <1>0 DEF TypeOK, SemTypeOK, SchedTypeOK
<1>4. cpu' # "spinning" /\ LocksInv'
  BY <1>0 DEF LocksInv, FlagInv, StackInv, SemInv, TypeOK, SpinTypeOK, SchedTypeOK, SemTypeOK, place
<1>5. FlagInv'
  BY <1>0 DEF FlagInv, LocksInv, StackInv, TypeOK, SpinTypeOK, SchedTypeOK
<1>6. StackInv'
  BY <1>0 DEF FlagInv, StackInv, ExistInv, TypeOK, SchedTypeOK
<1>7. ExistInv'
  BY <1>0 DEF ExistInv, StackInv, SemInv, TypeOK, SchedTypeOK, SemTypeOK, place
<1>8. SemInv'
  BY <1>0 DEF FlagInv, SemInv, StackInv, place, TypeOK, SchedTypeOK, SemTypeOK
<1>. QED  BY <1>1, <1>2, <1>3, <1>4, <1>5, <1>6, <1>7, <1>8, Zenon DEF TypeOK

\* semaphore_try_lock finds no unit and gives up its semaphore.
LEMMA TryFailedInv ==
  ASSUME IInv, try_failed
  PROVE  IInv'
<1>. USE SchedulerAssumption, SemaphoreAssumption
     DEF IInv, try_failed, mySem, schedUnchanged, At, Goto, spinVars, listVars, stackVars, schedVars, semVars
<1>0. mySem \in Sems /\ mySem \in Locks /\ intd[current_thread] = "none"
  BY AtSemaphore
<1>9. /\ cpu' = cpu /\ intr' = TRUE /\ g_interruptsEnabled' = g_interruptsEnabled
      /\ g_spinLockCount' = 0 /\ lock' = [k \in Locks |-> 0]
  BY <1>0, OutermostUnlock DEF LocksInv, mySem, StackInv, TypeOK, SchedTypeOK
<1>1. SpinTypeOK'
  BY <1>9, <1>0 DEF TypeOK, SpinTypeOK, CpuStates
<1>2. SchedTypeOK'
  BY <1>9, <1>0 DEF TypeOK, SchedTypeOK, ExistInv, StackInv, FlagInv, SemaphoreLabels, Labels
<1>3. SemTypeOK'
  BY <1>9, <1>0 DEF TypeOK, SemTypeOK, SchedTypeOK
<1>4. cpu' # "spinning" /\ LocksInv'
  BY <1>9, <1>0 DEF LocksInv, FlagInv, StackInv, SemInv, TypeOK, SpinTypeOK, SchedTypeOK, SemTypeOK, place
<1>5. FlagInv'
  BY <1>9, <1>0 DEF FlagInv, LocksInv, StackInv, TypeOK, SpinTypeOK, SchedTypeOK
<1>6. StackInv'
  BY <1>9, <1>0 DEF FlagInv, StackInv, ExistInv, TypeOK, SchedTypeOK
<1>7. ExistInv'
  BY <1>9, <1>0 DEF ExistInv, StackInv, SemInv, TypeOK, SchedTypeOK, SemTypeOK, place
<1>8. SemInv'
  BY <1>9, <1>0 DEF FlagInv, SemInv, StackInv, place, TypeOK, SchedTypeOK, SemTypeOK
<1>. QED  BY <1>1, <1>2, <1>3, <1>4, <1>5, <1>6, <1>7, <1>8, Zenon DEF TypeOK

\* semaphore_unlock takes the free lock of its semaphore.
LEMMA SemaphoreUnlockInv ==
  ASSUME IInv, semaphore_unlock
  PROVE  IInv'
<1>. USE SchedulerAssumption, SemaphoreAssumption
     DEF IInv, semaphore_unlock, mySem, schedUnchanged, At, Goto, spinVars, listVars, stackVars, schedVars, semVars
<1>0. mySem \in Sems /\ mySem \in Locks /\ intd[current_thread] = "none"
  BY AtSemaphore
<1>9. /\ cpu' = "running" /\ intr' = FALSE /\ g_interruptsEnabled' = TRUE
      /\ g_spinLockCount' = 1 /\ lock' = [k \in Locks |-> IF k = mySem THEN 1 ELSE 0]
  BY <1>0, OutermostLock
<1>1. SpinTypeOK'
  BY <1>9, <1>0 DEF TypeOK, SpinTypeOK, CpuStates
<1>2. SchedTypeOK'
  BY <1>9, <1>0 DEF TypeOK, SchedTypeOK, ExistInv, StackInv, FlagInv, SemaphoreLabels, Labels
<1>3. SemTypeOK'
  BY <1>9, <1>0 DEF TypeOK, SemTypeOK, SchedTypeOK
<1>4. cpu' # "spinning" /\ LocksInv'
  BY <1>9, <1>0 DEF LocksInv, FlagInv, StackInv, SemInv, TypeOK, SpinTypeOK, SchedTypeOK, SemTypeOK, place
<1>5. FlagInv'
  BY <1>9, <1>0 DEF FlagInv, LocksInv, StackInv, TypeOK, SpinTypeOK, SchedTypeOK
<1>6. StackInv'
  BY <1>9, <1>0 DEF FlagInv, StackInv, ExistInv, TypeOK, SchedTypeOK
<1>7. ExistInv'
  BY <1>9, <1>0 DEF ExistInv, StackInv, SemInv, TypeOK, SchedTypeOK, SemTypeOK, place
<1>8. SemInv'
  BY <1>9, <1>0 DEF FlagInv, SemInv, StackInv, place, TypeOK, SchedTypeOK, SemTypeOK
<1>. QED  BY <1>1, <1>2, <1>3, <1>4, <1>5, <1>6, <1>7, <1>8, Zenon DEF TypeOK

\* semaphore_unlock increments the count.
LEMMA UnlockCountInv ==
  ASSUME IInv, unlock_count
  PROVE  IInv'
<1>. USE SchedulerAssumption, SemaphoreAssumption
     DEF IInv, unlock_count, mySem, schedUnchanged, At, Goto, spinVars, listVars, stackVars, schedVars, semVars
<1>0. mySem \in Sems /\ mySem \in Locks /\ intd[current_thread] = "none"
  BY AtSemaphore
<1>1. SpinTypeOK'
  BY <1>0 DEF TypeOK, SpinTypeOK, CpuStates
<1>2. SchedTypeOK'
  BY <1>0 DEF TypeOK, SchedTypeOK, ExistInv, StackInv, FlagInv, SemaphoreLabels, Labels
<1>3. SemTypeOK'
  BY <1>0 DEF TypeOK, SemTypeOK, SchedTypeOK
<1>4. cpu' # "spinning" /\ LocksInv'
  BY <1>0 DEF LocksInv, FlagInv, StackInv, SemInv, TypeOK, SpinTypeOK, SchedTypeOK, SemTypeOK, place
<1>5. FlagInv'
  BY <1>0 DEF FlagInv, LocksInv, StackInv, TypeOK, SpinTypeOK, SchedTypeOK
<1>6. StackInv'
  BY <1>0 DEF FlagInv, StackInv, ExistInv, TypeOK, SchedTypeOK
<1>7. ExistInv'
  BY <1>0 DEF ExistInv, StackInv, SemInv, TypeOK, SchedTypeOK, SemTypeOK, place
<1>8. SemInv'
  BY <1>0 DEF FlagInv, SemInv, StackInv, place, TypeOK, SchedTypeOK, SemTypeOK
<1>. QED  BY <1>1, <1>2, <1>3, <1>4, <1>5, <1>6, <1>7, <1>8, Zenon DEF TypeOK

\* semaphore_unlock pops a waiter and takes scheduler_lock, free and distinct from
\* the semaphore's own lock: depth 2, interrupts off.
LEMMA UnlockWakeupInv ==
  ASSUME IInv, unlock_wakeup
  PROVE  IInv'
<1>. USE SchedulerAssumption, SemaphoreAssumption
     DEF IInv, unlock_wakeup, mySem, schedUnchanged, At, Goto, spinVars, listVars, stackVars, schedVars, semVars
<1>0. mySem \in Sems /\ mySem \in Locks /\ intd[current_thread] = "none"
  BY AtSemaphore
<1>9. /\ Head(waiters[mySem]) \in Threads /\ Tail(waiters[mySem]) \in Seq(Threads)
      /\ pc[Head(waiters[mySem])] # "none"
  BY <1>0 DEF TypeOK, SemTypeOK, ExistInv
<1>1. SpinTypeOK'
  BY <1>0, SpinLockType DEF TypeOK
<1>2. SchedTypeOK'
  BY <1>0, <1>9 DEF TypeOK, SchedTypeOK, ExistInv, StackInv, FlagInv, SemaphoreLabels, Labels
<1>3. SemTypeOK'
  BY <1>0 DEF TypeOK, SemTypeOK, SchedTypeOK
<1>4. cpu' # "spinning" /\ LocksInv'
  BY <1>0 DEF LocksInv, FlagInv, StackInv, SemInv, TypeOK, SpinTypeOK, SchedTypeOK, SemTypeOK, place, spin_lock
<1>5. FlagInv'
  BY <1>0 DEF FlagInv, LocksInv, StackInv, TypeOK, SpinTypeOK, SchedTypeOK, spin_lock
<1>6. StackInv'
  BY <1>0 DEF FlagInv, StackInv, ExistInv, TypeOK, SchedTypeOK
<1>7. ExistInv'
  BY <1>0, <1>9 DEF ExistInv, StackInv, SemInv, TypeOK, SchedTypeOK, SemTypeOK, place
<1>8. SemInv'
  BY <1>0 DEF FlagInv, SemInv, StackInv, place, TypeOK, SchedTypeOK, SemTypeOK
<1>. QED  BY <1>1, <1>2, <1>3, <1>4, <1>5, <1>6, <1>7, <1>8, Zenon DEF TypeOK

\* semaphore_unlock releases its lock and returns.
LEMMA UnlockReturnInv ==
  ASSUME IInv, unlock_return
  PROVE  IInv'
<1>. USE SchedulerAssumption, SemaphoreAssumption
     DEF IInv, unlock_return, mySem, schedUnchanged, At, Goto, spinVars, listVars, stackVars, schedVars, semVars
<1>0. mySem \in Sems /\ mySem \in Locks /\ intd[current_thread] = "none"
  BY AtSemaphore
<1>9. /\ cpu' = cpu /\ intr' = TRUE /\ g_interruptsEnabled' = g_interruptsEnabled
      /\ g_spinLockCount' = 0 /\ lock' = [k \in Locks |-> 0]
  BY <1>0, OutermostUnlock DEF LocksInv, mySem, StackInv, TypeOK, SchedTypeOK
<1>1. SpinTypeOK'
  BY <1>9, <1>0 DEF TypeOK, SpinTypeOK, CpuStates
<1>2. SchedTypeOK'
  BY <1>9, <1>0 DEF TypeOK, SchedTypeOK, ExistInv, StackInv, FlagInv, SemaphoreLabels, Labels
<1>3. SemTypeOK'
  BY <1>9, <1>0 DEF TypeOK, SemTypeOK, SchedTypeOK
<1>4. cpu' # "spinning" /\ LocksInv'
  BY <1>9, <1>0 DEF LocksInv, FlagInv, StackInv, SemInv, TypeOK, SpinTypeOK, SchedTypeOK, SemTypeOK, place
<1>5. FlagInv'
  BY <1>9, <1>0 DEF FlagInv, LocksInv, StackInv, TypeOK, SpinTypeOK, SchedTypeOK
<1>6. StackInv'
  BY <1>9, <1>0 DEF FlagInv, StackInv, ExistInv, TypeOK, SchedTypeOK
<1>7. ExistInv'
  BY <1>9, <1>0 DEF ExistInv, StackInv, SemInv, TypeOK, SchedTypeOK, SemTypeOK, place
<1>8. SemInv'
  BY <1>9, <1>0 DEF FlagInv, SemInv, StackInv, place, TypeOK, SchedTypeOK, SemTypeOK
<1>. QED  BY <1>1, <1>2, <1>3, <1>4, <1>5, <1>6, <1>7, <1>8, Zenon DEF TypeOK

\* The invariant holds when kernel_main has initialised everything.
LEMMA InitInv ==
  Init => IInv
<1>. SUFFICES ASSUME Init PROVE IInv
  OBVIOUS
<1>. USE SchedulerAssumption, SemaphoreAssumption
     DEF Init, SpinInit, thread_init, semaphore_init, IInv
<1>1. TypeOK
  <2>1. SpinTypeOK
    BY DEF SpinTypeOK, CpuStates
  <2>2. SchedTypeOK
    <3>1. /\ state \in [Threads -> {"none", "RUNNING", "READY", "SUSPENDED"}]
          /\ pc \in [Threads -> Labels]
          /\ intd \in [Threads -> {"none"} \cup InterruptibleLabels]
          /\ ret \in [Threads -> ClientLabels]
      BY DEF Labels
    <3>2. saved \in [Threads -> BOOLEAN] /\ irq0_masked \in BOOLEAN
      BY Zenon
    <3>. QED  BY <3>1, <3>2 DEF SchedTypeOK
  <2>3. SemTypeOK
    BY DEF SemTypeOK, mutex_init
  <2>. QED  BY <2>1, <2>2, <2>3 DEF TypeOK
<1>2. cpu # "spinning" /\ LocksInv /\ FlagInv
  BY DEF LocksInv, FlagInv
<1>3. StackInv /\ ExistInv /\ SemInv
  BY DEF StackInv, ExistInv, SemInv, place
<1>. QED  BY <1>1, <1>2, <1>3

\* Every step preserves it: one lemma per action.
LEMMA NextInv ==
  IInv /\ [Next]_vars => IInv'
<1>. SUFFICES ASSUME IInv, [Next]_vars PROVE IInv'
  OBVIOUS
<1>1. CASE UNCHANGED vars
  BY <1>1 DEF vars, IInv, TypeOK, SpinTypeOK, SchedTypeOK, SemTypeOK, LocksInv, FlagInv,
              StackInv, ExistInv, SemInv, place, spinVars, schedVars, listVars, stackVars, semVars
<1>2. CASE Tick
  BY <1>2, TimerInterruptInv DEF Tick
<1>3. ASSUME NEW t \in Threads, current_thread = t, Client
      PROVE  IInv'
  <2>1. ASSUME NEW child \in Threads, create(child) PROVE IInv'
    BY <2>1, ThreadCreateInv DEF create
  <2>2. CASE yield
    BY <2>2, YieldInv
  <2>3. ASSUME NEW s \in Sems, lock_sem(s) PROVE IInv'
    BY <2>3, SemaphoreLockInv DEF lock_sem
  <2>4. ASSUME NEW s \in Sems, try_lock_sem(s) PROVE IInv'
    BY <2>4, SemaphoreTryLockInv DEF try_lock_sem
  <2>5. CASE exit
    BY <2>5, ThreadExitInv DEF exit
  <2>. QED  BY <1>3, <2>1, <2>2, <2>3, <2>4, <2>5 DEF Client
<1>4. CASE SchedulerStep
  BY <1>4, TimerCallbackInv, YieldBodyInv, SwitchedInv, YieldDoneInv, IrqExitInv,
     WakeupBodyInv, WakeupDoneInv, CreateBodyInv, CreateDoneInv, ThreadEntryInv,
     ThreadEntryReturnInv DEF SchedulerStep
<1>5. CASE SemaphoreStep
  BY <1>5, LockGotInv, LockReturnInv, LockBlockInv, LockBlockUnlockInv, LockYieldInv,
     TryGotInv, TryFailedInv, SemaphoreUnlockInv, UnlockCountInv, UnlockWakeupInv,
     UnlockReturnInv DEF SemaphoreStep
<1>. QED  BY <1>1, <1>2, <1>3, <1>4, <1>5 DEF Next, Step

\* The inductive invariant holds in every state of every run.
THEOREM Invariance == Spec => []IInv
<1>. QED  BY InitInv, NextInv, PTL DEF Spec

\* Every variable of the spin locks, the scheduler and the semaphores keeps its type.
THEOREM TypeCorrect == Spec => []TypeOK
<1>1. IInv => TypeOK
  BY DEF IInv
<1>. QED  BY <1>1, Invariance, PTL

\* spin_lock never waits: whatever the interleaving of threads and timer, a spin
\* lock is free when it is asked for.
THEOREM SpinFree == Spec => []NeverSpins
<1>1. IInv => NeverSpins
  BY DEF IInv, NeverSpins
<1>. QED  BY <1>1, Invariance, PTL

\* g_spinLockCount is the number of spin locks held, and none is held with
\* interrupts on.
THEOREM SpinDisciplined == Spec => []SpinDiscipline
<1>1. ASSUME IInv PROVE SpinDiscipline
  <2>. DEFINE at == pc[current_thread]
              held == {l \in Locks : lock[l] = 1}
  <2>. USE SchedulerAssumption, SemaphoreAssumption
  <2>1. g_spinLockCount > 0 => ~intr
    BY <1>1 DEF IInv, LocksInv, FlagInv
  <2>2. CASE at \in SemLockLabels
    <3>1. mySem \in Sems
      BY <1>1, <2>2, AtSemaphore
    <3>2. CASE at \in WakeupLabels
      <4>1. held = {scheduler_lock, mySem} /\ g_spinLockCount = 2
        BY <1>1, <2>2, <3>1, <3>2 DEF IInv, LocksInv, mySem
      <4>2. Cardinality({scheduler_lock, mySem}) = 2
        <5>1. {scheduler_lock, mySem} = {mySem} \cup {scheduler_lock} /\ scheduler_lock \notin {mySem}
          BY <3>1
        <5>2. IsFiniteSet({mySem}) /\ Cardinality({mySem}) = 1
          BY FS_Singleton, Zenon
        <5>3. Cardinality({mySem} \cup {scheduler_lock}) = Cardinality({mySem}) + 1
          BY <5>1, <5>2, FS_AddElement
        <5>. QED  BY <5>1, <5>2, <5>3
      <4>. QED  BY <2>1, <4>1, <4>2 DEF SpinDiscipline
    <3>3. CASE at \notin WakeupLabels
      <4>1. held = {mySem} /\ g_spinLockCount = 1
        BY <1>1, <2>2, <3>1, <3>3 DEF IInv, LocksInv, mySem
      <4>. QED  BY <2>1, <4>1, FS_Singleton DEF SpinDiscipline
    <3>. QED  BY <3>2, <3>3
  <2>3. CASE at \in SchedulerLockLabels \ SemLockLabels
    <3>1. held = {scheduler_lock} /\ g_spinLockCount = 1
      BY <1>1, <2>3 DEF IInv, LocksInv
    <3>. QED  BY <2>1, <3>1, FS_Singleton DEF SpinDiscipline
  <2>4. CASE at \notin SchedulerLockLabels \cup SemLockLabels
    <3>1. held = {} /\ g_spinLockCount = 0
      BY <1>1, <2>4 DEF IInv, LocksInv
    <3>. QED  BY <2>1, <3>1, FS_EmptySet DEF SpinDiscipline
  <2>. QED  BY <2>2, <2>3, <2>4
<1>. QED  BY <1>1, Invariance, PTL

\* A thread that returns from a semaphore, from thread_yield or from its first
\* switch finds interrupts as it left them, and a handler never runs with them on.
THEOREM FlagPreserved == Spec => []InterruptFlag
<1>1. IInv => InterruptFlag
  BY DEF IInv, InterruptFlag, FlagInv, StackInv, TypeOK, SchedTypeOK
<1>. QED  BY <1>1, Invariance, PTL
-----------------------------------------------------------------------------
(***************************************************************************)
(* Who is on which list, who waits and who owns.                           *)
(*                                                                         *)
(* That units are conserved rests on the scheduler's lists: a waiter       *)
(* becomes an owner when it is popped, and returns into its critical       *)
(* section when it runs again, so it must never run while it is queued.    *)
(* It does not because it runs only off ready_list, whose threads are      *)
(* READY, and because a queued thread is SUSPENDED.                        *)
(***************************************************************************)
OnList(list, t) == \E i \in DOMAIN list : list[i] = t

\* The two arguments under way: of thread_create before its list_append, and of
\* thread_wakeup before it changes the thread's state.
beingCreated(t) == pc[current_thread] = "create_body" /\ thread[current_thread] = t
beingWoken(t) == pc[current_thread] = "wakeup_body" /\ thread[current_thread] = t

\* Every thread is on the list its state says, once.
ListInv ==
  /\ IsInjective(ready_list) /\ IsInjective(suspended_list)
  /\ \A t \in Threads :
       /\ OnList(ready_list, t) <=> state[t] = "READY" /\ ~beingCreated(t)
       /\ OnList(suspended_list, t) <=> state[t] = "SUSPENDED" /\ t # current_thread
       /\ state[t] = "RUNNING" => t = current_thread
       /\ beingCreated(t) => state[t] = "READY"

\* The current thread runs, or is on its way from semaphore_lock to the switch.
CurrentInv ==
  /\ state[current_thread] \in {"RUNNING", "SUSPENDED"}
  /\ state[current_thread] = "SUSPENDED" =>
       /\ pc[current_thread] \in {"lock_block", "gap", "timer_callback", "yield_body"}
       /\ inSemaphoreLock(current_thread)

\* A thread waits for one semaphore, once, suspended inside semaphore_lock, and a
\* suspended thread waits or is the one being woken up.
WaiterInv ==
  /\ \A s \in Sems :
       /\ IsInjective(waiters[s])
       /\ waiters[s] # <<>> => count[s] = 0
       /\ \A t \in Threads :
            Queued(t, s) => /\ sem[t] = s
                            /\ inSemaphoreLock(t)
                            /\ state[t] = "SUSPENDED"
                            /\ ~beingWoken(t)
  /\ \A t \in Threads :
       /\ state[t] = "SUSPENDED" =>
            \/ blocker[t] \in Sems /\ Queued(t, blocker[t])
            \/ beingWoken(t)
       /\ beingWoken(t) => state[t] = "SUSPENDED"

UnitsInv ==
  \A s \in Sems :
    /\ IsFiniteSet(Owners(s))
    /\ count[s] + Cardinality(Owners(s)) = InitialUnits(s)

QInv == ListInv /\ CurrentInv /\ WaiterInv

\* No unit moves and nobody queues or is popped.
UnitsStay ==
  /\ UNCHANGED <<count, waiters>>
  /\ \A s \in Sems : Owners(s)' = Owners(s)
-----------------------------------------------------------------------------
(***************************************************************************)
(* The list operations of thread.c and semaphore.c.                        *)
(***************************************************************************)
\* Appending a thread puts it on the list, and once if it was not there.
LEMMA AppendOnce ==
  ASSUME NEW S, NEW list \in Seq(S), NEW x \in S
  PROVE  /\ \A u \in S : OnList(Append(list, x), u) <=> OnList(list, u) \/ u = x
         /\ IsInjective(list) /\ ~OnList(list, x) => IsInjective(Append(list, x))
<1>1. /\ DOMAIN list = 1..Len(list) /\ DOMAIN Append(list, x) = 1..(Len(list) + 1)
      /\ Len(list) \in Nat
      /\ \A i \in 1..Len(list) : Append(list, x)[i] = list[i]
      /\ Append(list, x)[Len(list) + 1] = x
  OBVIOUS
<1>2. ASSUME NEW u \in S PROVE OnList(Append(list, x), u) <=> OnList(list, u) \/ u = x
  BY <1>1 DEF OnList
<1>3. ASSUME IsInjective(list), ~OnList(list, x) PROVE IsInjective(Append(list, x))
  <2>. SUFFICES ASSUME NEW i \in 1..(Len(list) + 1), NEW j \in 1..(Len(list) + 1),
                       Append(list, x)[i] = Append(list, x)[j]
                PROVE  i = j
    BY <1>1 DEF IsInjective
  <2>1. CASE i \in 1..Len(list) /\ j \in 1..Len(list)
    BY <1>1, <1>3, <2>1 DEF IsInjective
  <2>2. CASE i = Len(list) + 1 \/ j = Len(list) + 1
    BY <1>1, <1>3, <2>2 DEF OnList
  <2>. QED  BY <1>1, <2>1, <2>2
<1>. QED  BY <1>2, <1>3

\* Popping the head of a list without repetitions takes it off the list.
LEMMA TailOnce ==
  ASSUME NEW S, NEW list \in Seq(S), list # <<>>, IsInjective(list)
  PROVE  /\ OnList(list, Head(list))
         /\ \A u \in S : OnList(Tail(list), u) <=> OnList(list, u) /\ u # Head(list)
         /\ IsInjective(Tail(list))
<1>1. /\ Len(list) \in Nat \ {0} /\ DOMAIN list = 1..Len(list) /\ Head(list) = list[1]
      /\ DOMAIN Tail(list) = 1..(Len(list) - 1)
      /\ \A i \in 1..(Len(list) - 1) : Tail(list)[i] = list[i + 1]
  BY HeadTailProperties, EmptySeq
<1>2. \A i, j \in 1..Len(list) : list[i] = list[j] => i = j
  BY <1>1 DEF IsInjective
<1>3. OnList(list, Head(list))
  BY <1>1 DEF OnList
<1>4. ASSUME NEW u \in S PROVE OnList(Tail(list), u) <=> OnList(list, u) /\ u # Head(list)
  <2>1. ASSUME NEW i \in 1..(Len(list) - 1), Tail(list)[i] = u
        PROVE  OnList(list, u) /\ u # Head(list)
    <3>1. i + 1 \in 1..Len(list) /\ i + 1 # 1 /\ list[i + 1] = u /\ 1 \in 1..Len(list)
      BY <1>1, <2>1
    <3>. QED  BY <1>1, <1>2, <3>1 DEF OnList
  <2>2. ASSUME NEW i \in 1..Len(list), list[i] = u, u # Head(list)
        PROVE  OnList(Tail(list), u)
    <3>1. i - 1 \in 1..(Len(list) - 1) /\ Tail(list)[i - 1] = u
      BY <1>1, <2>2
    <3>. QED  BY <1>1, <3>1 DEF OnList
  <2>. QED  BY <1>1, <2>1, <2>2 DEF OnList
<1>5. IsInjective(Tail(list))
  <2>. SUFFICES ASSUME NEW i \in 1..(Len(list) - 1), NEW j \in 1..(Len(list) - 1),
                       Tail(list)[i] = Tail(list)[j]
                PROVE  i = j
    BY <1>1 DEF IsInjective
  <2>1. i + 1 \in 1..Len(list) /\ j + 1 \in 1..Len(list) /\ list[i + 1] = list[j + 1]
    BY <1>1
  <2>. QED  BY <1>2, <2>1
<1>. QED  BY <1>3, <1>4, <1>5

\* list_remove leaves out the one place of a thread on a list without repetitions.
LEMMA RemoveCuts ==
  ASSUME NEW S, NEW list \in Seq(S), IsInjective(list), NEW k \in 1..Len(list)
  PROVE  list_remove(list, list[k]) =
           [i \in 1..(Len(list) - 1) |-> IF i < k THEN list[i] ELSE list[i + 1]]
<1>1. Len(list) \in Nat /\ DOMAIN list = 1..Len(list)
  OBVIOUS
<1>2. \A i, j \in 1..Len(list) : list[i] = list[j] => i = j
  BY <1>1 DEF IsInjective
<1>3. ASSUME NEW i \in 1..(Len(list) - 1) PROVE (\E j \in 1..i : list[j] = list[k]) <=> i >= k
  BY <1>1, <1>2
<1>4. list_remove(list, list[k]) = [i \in 1..(Len(list) - 1) |->
         IF \E j \in 1..i : list[j] = list[k] THEN list[i + 1] ELSE list[i]]
  BY <1>1, Zenon DEF list_remove
<1>5. \A i \in 1..(Len(list) - 1) : ~(i < k) <=> i >= k
  BY <1>1
<1>. QED  BY <1>3, <1>4, <1>5

\* list_remove takes a thread off a list without repetitions and leaves the rest.
LEMMA RemoveOnce ==
  ASSUME NEW S, NEW list \in Seq(S), NEW t \in S, IsInjective(list)
  PROVE  /\ \A u \in S : OnList(list_remove(list, t), u) <=> OnList(list, u) /\ u # t
         /\ IsInjective(list_remove(list, t))
<1>0. Len(list) \in Nat /\ DOMAIN list = 1..Len(list)
  OBVIOUS
<1>1. CASE ~OnList(list, t)
  BY <1>1 DEF OnList, list_remove
<1>2. CASE OnList(list, t)
  <2>1. PICK k \in 1..Len(list) : list[k] = t
    BY <1>0, <1>2 DEF OnList
  <2>2. \A i, j \in 1..Len(list) : list[i] = list[j] => i = j
    BY <1>0 DEF IsInjective
  <2>. DEFINE rest == [i \in 1..(Len(list) - 1) |-> IF i < k THEN list[i] ELSE list[i + 1]]
  <2>3. list_remove(list, t) = rest
    BY <2>1, RemoveCuts
  <2>4. ASSUME NEW u \in S PROVE OnList(rest, u) <=> OnList(list, u) /\ u # t
    <3>1. ASSUME NEW i \in 1..(Len(list) - 1), rest[i] = u PROVE OnList(list, u) /\ u # t
      <4>1. CASE i < k
        BY <1>0, <2>1, <2>2, <3>1, <4>1 DEF OnList
      <4>2. CASE i >= k
        <5>1. i + 1 \in 1..Len(list) /\ i + 1 # k /\ list[i + 1] = u
          BY <1>0, <3>1, <4>2
        <5>. QED  BY <1>0, <2>1, <2>2, <5>1 DEF OnList
      <4>. QED  BY <1>0, <4>1, <4>2
    <3>2. ASSUME NEW i \in 1..Len(list), list[i] = u, u # t PROVE OnList(rest, u)
      <4>1. CASE i < k
        <5>1. i \in 1..(Len(list) - 1) /\ rest[i] = u
          BY <1>0, <3>2, <4>1
        <5>. QED  BY <5>1 DEF OnList
      <4>2. CASE i > k
        <5>1. i - 1 \in 1..(Len(list) - 1) /\ rest[i - 1] = u
          BY <1>0, <3>2, <4>2
        <5>. QED  BY <5>1 DEF OnList
      <4>. QED  BY <1>0, <2>1, <3>2, <4>1, <4>2
    <3>. QED  BY <1>0, <3>1, <3>2 DEF OnList
  <2>5. IsInjective(rest)
    <3>. SUFFICES ASSUME NEW i \in 1..(Len(list) - 1), NEW j \in 1..(Len(list) - 1),
                         rest[i] = rest[j]
                  PROVE  i = j
      BY DEF IsInjective
    <3>. DEFINE at(n) == IF n < k THEN n ELSE n + 1
    <3>1. at(i) \in 1..Len(list) /\ at(j) \in 1..Len(list)
      BY <1>0
    <3>2. list[at(i)] = list[at(j)]
      OBVIOUS
    <3>3. at(i) = at(j)
      <4>. HIDE DEF at
      <4>. QED  BY <2>2, <3>1, <3>2
    <3>. QED  BY <1>0, <3>3
  <2>. HIDE DEF rest
  <2>. QED  BY <2>3, <2>4, <2>5
<1>. QED  BY <1>1, <1>2
-----------------------------------------------------------------------------
USE DEF YieldLabels, WakeupLabels, CreateLabels, HandlerLabels, ClientLabels, EntryLabels,
        InterruptibleLabels, SchedulerLockLabels, SemLockLabels

(***************************************************************************)
(* Most steps touch neither the lists nor the units.  cur is the thread    *)
(* that executes, before and after the step.                               *)
(***************************************************************************)
SuspendedLabels == {"lock_block", "gap", "timer_callback", "yield_body"}

\* What a step of the current thread leaves alone: every other thread.
OthersUnchanged ==
  \A t \in Threads \ {current_thread} :
    pc'[t] = pc[t] /\ intd'[t] = intd[t] /\ ret'[t] = ret[t] /\ sem'[t] = sem[t]

\* A step that changes no list, no state and no queue keeps everybody in place, if
\* a current thread that is suspended stays inside semaphore_lock.
LEMMA QuietStep ==
  ASSUME IInv, QInv, OthersUnchanged, UNCHANGED <<listVars, waiters>>,
         \A s \in Sems : waiters[s] # <<>> => count'[s] = count[s],
         pc[current_thread] \notin {"create_body", "wakeup_body"},
         pc'[current_thread] \notin {"create_body", "wakeup_body"},
         NEW cur \in Threads, cur = current_thread,
         state[cur] = "SUSPENDED" =>
           pc'[cur] \in SuspendedLabels /\ inSemaphoreLock(cur)' /\ sem'[cur] = sem[cur]
  PROVE  QInv'
<1>. USE DEF listVars, IInv, QInv
<1>1. ListInv'
  BY DEF ListInv, OnList, beingCreated
<1>2. CurrentInv'
  BY DEF CurrentInv, SuspendedLabels
<1>3. \A t \in Threads : ~beingWoken(t) /\ ~beingWoken(t)'
  BY DEF beingWoken
<1>4. ASSUME NEW t \in Threads, state[t] = "SUSPENDED", inSemaphoreLock(t)
      PROVE  inSemaphoreLock(t)' /\ sem'[t] = sem[t]
  <2>1. CASE t = cur
    BY <1>4, <2>1
  <2>2. CASE t # cur
    BY <1>4, <2>2 DEF OthersUnchanged, inSemaphoreLock, place
  <2>. QED  BY <2>1, <2>2
<1>5. \A t \in Threads, s \in Sems : Queued(t, s)' <=> Queued(t, s)
  BY DEF Queued
<1>6. WaiterInv'
  <2>1. ASSUME NEW s \in Sems
        PROVE  IsInjective(waiters[s])' /\ (waiters[s] # <<>> => count[s] = 0)'
    BY DEF WaiterInv
  <2>2. ASSUME NEW s \in Sems, NEW t \in Threads, Queued(t, s)'
        PROVE  (sem[t] = s /\ inSemaphoreLock(t) /\ state[t] = "SUSPENDED" /\ ~beingWoken(t))'
    BY <1>3, <1>4, <1>5, <2>2 DEF WaiterInv
  <2>3. ASSUME NEW t \in Threads, (state[t] = "SUSPENDED")'
        PROVE  (blocker[t] \in Sems /\ Queued(t, blocker[t]))'
    BY <1>3, <2>3 DEF WaiterInv, Queued
  <2>. QED  BY <1>3, <2>1, <2>2, <2>3 DEF WaiterInv
<1>. QED  BY <1>1, <1>2, <1>6

\* Units stay conserved when nobody becomes or ceases to be an owner.
LEMMA OwnersStep ==
  ASSUME UnitsInv, UNCHANGED count,
         \A t \in Threads, s \in Sems : Owns(t, s)' <=> Owns(t, s)
  PROVE  UnitsInv' /\ \A s \in Sems : Owners(s)' = Owners(s)
<1>1. \A s \in Sems : Owners(s)' = Owners(s)
  BY DEF Owners
<1>. QED  BY <1>1 DEF UnitsInv, InitialUnits

\* The same when only the current thread moves and no queue changes.
LEMMA QuietOwners ==
  ASSUME IInv, UnitsInv, OthersUnchanged, UNCHANGED <<count, waiters>>,
         NEW cur \in Threads, cur = current_thread,
         \A s \in Sems : Owns(cur, s)' <=> Owns(cur, s)
  PROVE  UnitsInv' /\ UnitsStay
<1>1. ASSUME NEW t \in Threads, NEW s \in Sems PROVE Owns(t, s)' <=> Owns(t, s)
  <2>1. CASE t = cur
    BY <2>1
  <2>2. CASE t # cur
    BY <2>2 DEF OthersUnchanged, Owns, Queued, inSemaphoreLock, place
  <2>. QED  BY <2>1, <2>2
<1>. QED  BY <1>1, OwnersStep DEF UnitsStay

\* Where the current thread stands, and how the timer left it: what every action
\* needs of the invariant of KernelProofs.
LEMMA CurrentFacts ==
  ASSUME IInv
  PROVE  /\ current_thread \in Threads
         /\ pc \in [Threads -> Labels]
         /\ intd \in [Threads -> {"none"} \cup InterruptibleLabels]
         /\ ret \in [Threads -> ClientLabels]
         /\ sem \in [Threads -> Sems \cup {NULL}]
         /\ intd[current_thread] # "none" => pc[current_thread] \in YieldLabels \cup HandlerLabels
         /\ pc[current_thread] \in HandlerLabels => intd[current_thread] # "none"
         /\ ret[current_thread] = "cs" => place(current_thread) \in YieldLabels
         /\ intr => pc[current_thread] \in InterruptibleLabels
BY DEF IInv, TypeOK, SchedTypeOK, SemTypeOK, StackInv, FlagInv, SemInv

\* The timer interrupt: the thread stays where it is behind its handler.
LEMMA TimerInterruptQ ==
  ASSUME IInv, QInv, UnitsInv, NEW cur \in Threads, cur = current_thread,
         timer_interrupt, UNCHANGED semVars
  PROVE  QInv' /\ UnitsInv' /\ UnitsStay
<1>1. OthersUnchanged /\ UNCHANGED <<listVars, count, waiters, ret, sem>>
      /\ pc'[cur] = "timer_callback" /\ intd'[cur] = pc[cur]
  BY CurrentFacts DEF timer_interrupt, Goto, OthersUnchanged, semVars, listVars
<1>2. intd[cur] = "none" /\ pc[cur] \in InterruptibleLabels
  BY CurrentFacts DEF timer_interrupt
<1>3. inSemaphoreLock(cur)' <=> inSemaphoreLock(cur)
  BY <1>1, <1>2 DEF inSemaphoreLock, place
<1>4. \A s \in Sems : Owns(cur, s)' <=> Owns(cur, s)
  BY <1>1, <1>2, <1>3 DEF Owns, Queued, place
<1>5. QInv'
  BY <1>1, <1>2, <1>3, QuietStep DEF QInv, CurrentInv, SuspendedLabels
<1>. QED  BY <1>1, <1>4, <1>5, QuietOwners

\* timer_callback calls thread_yield.
LEMMA TimerCallbackQ ==
  ASSUME IInv, QInv, UnitsInv, NEW cur \in Threads, cur = current_thread,
         timer_callback, UNCHANGED semVars
  PROVE  QInv' /\ UnitsInv' /\ UnitsStay
<1>1. OthersUnchanged /\ UNCHANGED <<listVars, count, waiters, ret, intd, sem>>
      /\ pc[cur] = "timer_callback" /\ pc'[cur] = "yield_body"
  BY CurrentFacts DEF timer_callback, At, Goto, OthersUnchanged, semVars, listVars, stackVars
<1>2. intd[cur] # "none"
  BY <1>1, CurrentFacts
<1>3. inSemaphoreLock(cur)' <=> inSemaphoreLock(cur)
  BY <1>1, <1>2 DEF inSemaphoreLock, place
<1>4. \A s \in Sems : Owns(cur, s)' <=> Owns(cur, s)
  BY <1>1, <1>2, <1>3 DEF Owns, Queued, place
<1>5. QInv'
  BY <1>1, <1>2, <1>3, QuietStep DEF QInv, CurrentInv, SuspendedLabels
<1>. QED  BY <1>1, <1>4, <1>5, QuietOwners

\* A client's thread_yield holds no unit.
LEMMA YieldQ ==
  ASSUME IInv, QInv, UnitsInv, NEW cur \in Threads, cur = current_thread,
         yield
  PROVE  QInv' /\ UnitsInv' /\ UnitsStay
<1>1. OthersUnchanged /\ UNCHANGED <<listVars, count, waiters, intd, sem>>
      /\ pc[cur] = "run" /\ pc'[cur] = "yield_body" /\ ret'[cur] = "run"
  BY CurrentFacts DEF yield, thread_yield, At, Goto, OthersUnchanged, semVars, listVars, stackVars
<1>2. intd[cur] = "none"
  BY <1>1, CurrentFacts
<1>3. state[cur] # "SUSPENDED"
  BY <1>1 DEF QInv, CurrentInv
<1>4. \A s \in Sems : Owns(cur, s)' <=> Owns(cur, s)
  BY <1>1, <1>2, CurrentFacts DEF Owns, Queued, inSemaphoreLock, place
<1>5. QInv'
  BY <1>1, <1>3, QuietStep
<1>. QED  BY <1>1, <1>4, <1>5, QuietOwners

\* thread_wakeup returns: its caller gave its unit away before.
LEMMA WakeupDoneQ ==
  ASSUME IInv, QInv, UnitsInv, NEW cur \in Threads, cur = current_thread,
         wakeup_done, UNCHANGED semVars
  PROVE  QInv' /\ UnitsInv' /\ UnitsStay
<1>1. OthersUnchanged /\ UNCHANGED <<listVars, count, waiters, ret, intd, sem>>
      /\ pc[cur] = "wakeup_done" /\ pc'[cur] = "unlock_done"
  BY CurrentFacts DEF wakeup_done, At, Goto, OthersUnchanged, semVars, listVars, stackVars
<1>2. intd[cur] = "none"
  BY <1>1, CurrentFacts
<1>3. state[cur] # "SUSPENDED"
  BY <1>1 DEF QInv, CurrentInv
<1>4. \A s \in Sems : Owns(cur, s)' <=> Owns(cur, s)
  BY <1>1, <1>2, CurrentFacts DEF Owns, Queued, inSemaphoreLock, place
<1>5. QInv'
  BY <1>1, <1>3, QuietStep
<1>. QED  BY <1>1, <1>4, <1>5, QuietOwners

\* thread_create returns.
LEMMA CreateDoneQ ==
  ASSUME IInv, QInv, UnitsInv, NEW cur \in Threads, cur = current_thread,
         create_done, UNCHANGED semVars
  PROVE  QInv' /\ UnitsInv' /\ UnitsStay
<1>1. OthersUnchanged /\ UNCHANGED <<listVars, count, waiters, ret, intd, sem>>
      /\ pc[cur] = "create_done" /\ pc'[cur] = "run"
  BY CurrentFacts DEF create_done, At, Goto, OthersUnchanged, semVars, listVars, stackVars
<1>2. intd[cur] = "none"
  BY <1>1, CurrentFacts
<1>3. state[cur] # "SUSPENDED"
  BY <1>1 DEF QInv, CurrentInv
<1>4. \A s \in Sems : Owns(cur, s)' <=> Owns(cur, s)
  BY <1>1, <1>2, CurrentFacts DEF Owns, Queued, inSemaphoreLock, place
<1>5. QInv'
  BY <1>1, <1>3, QuietStep
<1>. QED  BY <1>1, <1>4, <1>5, QuietOwners

\* A new thread owns nothing when it starts ...
LEMMA ThreadEntryQ ==
  ASSUME IInv, QInv, UnitsInv, NEW cur \in Threads, cur = current_thread,
         thread_entry, UNCHANGED semVars
  PROVE  QInv' /\ UnitsInv' /\ UnitsStay
<1>1. OthersUnchanged /\ UNCHANGED <<listVars, count, waiters, ret, intd, sem>>
      /\ pc[cur] = "entry" /\ pc'[cur] = "entry_pic"
  BY CurrentFacts DEF thread_entry, At, Goto, OthersUnchanged, semVars, listVars, stackVars
<1>2. intd[cur] = "none"
  BY <1>1, CurrentFacts
<1>3. state[cur] # "SUSPENDED"
  BY <1>1 DEF QInv, CurrentInv
<1>4. \A s \in Sems : Owns(cur, s)' <=> Owns(cur, s)
  BY <1>1, <1>2, CurrentFacts DEF Owns, Queued, inSemaphoreLock, place
<1>5. QInv'
  BY <1>1, <1>3, QuietStep
<1>. QED  BY <1>1, <1>4, <1>5, QuietOwners

\* ... and when it reaches its thread function.
LEMMA ThreadEntryReturnQ ==
  ASSUME IInv, QInv, UnitsInv, NEW cur \in Threads, cur = current_thread,
         thread_entry_return, UNCHANGED semVars
  PROVE  QInv' /\ UnitsInv' /\ UnitsStay
<1>1. OthersUnchanged /\ UNCHANGED <<listVars, count, waiters, ret, intd, sem>>
      /\ pc[cur] = "entry_pic" /\ pc'[cur] = "run"
  BY CurrentFacts DEF thread_entry_return, At, Goto, OthersUnchanged, semVars, listVars, stackVars
<1>2. intd[cur] = "none"
  BY <1>1, CurrentFacts
<1>3. state[cur] # "SUSPENDED"
  BY <1>1 DEF QInv, CurrentInv
<1>4. \A s \in Sems : Owns(cur, s)' <=> Owns(cur, s)
  BY <1>1, <1>2, CurrentFacts DEF Owns, Queued, inSemaphoreLock, place
<1>5. QInv'
  BY <1>1, <1>3, QuietStep
<1>. QED  BY <1>1, <1>4, <1>5, QuietOwners

\* thread_exit moves nobody.
LEMMA ThreadExitQ ==
  ASSUME IInv, QInv, UnitsInv, NEW cur \in Threads, cur = current_thread,
         thread_exit, UNCHANGED semVars
  PROVE  QInv' /\ UnitsInv' /\ UnitsStay
<1>1. OthersUnchanged /\ UNCHANGED <<listVars, count, waiters, ret, intd, sem>>
      /\ pc[cur] = "run" /\ pc'[cur] = "run"
  BY CurrentFacts DEF thread_exit, schedVars, At, Goto, OthersUnchanged, semVars, listVars, stackVars
<1>2. intd[cur] = "none"
  BY <1>1, CurrentFacts
<1>3. state[cur] # "SUSPENDED"
  BY <1>1 DEF QInv, CurrentInv
<1>4. \A s \in Sems : Owns(cur, s)' <=> Owns(cur, s)
  BY <1>1, <1>2, CurrentFacts DEF Owns, Queued, inSemaphoreLock, place
<1>5. QInv'
  BY <1>1, <1>3, QuietStep
<1>. QED  BY <1>1, <1>4, <1>5, QuietOwners

\* semaphore_lock owns nothing before it looks at the count.
LEMMA SemaphoreLockQ ==
  ASSUME IInv, QInv, UnitsInv, NEW cur \in Threads, cur = current_thread,
         NEW s \in Sems, semaphore_lock(s)
  PROVE  QInv' /\ UnitsInv' /\ UnitsStay
<1>1. OthersUnchanged /\ UNCHANGED <<listVars, count, waiters, ret, intd>>
      /\ pc[cur] = "run" /\ pc'[cur] = "lock_body"
  BY CurrentFacts DEF semaphore_lock, schedUnchanged, At, Goto, OthersUnchanged, semVars, listVars, stackVars
<1>2. intd[cur] = "none"
  BY <1>1, CurrentFacts
<1>3. state[cur] # "SUSPENDED"
  BY <1>1 DEF QInv, CurrentInv
<1>4. \A k \in Sems : Owns(cur, k)' <=> Owns(cur, k)
  BY <1>1, <1>2, CurrentFacts DEF Owns, Queued, inSemaphoreLock, place
<1>5. QInv'
  BY <1>1, <1>3, QuietStep
<1>. QED  BY <1>1, <1>4, <1>5, QuietOwners

\* semaphore_try_lock owns nothing before it looks at the count.
LEMMA SemaphoreTryLockQ ==
  ASSUME IInv, QInv, UnitsInv, NEW cur \in Threads, cur = current_thread,
         NEW s \in Sems, semaphore_try_lock(s)
  PROVE  QInv' /\ UnitsInv' /\ UnitsStay
<1>1. OthersUnchanged /\ UNCHANGED <<listVars, count, waiters, ret, intd>>
      /\ pc[cur] = "run" /\ pc'[cur] = "try_body"
  BY CurrentFacts DEF semaphore_try_lock, schedUnchanged, At, Goto, OthersUnchanged, semVars, listVars, stackVars
<1>2. intd[cur] = "none"
  BY <1>1, CurrentFacts
<1>3. state[cur] # "SUSPENDED"
  BY <1>1 DEF QInv, CurrentInv
<1>4. \A k \in Sems : Owns(cur, k)' <=> Owns(cur, k)
  BY <1>1, <1>2, CurrentFacts DEF Owns, Queued, inSemaphoreLock, place
<1>5. QInv'
  BY <1>1, <1>3, QuietStep
<1>. QED  BY <1>1, <1>4, <1>5, QuietOwners

\* semaphore_lock returns with the unit it took.
LEMMA LockReturnQ ==
  ASSUME IInv, QInv, UnitsInv, NEW cur \in Threads, cur = current_thread,
         lock_return
  PROVE  QInv' /\ UnitsInv' /\ UnitsStay
<1>1. OthersUnchanged /\ UNCHANGED <<listVars, count, waiters, ret, intd, sem>>
      /\ pc[cur] = "lock_got" /\ pc'[cur] = "cs"
  BY CurrentFacts DEF lock_return, schedUnchanged, At, Goto, OthersUnchanged, semVars, listVars, stackVars
<1>2. intd[cur] = "none"
  BY <1>1, CurrentFacts
<1>3. state[cur] # "SUSPENDED"
  BY <1>1 DEF QInv, CurrentInv
<1>4. \A s \in Sems : Owns(cur, s)' <=> Owns(cur, s)
  BY <1>1, <1>2, CurrentFacts DEF Owns, Queued, inSemaphoreLock, place
<1>5. QInv'
  BY <1>1, <1>3, QuietStep
<1>. QED  BY <1>1, <1>4, <1>5, QuietOwners

\* semaphore_try_lock gives up without a unit.
LEMMA TryFailedQ ==
  ASSUME IInv, QInv, UnitsInv, NEW cur \in Threads, cur = current_thread,
         try_failed
  PROVE  QInv' /\ UnitsInv' /\ UnitsStay
<1>1. OthersUnchanged /\ UNCHANGED <<listVars, count, waiters, ret, intd>>
      /\ pc[cur] = "try_body" /\ pc'[cur] = "run"
  BY CurrentFacts DEF try_failed, schedUnchanged, At, Goto, OthersUnchanged, semVars, listVars, stackVars
<1>2. intd[cur] = "none"
  BY <1>1, CurrentFacts
<1>3. state[cur] # "SUSPENDED"
  BY <1>1 DEF QInv, CurrentInv
<1>4. \A s \in Sems : Owns(cur, s)' <=> Owns(cur, s)
  BY <1>1, <1>2, CurrentFacts DEF Owns, Queued, inSemaphoreLock, place
<1>5. QInv'
  BY <1>1, <1>3, QuietStep
<1>. QED  BY <1>1, <1>4, <1>5, QuietOwners

\* semaphore_unlock still owns the unit when it has the spin lock.
LEMMA SemaphoreUnlockQ ==
  ASSUME IInv, QInv, UnitsInv, NEW cur \in Threads, cur = current_thread,
         semaphore_unlock
  PROVE  QInv' /\ UnitsInv' /\ UnitsStay
<1>1. OthersUnchanged /\ UNCHANGED <<listVars, count, waiters, ret, intd, sem>>
      /\ pc[cur] = "cs" /\ pc'[cur] = "unlock_body"
  BY CurrentFacts DEF semaphore_unlock, schedUnchanged, At, Goto, OthersUnchanged, semVars, listVars, stackVars
<1>2. intd[cur] = "none"
  BY <1>1, CurrentFacts
<1>3. state[cur] # "SUSPENDED"
  BY <1>1 DEF QInv, CurrentInv
<1>4. \A s \in Sems : Owns(cur, s)' <=> Owns(cur, s)
  BY <1>1, <1>2, CurrentFacts DEF Owns, Queued, inSemaphoreLock, place
<1>5. QInv'
  BY <1>1, <1>3, QuietStep
<1>. QED  BY <1>1, <1>4, <1>5, QuietOwners

\* semaphore_unlock returns without a unit.
LEMMA UnlockReturnQ ==
  ASSUME IInv, QInv, UnitsInv, NEW cur \in Threads, cur = current_thread,
         unlock_return
  PROVE  QInv' /\ UnitsInv' /\ UnitsStay
<1>1. OthersUnchanged /\ UNCHANGED <<listVars, count, waiters, ret, intd>>
      /\ pc[cur] = "unlock_done" /\ pc'[cur] = "run"
  BY CurrentFacts DEF unlock_return, schedUnchanged, At, Goto, OthersUnchanged, semVars, listVars, stackVars
<1>2. intd[cur] = "none"
  BY <1>1, CurrentFacts
<1>3. state[cur] # "SUSPENDED"
  BY <1>1 DEF QInv, CurrentInv
<1>4. \A s \in Sems : Owns(cur, s)' <=> Owns(cur, s)
  BY <1>1, <1>2, CurrentFacts DEF Owns, Queued, inSemaphoreLock, place
<1>5. QInv'
  BY <1>1, <1>3, QuietStep
<1>. QED  BY <1>1, <1>4, <1>5, QuietOwners

\* The timer's handler returns to the interrupted place.
LEMMA IrqExitQ ==
  ASSUME IInv, QInv, UnitsInv, NEW cur \in Threads, cur = current_thread,
         irq_exit, UNCHANGED semVars
  PROVE  QInv' /\ UnitsInv' /\ UnitsStay
<1>1. OthersUnchanged /\ UNCHANGED <<listVars, count, waiters, ret, sem>>
      /\ pc[cur] = "irq_exit" /\ pc'[cur] = intd[cur] /\ intd'[cur] = "none"
  BY CurrentFacts DEF irq_exit, At, OthersUnchanged, semVars, listVars
<1>2. intd[cur] \in InterruptibleLabels
  BY <1>1, CurrentFacts
<1>3. state[cur] # "SUSPENDED"
  BY <1>1 DEF QInv, CurrentInv
<1>4. \A s \in Sems : Owns(cur, s)' <=> Owns(cur, s)
  BY <1>1, <1>2 DEF Owns, Queued, inSemaphoreLock, place
<1>5. QInv'
  BY <1>1, <1>2, <1>3, QuietStep
<1>. QED  BY <1>1, <1>4, <1>5, QuietOwners

\* A thread that was switched to is no nearer to its caller yet.
LEMMA SwitchedQ ==
  ASSUME IInv, QInv, UnitsInv, NEW cur \in Threads, cur = current_thread,
         switched, UNCHANGED semVars
  PROVE  QInv' /\ UnitsInv' /\ UnitsStay
<1>1. OthersUnchanged /\ UNCHANGED <<listVars, count, waiters, ret, intd, sem>>
      /\ pc[cur] = "switched" /\ pc'[cur] = "yield_done"
  BY CurrentFacts DEF switched, At, Goto, OthersUnchanged, semVars, listVars, stackVars
<1>2. state[cur] # "SUSPENDED"
  BY <1>1 DEF QInv, CurrentInv
<1>3. \A s \in Sems : Owns(cur, s)' <=> Owns(cur, s)
  BY <1>1, CurrentFacts DEF Owns, Queued, inSemaphoreLock, place
<1>4. QInv'
  BY <1>1, <1>2, QuietStep
<1>. QED  BY <1>1, <1>3, <1>4, QuietOwners

\* thread_yield returns into semaphore_lock's caller only in a thread that is not
\* queued any more, hence with the unit it was given.
LEMMA YieldDoneQ ==
  ASSUME IInv, QInv, UnitsInv, NEW cur \in Threads, cur = current_thread,
         yield_done, UNCHANGED semVars
  PROVE  QInv' /\ UnitsInv' /\ UnitsStay
<1>1. OthersUnchanged /\ UNCHANGED <<listVars, count, waiters, intd, sem>>
      /\ pc[cur] = "yield_done"
      /\ IF intd[cur] # "none" THEN pc'[cur] = "irq_exit" /\ ret'[cur] = ret[cur]
                               ELSE pc'[cur] = ret[cur] /\ ret'[cur] = "run"
  BY CurrentFacts
  DEF yield_done, yield_returns_to, At, Goto, OthersUnchanged, semVars, listVars, stackVars
<1>2. state[cur] # "SUSPENDED" /\ \A s \in Sems : ~Queued(cur, s)
  BY <1>1 DEF QInv, CurrentInv, WaiterInv
<1>3. \A s \in Sems : Owns(cur, s)' <=> Owns(cur, s)
  <2>1. CASE intd[cur] # "none"
    BY <1>1, <2>1 DEF Owns, Queued, inSemaphoreLock, place
  <2>2. CASE intd[cur] = "none"
    <3>1. \A s \in Sems : ~Queued(cur, s)'
      BY <1>1, <1>2 DEF Queued
    <3>2. ret[cur] \in {"run", "cs"}
      BY CurrentFacts
    <3>. QED  BY <1>1, <1>2, <2>2, <3>1, <3>2 DEF Owns, inSemaphoreLock, place
  <2>. QED  BY <2>1, <2>2
<1>4. pc'[cur] \notin {"create_body", "wakeup_body"}
  BY <1>1, CurrentFacts
<1>5. QInv'
  BY <1>1, <1>2, <1>4, QuietStep
<1>. QED  BY <1>1, <1>3, <1>5, QuietOwners

\* semaphore_lock drops its spin lock: the thread may still be queued, or an owner.
LEMMA LockBlockUnlockQ ==
  ASSUME IInv, QInv, UnitsInv, NEW cur \in Threads, cur = current_thread,
         lock_block_unlock
  PROVE  QInv' /\ UnitsInv' /\ UnitsStay
<1>1. OthersUnchanged /\ UNCHANGED <<listVars, count, waiters, ret, intd, sem>>
      /\ pc[cur] = "lock_block" /\ pc'[cur] = "gap"
  BY CurrentFacts
  DEF lock_block_unlock, schedUnchanged, At, Goto, OthersUnchanged, semVars, listVars, stackVars
<1>2. intd[cur] = "none"
  BY <1>1, CurrentFacts
<1>3. inSemaphoreLock(cur) /\ inSemaphoreLock(cur)'
  BY <1>1, <1>2 DEF inSemaphoreLock, place
<1>4. \A s \in Sems : Owns(cur, s)' <=> Owns(cur, s)
  BY <1>1, <1>2, <1>3 DEF Owns, Queued, place
<1>5. QInv'
  BY <1>1, <1>3, QuietStep DEF SuspendedLabels
<1>. QED  BY <1>1, <1>4, <1>5, QuietOwners

\* semaphore_lock yields, still inside semaphore_lock.
LEMMA LockYieldQ ==
  ASSUME IInv, QInv, UnitsInv, NEW cur \in Threads, cur = current_thread,
         lock_yield
  PROVE  QInv' /\ UnitsInv' /\ UnitsStay
<1>1. OthersUnchanged /\ UNCHANGED <<listVars, count, waiters, intd, sem>>
      /\ pc[cur] = "gap" /\ pc'[cur] = "yield_body" /\ ret'[cur] = "cs"
  BY CurrentFacts DEF lock_yield, thread_yield, At, Goto, OthersUnchanged, semVars, listVars
<1>2. intd[cur] = "none"
  BY <1>1, CurrentFacts
<1>3. inSemaphoreLock(cur) /\ inSemaphoreLock(cur)'
  BY <1>1, <1>2 DEF inSemaphoreLock, place
<1>4. \A s \in Sems : Owns(cur, s)' <=> Owns(cur, s)
  BY <1>1, <1>2, <1>3 DEF Owns, Queued, place
<1>5. QInv'
  BY <1>1, <1>3, QuietStep DEF SuspendedLabels
<1>. QED  BY <1>1, <1>4, <1>5, QuietOwners
-----------------------------------------------------------------------------
(***************************************************************************)
(* The steps that move units or threads.                                   *)
(***************************************************************************)
\* A unit leaves the count and the current thread owns it.
LEMMA TakeUnit ==
  ASSUME IInv, UnitsInv, OthersUnchanged, UNCHANGED waiters,
         NEW cur \in Threads, cur = current_thread,
         NEW s0 \in Sems, count[s0] > 0, count' = [count EXCEPT ![s0] = @ - 1],
         \A s \in Sems : ~Owns(cur, s) /\ (Owns(cur, s)' <=> s = s0)
  PROVE  /\ UnitsInv'
         /\ \A s \in Sems : Owners(s)' = IF s = s0 THEN Owners(s) \cup {cur} ELSE Owners(s)
<1>1. count \in [Sems -> Nat]
  BY DEF IInv, TypeOK, SemTypeOK
<1>2. ASSUME NEW t \in Threads, t # cur, NEW s \in Sems PROVE Owns(t, s)' <=> Owns(t, s)
  BY <1>2 DEF OthersUnchanged, Owns, Queued, inSemaphoreLock, place
<1>3. Owners(s0)' = Owners(s0) \cup {cur} /\ cur \notin Owners(s0)
  BY <1>2 DEF Owners
<1>4. \A s \in Sems \ {s0} : Owners(s)' = Owners(s)
  BY <1>2 DEF Owners
<1>5. IsFiniteSet(Owners(s0)') /\ Cardinality(Owners(s0)') = Cardinality(Owners(s0)) + 1
  BY <1>3, FS_AddElement DEF UnitsInv
<1>6. \A s \in Sems : InitialUnits(s)' = InitialUnits(s) /\ Cardinality(Owners(s)) \in Nat
  BY FS_CardinalityType DEF InitialUnits, mutex_init, UnitsInv
<1>7. ASSUME NEW s \in Sems
      PROVE  IsFiniteSet(Owners(s))' /\ (count[s] + Cardinality(Owners(s)) = InitialUnits(s))'
  <2>1. CASE s = s0
    BY <1>1, <1>5, <1>6, <2>1 DEF UnitsInv
  <2>2. CASE s # s0
    BY <1>1, <1>4, <1>6, <2>2 DEF UnitsInv
  <2>. QED  BY <2>1, <2>2
<1>. QED  BY <1>3, <1>4, <1>7 DEF UnitsInv

\* The current thread gives its unit back to the count.
LEMMA GiveUnit ==
  ASSUME IInv, UnitsInv, OthersUnchanged, UNCHANGED waiters,
         NEW cur \in Threads, cur = current_thread,
         NEW s0 \in Sems, count' = [count EXCEPT ![s0] = @ + 1],
         \A s \in Sems : ~Owns(cur, s)' /\ (Owns(cur, s) <=> s = s0)
  PROVE  /\ UnitsInv'
         /\ \A s \in Sems : Owners(s)' = IF s = s0 THEN Owners(s) \ {cur} ELSE Owners(s)
<1>1. count \in [Sems -> Nat]
  BY DEF IInv, TypeOK, SemTypeOK
<1>2. ASSUME NEW t \in Threads, t # cur, NEW s \in Sems PROVE Owns(t, s)' <=> Owns(t, s)
  BY <1>2 DEF OthersUnchanged, Owns, Queued, inSemaphoreLock, place
<1>3. Owners(s0)' = Owners(s0) \ {cur} /\ cur \in Owners(s0)
  BY <1>2 DEF Owners
<1>4. \A s \in Sems \ {s0} : Owners(s)' = Owners(s)
  BY <1>2 DEF Owners
<1>5. IsFiniteSet(Owners(s0)') /\ Cardinality(Owners(s0)') = Cardinality(Owners(s0)) - 1
  BY <1>3, FS_RemoveElement DEF UnitsInv
<1>6. \A s \in Sems : InitialUnits(s)' = InitialUnits(s) /\ Cardinality(Owners(s)) \in Nat
  BY FS_CardinalityType DEF InitialUnits, mutex_init, UnitsInv
<1>7. ASSUME NEW s \in Sems
      PROVE  IsFiniteSet(Owners(s))' /\ (count[s] + Cardinality(Owners(s)) = InitialUnits(s))'
  <2>1. CASE s = s0
    BY <1>1, <1>5, <1>6, <2>1 DEF UnitsInv
  <2>2. CASE s # s0
    BY <1>1, <1>4, <1>6, <2>2 DEF UnitsInv
  <2>. QED  BY <2>1, <2>2
<1>. QED  BY <1>3, <1>4, <1>7 DEF UnitsInv

\* Who owns nothing and waits for nothing is idle for AbstractSemaphore.
LEMMA IdleHere ==
  ASSUME NEW c \in Threads, \A s \in Sems : ~Owns(c, s) /\ ~Queued(c, s)
  PROVE  Abstract!Idle(c)
BY DEF Abstract!Idle, Owners, Queued

\* Lock and try-lock differ only in where they stand when they take a unit.
LEMMA GotQ ==
  ASSUME IInv, QInv, UnitsInv, NEW cur \in Threads, cur = current_thread,
         lock_got \/ try_got
  PROVE  QInv' /\ UnitsInv' /\ \E s \in Sems : Abstract!Acquire(cur, s)
<1>. DEFINE s0 == sem[cur]
<1>1. OthersUnchanged /\ UNCHANGED <<listVars, waiters, ret, intd, sem>>
      /\ pc[cur] \in {"lock_body", "try_body"} /\ pc'[cur] = "lock_got"
      /\ count[s0] > 0 /\ count' = [count EXCEPT ![s0] = @ - 1]
  BY CurrentFacts
  DEF lock_got, try_got, mySem, schedUnchanged, At, Goto, OthersUnchanged, listVars, stackVars
<1>2. intd[cur] = "none" /\ s0 \in Sems
  BY <1>1, CurrentFacts, AtSemaphore DEF mySem
<1>3. state[cur] # "SUSPENDED"
  BY <1>1 DEF QInv, CurrentInv
<1>4. waiters[s0] = <<>>
  BY <1>1, <1>2 DEF QInv, WaiterInv
<1>5. \A s \in Sems : ~Owns(cur, s) /\ (Owns(cur, s)' <=> s = s0)
  BY <1>1, <1>2, CurrentFacts DEF Owns, inSemaphoreLock, place
<1>6. \A s \in Sems : waiters[s] # <<>> => count'[s] = count[s]
  BY <1>1, <1>4 DEF IInv, TypeOK, SemTypeOK
<1>7. QInv'
  BY <1>1, <1>3, <1>6, QuietStep
<1>8. PICK k \in Sems : k = s0
  BY <1>2
<1>9. UnitsInv' /\ \A s \in Sems : Owners(s)' = IF s = k THEN Owners(s) \cup {cur} ELSE Owners(s)
  BY <1>1, <1>5, <1>8, TakeUnit, ZenonT(40)
<1>10. Abstract!Acquire(cur, k)
  <2>1. Abstract!Idle(cur)
    BY <1>3, <1>5, IdleHere DEF QInv, WaiterInv
  <2>. QED  BY <1>1, <1>4, <1>8, <1>9, <2>1 DEF Abstract!Acquire
<1>. QED  BY <1>7, <1>9, <1>10

\* semaphore_unlock with nobody waiting.
LEMMA UnlockCountQ ==
  ASSUME IInv, QInv, UnitsInv, NEW cur \in Threads, cur = current_thread,
         unlock_count
  PROVE  QInv' /\ UnitsInv' /\ \E s \in Sems : Abstract!Release(cur, s)
<1>. DEFINE s0 == sem[cur]
<1>1. OthersUnchanged /\ UNCHANGED <<listVars, waiters, ret, intd, sem>>
      /\ pc[cur] = "unlock_body" /\ pc'[cur] = "unlock_done"
      /\ waiters[s0] = <<>> /\ count' = [count EXCEPT ![s0] = @ + 1]
  BY CurrentFacts
  DEF unlock_count, mySem, schedUnchanged, At, Goto, OthersUnchanged, listVars, stackVars
<1>2. intd[cur] = "none" /\ s0 \in Sems
  BY <1>1, CurrentFacts, AtSemaphore DEF mySem
<1>3. state[cur] # "SUSPENDED"
  BY <1>1 DEF QInv, CurrentInv
<1>4. \A s \in Sems : ~Owns(cur, s)' /\ (Owns(cur, s) <=> s = s0)
  BY <1>1, <1>2, CurrentFacts DEF Owns, inSemaphoreLock, place
<1>5. \A s \in Sems : waiters[s] # <<>> => count'[s] = count[s]
  BY <1>1 DEF IInv, TypeOK, SemTypeOK
<1>6. QInv'
  BY <1>1, <1>3, <1>5, QuietStep
<1>7. PICK k \in Sems : k = s0
  BY <1>2
<1>8. UnitsInv' /\ \A s \in Sems : Owners(s)' = IF s = k THEN Owners(s) \ {cur} ELSE Owners(s)
  BY <1>1, <1>4, <1>7, GiveUnit
<1>9. Abstract!Release(cur, k)
  <2>1. cur \in Owners(k)
    BY <1>4, <1>7 DEF Owners
  <2>. QED  BY <1>1, <1>7, <1>8, <2>1 DEF Abstract!Release
<1>. QED  BY <1>6, <1>8, <1>9

\* semaphore_lock with no unit: the current thread, on no list and in no queue,
\* queues and is suspended.
LEMMA LockBlockQ ==
  ASSUME IInv, QInv, UnitsInv, NEW cur \in Threads, cur = current_thread,
         lock_block
  PROVE  QInv' /\ UnitsInv' /\ \E s \in Sems : Abstract!Enqueue(cur, s)
<1>1. /\ OthersUnchanged
      /\ UNCHANGED <<current_thread, ready_list, suspended_list, count, ret, intd, sem>>
      /\ pc[cur] = "lock_body" /\ pc'[cur] = "lock_block" /\ count[sem[cur]] = 0
      /\ waiters' = [waiters EXCEPT ![sem[cur]] = Append(@, cur)]
      /\ state' = [state EXCEPT ![cur] = "SUSPENDED"]
      /\ blocker' = [blocker EXCEPT ![cur] = sem[cur]]
  BY CurrentFacts DEF lock_block, mySem, At, Goto, OthersUnchanged, stackVars
<1>0. intd[cur] = "none" /\ sem[cur] \in Sems
  BY <1>1, CurrentFacts, AtSemaphore DEF mySem
<1>2. PICK s0 \in Sems : s0 = sem[cur] /\ intd[cur] = "none"
  BY <1>0
<1>3. /\ waiters \in [Sems -> Seq(Threads)] /\ state \in [Threads -> {"none", "RUNNING", "READY", "SUSPENDED"}]
      /\ blocker \in [Threads -> Sems \cup {NULL}]
  BY DEF IInv, TypeOK, SchedTypeOK, SemTypeOK
<1>4. state[cur] = "RUNNING" /\ \A s \in Sems : ~Queued(cur, s)
  BY <1>1 DEF QInv, CurrentInv, WaiterInv
<1>5. \A t \in Threads : ~beingWoken(t) /\ ~beingWoken(t)' /\ ~beingCreated(t) /\ ~beingCreated(t)'
  BY <1>1 DEF beingWoken, beingCreated
<1>6. \A t \in Threads : t # cur => state'[t] = state[t] /\ blocker'[t] = blocker[t]
  BY <1>1, <1>3
<1>7. state'[cur] = "SUSPENDED" /\ blocker'[cur] = s0
  BY <1>1, <1>2, <1>3
<1>8. inSemaphoreLock(cur)'
  BY <1>1, <1>2 DEF inSemaphoreLock, place
<1>9. ASSUME NEW t \in Threads, t # cur PROVE inSemaphoreLock(t)' <=> inSemaphoreLock(t)
  BY <1>1, <1>9 DEF OthersUnchanged, inSemaphoreLock, place
<1>10. /\ \A s \in Sems : s # s0 => waiters'[s] = waiters[s]
       /\ waiters'[s0] = Append(waiters[s0], cur) /\ waiters'[s0] # <<>>
       /\ IsInjective(waiters'[s0])
       /\ \A t \in Threads : OnList(waiters'[s0], t) <=> OnList(waiters[s0], t) \/ t = cur
  <2>1. waiters[s0] \in Seq(Threads) /\ IsInjective(waiters[s0]) /\ ~OnList(waiters[s0], cur)
    BY <1>2, <1>3, <1>4 DEF QInv, WaiterInv, Queued, OnList
  <2>2. waiters'[s0] = Append(waiters[s0], cur) /\ waiters'[s0] # <<>>
    <3>1. waiters'[s0] = Append(waiters[s0], cur)
      BY <1>1, <1>2, <1>3
    <3>2. Append(waiters[s0], cur) # <<>>
      BY <2>1
    <3>. QED  BY <3>1, <3>2
  <2>3. \A s \in Sems : s # s0 => waiters'[s] = waiters[s]
    BY <1>1, <1>2, <1>3
  <2>. QED  BY <2>1, <2>2, <2>3, AppendOnce
<1>11. ASSUME NEW t \in Threads, NEW s \in Sems
       PROVE  Queued(t, s)' <=> Queued(t, s) \/ (t = cur /\ s = s0)
  <2>1. CASE s = s0
    BY <1>10, <2>1 DEF Queued, OnList
  <2>2. CASE s # s0
    BY <1>10, <2>2 DEF Queued
  <2>. QED  BY <2>1, <2>2
<1>12. ListInv'
  BY <1>1, <1>4, <1>5, <1>6, <1>7 DEF QInv, ListInv, OnList
<1>13. CurrentInv'
  BY <1>1, <1>7, <1>8 DEF CurrentInv
<1>14. WaiterInv'
  <2>1. ASSUME NEW s \in Sems
        PROVE  IsInjective(waiters[s])' /\ (waiters[s] # <<>> => count[s] = 0)'
    BY <1>1, <1>10 DEF QInv, WaiterInv
  <2>2. ASSUME NEW s \in Sems, NEW t \in Threads, Queued(t, s)'
        PROVE  (sem[t] = s /\ inSemaphoreLock(t) /\ state[t] = "SUSPENDED" /\ ~beingWoken(t))'
    <3>1. CASE t = cur
      BY <1>1, <1>2, <1>4, <1>5, <1>7, <1>8, <1>11, <2>2, <3>1
    <3>2. CASE t # cur
      <4>1. Queued(t, s)
        BY <1>11, <2>2, <3>2
      <4>2. sem[t] = s /\ inSemaphoreLock(t) /\ state[t] = "SUSPENDED"
        BY <4>1 DEF QInv, WaiterInv
      <4>. QED  BY <1>1, <1>5, <1>6, <1>9, <3>2, <4>2
    <3>. QED  BY <3>1, <3>2
  <2>3. ASSUME NEW t \in Threads, (state[t] = "SUSPENDED")'
        PROVE  (blocker[t] \in Sems /\ Queued(t, blocker[t]))'
    <3>1. CASE t = cur
      BY <1>2, <1>7, <1>10, <3>1 DEF Queued, OnList
    <3>2. CASE t # cur
      <4>1. blocker[t] \in Sems /\ Queued(t, blocker[t]) /\ blocker'[t] = blocker[t]
        BY <1>5, <1>6, <2>3, <3>2 DEF QInv, WaiterInv
      <4>2. CASE blocker[t] = s0
        BY <1>10, <4>1, <4>2 DEF Queued, OnList
      <4>3. CASE blocker[t] # s0
        BY <1>10, <4>1, <4>3 DEF Queued
      <4>. QED  BY <4>2, <4>3
    <3>. QED  BY <3>1, <3>2
  <2>. QED  BY <1>5, <2>1, <2>2, <2>3 DEF WaiterInv
<1>15. \A t \in Threads, s \in Sems : Owns(t, s)' <=> Owns(t, s)
  <2>1. ASSUME NEW s \in Sems PROVE ~Owns(cur, s) /\ ~Owns(cur, s)'
    BY <1>1, <1>2, <1>11, CurrentFacts DEF Owns, inSemaphoreLock, place
  <2>2. ASSUME NEW t \in Threads, t # cur, NEW s \in Sems PROVE Owns(t, s)' <=> Owns(t, s)
    BY <1>1, <1>9, <1>11, <2>2 DEF OthersUnchanged, Owns, place
  <2>. QED  BY <2>1, <2>2
<1>16. UnitsInv' /\ \A s \in Sems : Owners(s)' = Owners(s)
  BY <1>1, <1>15, OwnersStep
<1>17. Abstract!Enqueue(cur, s0)
  <2>1. Abstract!Idle(cur)
    <3>1. \A s \in Sems : ~Owns(cur, s)
      BY <1>1, <1>2, CurrentFacts DEF Owns, inSemaphoreLock, place
    <3>. QED  BY <1>4, <3>1, IdleHere
  <2>. QED  BY <1>1, <1>2, <1>16, <2>1 DEF Abstract!Enqueue
<1>. QED  BY <1>12, <1>13, <1>14, <1>16, <1>17 DEF QInv

\* semaphore_unlock with waiters: the current thread's unit passes to the first of
\* them, which is still suspended.
LEMMA UnlockWakeupQ ==
  ASSUME IInv, QInv, UnitsInv, NEW cur \in Threads, cur = current_thread,
         unlock_wakeup
  PROVE  QInv' /\ UnitsInv' /\ \E s \in Sems : Abstract!HandOver(cur, s)
<1>1. /\ OthersUnchanged
      /\ UNCHANGED <<listVars, count, ret, intd, sem>>
      /\ pc[cur] = "unlock_body" /\ pc'[cur] = "wakeup_body"
      /\ thread'[cur] = Head(waiters[sem[cur]])
      /\ waiters[sem[cur]] # <<>> /\ waiters' = [waiters EXCEPT ![sem[cur]] = Tail(@)]
  BY CurrentFacts DEF unlock_wakeup, mySem, At, Goto, OthersUnchanged, IInv, TypeOK, SchedTypeOK
<1>3. waiters \in [Sems -> Seq(Threads)]
  BY DEF IInv, TypeOK, SemTypeOK
<1>0. intd[cur] = "none" /\ sem[cur] \in Sems
  BY <1>1, CurrentFacts, AtSemaphore DEF mySem
<1>2. PICK s0 \in Sems : s0 = sem[cur] /\ intd[cur] = "none"
  BY <1>0
<1>20. PICK t0 \in Threads : t0 = Head(waiters[s0])
  BY <1>1, <1>2, <1>3, HeadTailProperties
<1>4. /\ t0 \in Threads /\ Queued(t0, s0)
      /\ \A s \in Sems : s # s0 => waiters'[s] = waiters[s]
      /\ waiters'[s0] = Tail(waiters[s0])
      /\ IsInjective(waiters'[s0])
      /\ \A t \in Threads : OnList(waiters'[s0], t) <=> OnList(waiters[s0], t) /\ t # t0
  <2>1. waiters[s0] \in Seq(Threads) /\ IsInjective(waiters[s0])
    BY <1>2, <1>3 DEF QInv, WaiterInv
  <2>2. waiters'[s0] = Tail(waiters[s0])
    BY <1>1, <1>2, <1>3
  <2>. QED  BY <1>1, <1>2, <1>3, <1>20, <2>1, <2>2, TailOnce DEF Queued, OnList
<1>5. ASSUME NEW t \in Threads, NEW s \in Sems
      PROVE  Queued(t, s)' <=> Queued(t, s) /\ t # t0
  <2>1. CASE s = s0
    BY <1>4, <2>1 DEF Queued, OnList
  <2>2. CASE s # s0
    <3>1. Queued(t, s)' <=> Queued(t, s)
      BY <1>4, <2>2 DEF Queued
    <3>2. Queued(t0, s0) => sem[t0] = s0
      BY <1>2, <1>4 DEF QInv, WaiterInv
    <3>3. Queued(t0, s) => sem[t0] = s
      BY <1>4 DEF QInv, WaiterInv
    <3>. QED  BY <1>4, <2>2, <3>1, <3>2, <3>3
  <2>. QED  BY <2>1, <2>2
<1>6. /\ \A t \in Threads : ~beingWoken(t) /\ ~beingCreated(t) /\ ~beingCreated(t)'
      /\ \A t \in Threads : beingWoken(t)' <=> t = t0
  BY <1>1, <1>2, <1>20 DEF beingWoken, beingCreated, listVars
<1>7. sem[t0] = s0 /\ inSemaphoreLock(t0) /\ state[t0] = "SUSPENDED" /\ t0 # cur
  <2>1. sem[t0] = s0 /\ inSemaphoreLock(t0) /\ state[t0] = "SUSPENDED"
    BY <1>2, <1>4 DEF QInv, WaiterInv
  <2>. QED  BY <1>1, <2>1 DEF QInv, CurrentInv
<1>8. ASSUME NEW t \in Threads, t # cur
      PROVE  inSemaphoreLock(t)' <=> inSemaphoreLock(t)
  BY <1>1, <1>8 DEF OthersUnchanged, inSemaphoreLock, place
<1>9. \A s \in Sems : ~Queued(cur, s)
  BY <1>1 DEF QInv, CurrentInv, WaiterInv
<1>10. ListInv' /\ CurrentInv'
  BY <1>1, <1>6 DEF QInv, ListInv, CurrentInv, OnList, listVars
<1>11. WaiterInv'
  <2>1. ASSUME NEW s \in Sems
        PROVE  IsInjective(waiters[s])' /\ (waiters[s] # <<>> => count[s] = 0)'
    <3>1. CASE s = s0
      BY <1>1, <1>2, <1>4, <3>1 DEF QInv, WaiterInv
    <3>2. CASE s # s0
      BY <1>1, <1>4, <3>2 DEF QInv, WaiterInv
    <3>. QED  BY <3>1, <3>2
  <2>2. ASSUME NEW s \in Sems, NEW t \in Threads, Queued(t, s)'
        PROVE  (sem[t] = s /\ inSemaphoreLock(t) /\ state[t] = "SUSPENDED" /\ ~beingWoken(t))'
    <3>1. Queued(t, s) /\ t # t0 /\ t # cur
      BY <1>5, <1>9, <2>2
    <3>2. sem[t] = s /\ inSemaphoreLock(t) /\ state[t] = "SUSPENDED"
      BY <3>1 DEF QInv, WaiterInv
    <3>. QED  BY <1>1, <1>6, <1>8, <3>1, <3>2 DEF listVars
  <2>3. ASSUME NEW t \in Threads, (state[t] = "SUSPENDED")'
        PROVE  (blocker[t] \in Sems /\ Queued(t, blocker[t]))' \/ beingWoken(t)'
    <3>1. CASE t = t0
      BY <1>6, <3>1
    <3>2. CASE t # t0
      <4>1. blocker[t] \in Sems /\ Queued(t, blocker[t]) /\ blocker' = blocker
        BY <1>1, <1>6, <2>3 DEF QInv, WaiterInv, listVars
      <4>2. CASE blocker[t] = s0
        BY <1>4, <3>2, <4>1, <4>2 DEF Queued, OnList
      <4>3. CASE blocker[t] # s0
        BY <1>4, <4>1, <4>3 DEF Queued
      <4>. QED  BY <4>2, <4>3
    <3>. QED  BY <3>1, <3>2
  <2>4. ASSUME NEW t \in Threads, beingWoken(t)' PROVE (state[t] = "SUSPENDED")'
    BY <1>1, <1>6, <1>7, <2>4 DEF listVars
  <2>. QED  BY <2>1, <2>2, <2>3, <2>4 DEF WaiterInv
<1>12. UnitsInv' /\ Abstract!HandOver(cur, s0)
  <2>1. ASSUME NEW s \in Sems PROVE ~Owns(cur, s)' /\ (Owns(cur, s) <=> s = s0)
    BY <1>1, <1>2, CurrentFacts DEF Owns, inSemaphoreLock, place
  <2>2. ASSUME NEW t \in Threads, t # cur, t # t0, NEW s \in Sems
        PROVE  Owns(t, s)' <=> Owns(t, s)
    BY <1>1, <1>5, <1>8, <2>2 DEF OthersUnchanged, Owns, place
  <2>3. ASSUME NEW s \in Sems PROVE ~Owns(t0, s) /\ (Owns(t0, s)' <=> s = s0)
    <3>1. ~Owns(t0, s)
      BY <1>4, <1>7 DEF Owns, inSemaphoreLock
    <3>2. inSemaphoreLock(t0)' /\ sem'[t0] = s0 /\ ~Queued(t0, s)'
      BY <1>1, <1>4, <1>5, <1>7, <1>8
    <3>. QED  BY <3>1, <3>2 DEF Owns
  <2>4. Owners(s0)' = (Owners(s0) \ {cur}) \cup {t0}
    BY <1>4, <2>1, <2>2, <2>3 DEF Owners
  <2>5. cur \in Owners(s0) /\ t0 \notin Owners(s0)
    BY <1>2, <2>1, <2>3 DEF Owners
  <2>6. \A s \in Sems : s # s0 => Owners(s)' = Owners(s)
    BY <2>1, <2>2, <2>3 DEF Owners
  <2>7. \A s \in Sems : IsFiniteSet(Owners(s)) /\ Cardinality(Owners(s)) \in Nat
    BY FS_CardinalityType DEF UnitsInv
  <2>8. IsFiniteSet(Owners(s0)') /\ Cardinality(Owners(s0)') = Cardinality(Owners(s0))
    <3>1. /\ IsFiniteSet(Owners(s0) \ {cur})
          /\ Cardinality(Owners(s0) \ {cur}) = Cardinality(Owners(s0)) - 1
      BY <1>2, <2>5, <2>7, FS_RemoveElement
    <3>2. /\ IsFiniteSet((Owners(s0) \ {cur}) \cup {t0})
          /\ Cardinality((Owners(s0) \ {cur}) \cup {t0}) = Cardinality(Owners(s0) \ {cur}) + 1
      BY <2>5, <3>1, FS_AddElement
    <3>. QED  BY <1>2, <2>4, <2>7, <3>1, <3>2
  <2>9. UnitsInv'
    BY <1>1, <2>6, <2>8 DEF UnitsInv, InitialUnits
  <2>10. Abstract!HandOver(cur, s0)
    BY <1>1, <1>2, <1>20, <2>4, <2>5, <2>6 DEF Abstract!HandOver
  <2>. QED  BY <2>9, <2>10
<1>. QED  BY <1>10, <1>11, <1>12 DEF QInv

\* thread_yield under the scheduler lock.
LEMMA YieldBodyQ ==
  ASSUME IInv, QInv, UnitsInv, NEW cur \in Threads, cur = current_thread,
         yield_body, UNCHANGED semVars
  PROVE  QInv' /\ UnitsInv' /\ UnitsStay
<1>1. /\ OthersUnchanged /\ UNCHANGED <<count, waiters, blocker, ret, intd, sem>>
      /\ pc[cur] = "yield_body" /\ pc'[cur] \in {"yield_body", "switched", "yield_done"}
      /\ \A t \in Threads : t # cur => pc'[t] = pc[t]
  BY CurrentFacts
  DEF yield_body, thread_schedule, switch_from, At, Goto, Fatal, OthersUnchanged, semVars
<1>2. \A t \in Threads : inSemaphoreLock(t)' <=> inSemaphoreLock(t)
  <2>1. inSemaphoreLock(cur)' <=> inSemaphoreLock(cur)
    BY <1>1, CurrentFacts DEF inSemaphoreLock, place
  <2>2. ASSUME NEW t \in Threads, t # cur PROVE inSemaphoreLock(t)' <=> inSemaphoreLock(t)
    BY <1>1, <2>2 DEF inSemaphoreLock, place
  <2>. QED  BY <2>1, <2>2
<1>3. \A t \in Threads, s \in Sems : Queued(t, s)' <=> Queued(t, s)
  BY <1>1 DEF Queued
<1>4. UnitsInv' /\ UnitsStay
  <2>1. \A s \in Sems : Owns(cur, s)' <=> Owns(cur, s)
    BY <1>1, <1>2, <1>3, CurrentFacts DEF Owns, place
  <2>. QED  BY <1>1, <2>1, QuietOwners
<1>5. ASSUME UNCHANGED <<current_thread, ready_list, suspended_list, state, pc>> PROVE QInv'
  <2>1. UNCHANGED listVars /\ pc'[cur] = "yield_body" /\ sem'[cur] = sem[cur]
    BY <1>1, <1>5 DEF listVars
  <2>2. state[cur] = "SUSPENDED" => inSemaphoreLock(cur)'
    BY <1>2 DEF QInv, CurrentInv
  <2>. QED  BY <1>1, <2>1, <2>2, QuietStep DEF SuspendedLabels
<1>6. ASSUME state[cur] = "RUNNING", pc'[cur] = "yield_done",
             UNCHANGED <<current_thread, ready_list, suspended_list, state>>
      PROVE  QInv'
  <2>1. UNCHANGED listVars
    BY <1>1, <1>6 DEF listVars
  <2>. QED  BY <1>1, <1>6, <2>1, QuietStep
<1>7. ASSUME NEW st \in {"READY", "SUSPENDED"}, switch_from(st), ready_list # <<>>,
             state[cur] = IF st = "READY" THEN "RUNNING" ELSE "SUSPENDED"
      PROVE  QInv'
  <2>1. /\ ready_list \in Seq(Threads) /\ suspended_list \in Seq(Threads)
        /\ state \in [Threads -> {"none", "RUNNING", "READY", "SUSPENDED"}]
    BY DEF IInv, TypeOK, SchedTypeOK
  <2>2. PICK new \in Threads : new = Head(ready_list)
    BY <1>7, <2>1, HeadTailProperties
  <2>3. IsInjective(ready_list) /\ IsInjective(suspended_list)
        /\ ~OnList(ready_list, cur) /\ ~OnList(suspended_list, cur)
        /\ OnList(ready_list, new) /\ state[new] = "READY" /\ new # cur
    BY <1>7, <2>1, <2>2, TailOnce DEF QInv, ListInv
  <2>. DEFINE queue == IF st = "READY" THEN Append(ready_list, cur) ELSE ready_list
  <2>4. /\ ready_list' = Tail(queue)
        /\ suspended_list' = IF st = "READY" THEN suspended_list
                             ELSE Append(suspended_list, cur)
        /\ state' = [state EXCEPT ![cur] = st, ![Head(queue)] = "RUNNING"]
        /\ current_thread' = Head(queue) /\ pc' = [pc EXCEPT ![cur] = "switched"]
    BY <1>7 DEF switch_from, Goto
  <2>5. queue \in Seq(Threads) /\ queue # <<>> /\ Head(queue) = new /\ IsInjective(queue)
        /\ \A t \in Threads :
             OnList(queue, t) <=> OnList(ready_list, t) \/ (t = cur /\ st = "READY")
    <3>1. CASE st = "READY"
      <4>1. Append(ready_list, cur) \in Seq(Threads) /\ Append(ready_list, cur) # <<>>
            /\ Head(Append(ready_list, cur)) = Head(ready_list)
        BY <1>7, <2>1, HeadTailAppend
      <4>. QED  BY <2>1, <2>2, <2>3, <3>1, <4>1, AppendOnce
    <3>2. CASE st # "READY"
      BY <1>7, <2>1, <2>2, <2>3, <3>2
    <3>. QED  BY <3>1, <3>2
  <2>. HIDE DEF queue
  <2>6. IsInjective(ready_list')
        /\ \A t \in Threads : OnList(ready_list', t) <=> OnList(queue, t) /\ t # new
    BY <2>4, <2>5, TailOnce
  <2>7. IsInjective(suspended_list')
        /\ \A t \in Threads : OnList(suspended_list', t)
             <=> OnList(suspended_list, t) \/ (t = cur /\ st = "SUSPENDED")
    <3>1. CASE st = "READY"
      BY <2>3, <2>4, <3>1
    <3>2. CASE st = "SUSPENDED"
      BY <2>1, <2>3, <2>4, <3>2, AppendOnce
    <3>. QED  BY <1>7, <3>1, <3>2
  <2>8. /\ current_thread' = new /\ state'[new] = "RUNNING" /\ state'[cur] = st
        /\ \A t \in Threads : t # cur /\ t # new => state'[t] = state[t]
    BY <2>1, <2>3, <2>4, <2>5
  <2>9. pc'[new] \notin {"create_body", "wakeup_body"}
    BY <1>1, <2>3 DEF IInv, StackInv
  <2>10. \A t \in Threads : ~beingCreated(t) /\ ~beingCreated(t)'
                              /\ ~beingWoken(t) /\ ~beingWoken(t)'
    BY <1>1, <2>8, <2>9 DEF beingCreated, beingWoken
  <2>11. ListInv'
    <3>1. ASSUME NEW t \in Threads
          PROVE  /\ OnList(ready_list', t) <=> state'[t] = "READY"
                 /\ OnList(suspended_list', t) <=> state'[t] = "SUSPENDED" /\ t # new
                 /\ state'[t] = "RUNNING" => t = new
      <4>1. /\ OnList(ready_list, t) <=> state[t] = "READY"
            /\ OnList(suspended_list, t) <=> state[t] = "SUSPENDED" /\ t # cur
            /\ state[t] = "RUNNING" => t = cur
        BY <2>10 DEF QInv, ListInv
      <4>. QED  BY <1>7, <2>3, <2>5, <2>6, <2>7, <2>8, <4>1
    <3>. QED  BY <2>6, <2>7, <2>8, <2>10, <3>1 DEF ListInv, OnList
  <2>12. CurrentInv'
    BY <2>8 DEF CurrentInv
  <2>13. \A t \in Threads : state'[t] = "SUSPENDED" <=> state[t] = "SUSPENDED"
    BY <1>7, <2>3, <2>8
  <2>14. WaiterInv'
    <3>1. ASSUME NEW s \in Sems
          PROVE  IsInjective(waiters[s])' /\ (waiters[s] # <<>> => count[s] = 0)'
      BY <1>1 DEF QInv, WaiterInv
    <3>2. ASSUME NEW s \in Sems, NEW t \in Threads, Queued(t, s)'
          PROVE  (sem[t] = s /\ inSemaphoreLock(t) /\ state[t] = "SUSPENDED" /\ ~beingWoken(t))'
      BY <1>1, <1>2, <1>3, <2>10, <2>13, <3>2 DEF QInv, WaiterInv
    <3>3. ASSUME NEW t \in Threads, (state[t] = "SUSPENDED")'
          PROVE  (blocker[t] \in Sems /\ Queued(t, blocker[t]))'
      BY <1>1, <2>10, <2>13, <3>3 DEF QInv, WaiterInv, Queued
    <3>. QED  BY <2>10, <3>1, <3>2, <3>3 DEF WaiterInv
  <2>. QED  BY <2>11, <2>12, <2>14 DEF QInv
<1>8. QInv'
  <2>1. CASE UNCHANGED <<current_thread, ready_list, suspended_list, state, pc>>
    BY <1>5, <2>1
  <2>2. CASE ~UNCHANGED <<current_thread, ready_list, suspended_list, state, pc>>
    <3>. DEFINE st == IF state[cur] = "RUNNING" THEN "READY" ELSE state[cur]
    <3>1. state[cur] \in {"RUNNING", "SUSPENDED"} /\ thread_schedule(st) /\ ~schedule_refuses(st)
      BY <2>2 DEF yield_body, thread_schedule
    <3>2. CASE ready_list = <<>>
      <4>1. st = "READY" /\ state[cur] = "RUNNING"
        BY <3>1, <3>2 DEF schedule_refuses
      <4>2. state' = state /\ pc'[cur] = "yield_done"
            /\ UNCHANGED <<current_thread, ready_list, suspended_list>>
        <5>1. /\ state' = [state EXCEPT ![cur] = "RUNNING"] /\ pc' = [pc EXCEPT ![cur] = "yield_done"]
              /\ UNCHANGED <<current_thread, ready_list, suspended_list>>
          BY <3>1, <3>2, <4>1 DEF thread_schedule, Goto
        <5>2. state \in [Threads -> {"none", "RUNNING", "READY", "SUSPENDED"}]
          BY DEF IInv, TypeOK, SchedTypeOK
        <5>. QED  BY <4>1, <5>1, <5>2, CurrentFacts
      <4>. QED  BY <1>6, <4>1, <4>2
    <3>3. CASE ready_list # <<>>
      <4>1. switch_from(st)
        BY <3>1, <3>3 DEF thread_schedule
      <4>2. CASE state[cur] = "RUNNING"
        BY <1>7, <3>3, <4>1, <4>2
      <4>3. CASE state[cur] = "SUSPENDED"
        BY <1>7, <3>3, <4>1, <4>3
      <4>. QED  BY <3>1, <4>2, <4>3
    <3>. QED  BY <3>2, <3>3
  <2>. QED  BY <2>1, <2>2
<1>. QED  BY <1>4, <1>8

\* thread_wakeup moves a suspended thread, queued nowhere any more, to ready_list.
LEMMA WakeupBodyQ ==
  ASSUME IInv, QInv, UnitsInv, NEW cur \in Threads, cur = current_thread,
         wakeup_body, UNCHANGED semVars
  PROVE  QInv' /\ UnitsInv' /\ UnitsStay
<1>1. pc[cur] = "wakeup_body" /\ thread[cur] \in Threads
  BY DEF wakeup_body, At, IInv, ExistInv
<1>2. PICK t0 \in Threads : t0 = thread[cur]
  BY <1>1
<1>3. \A t \in Threads : beingWoken(t) <=> t = t0
  BY <1>1, <1>2 DEF beingWoken
<1>4. state[t0] = "SUSPENDED" /\ t0 # cur /\ \A s \in Sems : ~Queued(t0, s)
  BY <1>1, <1>3 DEF QInv, WaiterInv, CurrentInv
<1>5. /\ OthersUnchanged /\ UNCHANGED <<current_thread, count, waiters, ret, intd, sem>>
      /\ pc'[cur] = "wakeup_done"
      /\ state' = [state EXCEPT ![t0] = "READY"]
      /\ blocker' = [blocker EXCEPT ![t0] = NULL]
      /\ suspended_list' = list_remove(suspended_list, t0)
      /\ ready_list' = Append(ready_list, t0)
  BY <1>1, <1>2, <1>4, CurrentFacts DEF wakeup_body, Goto, OthersUnchanged, semVars, stackVars
<1>6. /\ ready_list \in Seq(Threads) /\ suspended_list \in Seq(Threads)
      /\ state \in [Threads -> {"none", "RUNNING", "READY", "SUSPENDED"}]
      /\ blocker \in [Threads -> Sems \cup {NULL}]
  BY DEF IInv, TypeOK, SchedTypeOK, SemTypeOK
<1>7. IsInjective(ready_list) /\ IsInjective(suspended_list) /\ ~OnList(ready_list, t0)
  BY <1>4 DEF QInv, ListInv
<1>8. IsInjective(ready_list') /\ IsInjective(suspended_list')
      /\ \A t \in Threads : /\ OnList(ready_list', t) <=> OnList(ready_list, t) \/ t = t0
                            /\ OnList(suspended_list', t) <=> OnList(suspended_list, t) /\ t # t0
  BY <1>5, <1>6, <1>7, AppendOnce, RemoveOnce
<1>9. /\ state'[t0] = "READY"
      /\ \A t \in Threads : t # t0 => state'[t] = state[t] /\ blocker'[t] = blocker[t]
  BY <1>5, <1>6
<1>10. \A t \in Threads : ~beingWoken(t)' /\ ~beingCreated(t) /\ ~beingCreated(t)'
  BY <1>1, <1>5 DEF beingWoken, beingCreated
<1>11. ListInv'
  <2>1. ASSUME NEW t \in Threads
        PROVE  /\ OnList(ready_list', t) <=> state'[t] = "READY"
               /\ OnList(suspended_list', t) <=> state'[t] = "SUSPENDED" /\ t # cur
               /\ state'[t] = "RUNNING" => t = cur
    <3>1. /\ OnList(ready_list, t) <=> state[t] = "READY"
          /\ OnList(suspended_list, t) <=> state[t] = "SUSPENDED" /\ t # cur
          /\ state[t] = "RUNNING" => t = cur
      BY <1>10 DEF QInv, ListInv
    <3>. QED  BY <1>4, <1>8, <1>9, <3>1
  <2>. QED  BY <1>5, <1>8, <1>10, <2>1 DEF ListInv, OnList
<1>12. CurrentInv'
  BY <1>1, <1>4, <1>5, <1>9 DEF QInv, CurrentInv
<1>13. \A t \in Threads : t # cur => (inSemaphoreLock(t)' <=> inSemaphoreLock(t))
  BY <1>5 DEF OthersUnchanged, inSemaphoreLock, place
<1>14. \A t \in Threads, s \in Sems : Queued(t, s)' <=> Queued(t, s)
  BY <1>5 DEF Queued
<1>15. WaiterInv'
  <2>1. ASSUME NEW s \in Sems
        PROVE  IsInjective(waiters[s])' /\ (waiters[s] # <<>> => count[s] = 0)'
    BY <1>5 DEF QInv, WaiterInv
  <2>2. ASSUME NEW s \in Sems, NEW t \in Threads, Queued(t, s)'
        PROVE  (sem[t] = s /\ inSemaphoreLock(t) /\ state[t] = "SUSPENDED" /\ ~beingWoken(t))'
    <3>1. Queued(t, s) /\ t # t0
      BY <1>4, <1>14, <2>2
    <3>2. sem[t] = s /\ inSemaphoreLock(t) /\ state[t] = "SUSPENDED" /\ t # cur
      BY <1>1, <3>1 DEF QInv, WaiterInv, CurrentInv
    <3>. QED  BY <1>5, <1>9, <1>10, <1>13, <3>1, <3>2
  <2>3. ASSUME NEW t \in Threads, (state[t] = "SUSPENDED")'
        PROVE  (blocker[t] \in Sems /\ Queued(t, blocker[t]))'
    <3>1. t # t0 /\ state[t] = "SUSPENDED" /\ blocker'[t] = blocker[t]
      BY <1>9, <2>3
    <3>2. blocker[t] \in Sems /\ Queued(t, blocker[t])
      BY <1>3, <3>1 DEF QInv, WaiterInv
    <3>. QED  BY <1>5, <3>1, <3>2 DEF Queued
  <2>. QED  BY <1>10, <2>1, <2>2, <2>3 DEF WaiterInv
<1>16. UnitsInv' /\ UnitsStay
  <2>1. intd[cur] = "none"
    BY <1>1, CurrentFacts
  <2>2. \A s \in Sems : ~Owns(cur, s) /\ ~Owns(cur, s)'
    BY <1>1, <1>5, <2>1, CurrentFacts DEF Owns, inSemaphoreLock, place
  <2>. QED  BY <1>5, <2>2, QuietOwners
<1>. QED  BY <1>11, <1>12, <1>15, <1>16 DEF QInv

\* thread_create makes a thread that is ready but on no list yet.
LEMMA CreateQ ==
  ASSUME IInv, QInv, UnitsInv, NEW cur \in Threads, cur = current_thread,
         NEW child \in Threads, create(child)
  PROVE  QInv' /\ UnitsInv' /\ UnitsStay
<1>1. /\ UNCHANGED <<current_thread, ready_list, suspended_list, blocker, ret, intd,
                     count, waiters, sem>>
      /\ pc[cur] = "run" /\ state[child] = "none"
      /\ state' = [state EXCEPT ![child] = "READY"]
      /\ pc' = [pc EXCEPT ![cur] = "create_body", ![child] = "entry"]
      /\ thread' = [thread EXCEPT ![cur] = child]
  BY DEF create, thread_create, At, semVars
<1>2. child # cur
  BY <1>1 DEF QInv, CurrentInv
<1>3. /\ state \in [Threads -> {"none", "RUNNING", "READY", "SUSPENDED"}]
      /\ thread \in [Threads -> Threads \cup {NULL}]
  BY DEF IInv, TypeOK, SchedTypeOK
<1>4. /\ pc'[cur] = "create_body" /\ pc'[child] = "entry" /\ thread'[cur] = child
      /\ state'[child] = "READY"
      /\ \A t \in Threads : t # child => state'[t] = state[t]
      /\ \A t \in Threads : t \notin {cur, child} => pc'[t] = pc[t]
  BY <1>1, <1>2, <1>3, CurrentFacts
<1>5. pc[child] = "none" /\ intd[child] = "none" /\ intd[cur] = "none"
  BY <1>1, CurrentFacts DEF IInv, StackInv
<1>6. /\ \A t \in Threads : ~beingWoken(t) /\ ~beingWoken(t)' /\ ~beingCreated(t)
      /\ \A t \in Threads : beingCreated(t)' <=> t = child
  BY <1>1, <1>4 DEF beingWoken, beingCreated
<1>7. ListInv'
  <2>1. ASSUME NEW t \in Threads
        PROVE  /\ OnList(ready_list, t) <=> state'[t] = "READY" /\ t # child
               /\ OnList(suspended_list, t) <=> state'[t] = "SUSPENDED" /\ t # cur
               /\ state'[t] = "RUNNING" => t = cur
    BY <1>1, <1>4, <1>6 DEF QInv, ListInv
  <2>. QED  BY <1>1, <1>4, <1>6, <2>1 DEF QInv, ListInv, OnList
<1>8. CurrentInv'
  BY <1>1, <1>2, <1>4 DEF QInv, CurrentInv
<1>9. \A t \in Threads : inSemaphoreLock(t)' <=> inSemaphoreLock(t)
  <2>1. ASSUME NEW t \in {cur, child} PROVE ~inSemaphoreLock(t) /\ ~inSemaphoreLock(t)'
    <3>1. ret[cur] # "cs"
      BY <1>1, <1>5, CurrentFacts DEF place
    <3>. QED  BY <1>1, <1>4, <1>5, <3>1, <2>1 DEF inSemaphoreLock, place
  <2>2. ASSUME NEW t \in Threads, t \notin {cur, child}
        PROVE  inSemaphoreLock(t)' <=> inSemaphoreLock(t)
    BY <1>1, <1>4, <2>2 DEF inSemaphoreLock, place
  <2>. QED  BY <2>1, <2>2
<1>10. \A t \in Threads, s \in Sems : Queued(t, s)' <=> Queued(t, s)
  BY <1>1 DEF Queued
<1>11. WaiterInv'
  <2>1. ASSUME NEW s \in Sems
        PROVE  IsInjective(waiters[s])' /\ (waiters[s] # <<>> => count[s] = 0)'
    BY <1>1 DEF QInv, WaiterInv
  <2>2. ASSUME NEW s \in Sems, NEW t \in Threads, Queued(t, s)'
        PROVE  (sem[t] = s /\ inSemaphoreLock(t) /\ state[t] = "SUSPENDED" /\ ~beingWoken(t))'
    BY <1>1, <1>4, <1>6, <1>9, <1>10, <2>2 DEF QInv, WaiterInv
  <2>3. ASSUME NEW t \in Threads, (state[t] = "SUSPENDED")'
        PROVE  (blocker[t] \in Sems /\ Queued(t, blocker[t]))'
    <3>1. state[t] = "SUSPENDED"
      BY <1>4, <2>3
    <3>. QED  BY <1>1, <1>6, <3>1 DEF QInv, WaiterInv, Queued
  <2>. QED  BY <1>6, <2>1, <2>2, <2>3 DEF WaiterInv
<1>12. \A t \in Threads, s \in Sems : Owns(t, s)' <=> Owns(t, s)
  <2>1. ASSUME NEW t \in {cur, child}, NEW s \in Sems PROVE ~Owns(t, s) /\ ~Owns(t, s)'
    <3>1. ~inSemaphoreLock(t) /\ ~inSemaphoreLock(t)'
      <4>1. ret[cur] # "cs"
        BY <1>1, <1>5, CurrentFacts DEF place
      <4>. QED  BY <1>1, <1>4, <1>5, <4>1, <2>1 DEF inSemaphoreLock, place
    <3>. QED  BY <1>1, <1>4, <1>5, <2>1, <3>1 DEF Owns, place
  <2>2. ASSUME NEW t \in Threads, t \notin {cur, child}, NEW s \in Sems
        PROVE  Owns(t, s)' <=> Owns(t, s)
    BY <1>1, <1>4, <1>9, <1>10, <2>2 DEF Owns, place
  <2>. QED  BY <2>1, <2>2
<1>. QED  BY <1>1, <1>7, <1>8, <1>11, <1>12, OwnersStep DEF QInv, UnitsStay

\* thread_create puts the new thread on ready_list.
LEMMA CreateBodyQ ==
  ASSUME IInv, QInv, UnitsInv, NEW cur \in Threads, cur = current_thread,
         create_body, UNCHANGED semVars
  PROVE  QInv' /\ UnitsInv' /\ UnitsStay
<1>1. pc[cur] = "create_body" /\ thread[cur] \in Threads
  BY DEF create_body, At, IInv, ExistInv
<1>2. PICK child \in Threads : child = thread[cur]
  BY <1>1
<1>3. /\ OthersUnchanged
      /\ UNCHANGED <<current_thread, suspended_list, state, count, waiters, ret, intd, sem>>
      /\ pc'[cur] = "create_done"
      /\ blocker' = [blocker EXCEPT ![child] = NULL]
      /\ ready_list' = Append(ready_list, child)
  BY <1>1, <1>2, CurrentFacts DEF create_body, Goto, OthersUnchanged, semVars, stackVars
<1>4. /\ \A t \in Threads : beingCreated(t) <=> t = child
      /\ \A t \in Threads : ~beingCreated(t)' /\ ~beingWoken(t) /\ ~beingWoken(t)'
  BY <1>1, <1>2, <1>3 DEF beingCreated, beingWoken
<1>5. state[child] = "READY" /\ ~OnList(ready_list, child) /\ state[cur] # "SUSPENDED"
  BY <1>1, <1>4 DEF QInv, ListInv, CurrentInv
<1>6. IsInjective(ready_list')
      /\ \A t \in Threads : OnList(ready_list', t) <=> OnList(ready_list, t) \/ t = child
  BY <1>3, <1>5, AppendOnce DEF IInv, TypeOK, SchedTypeOK, QInv, ListInv
<1>7. ListInv'
  <2>1. ASSUME NEW t \in Threads PROVE OnList(ready_list', t) <=> state[t] = "READY"
    BY <1>4, <1>5, <1>6 DEF QInv, ListInv
  <2>. QED  BY <1>3, <1>4, <1>6, <2>1 DEF QInv, ListInv, OnList
<1>8. CurrentInv'
  BY <1>3, <1>5 DEF QInv, CurrentInv
<1>9. WaiterInv'
  <2>1. ASSUME NEW s \in Sems
        PROVE  IsInjective(waiters[s])' /\ (waiters[s] # <<>> => count[s] = 0)'
    BY <1>3 DEF QInv, WaiterInv
  <2>2. ASSUME NEW s \in Sems, NEW t \in Threads, Queued(t, s)'
        PROVE  (sem[t] = s /\ inSemaphoreLock(t) /\ state[t] = "SUSPENDED" /\ ~beingWoken(t))'
    <3>1. Queued(t, s)
      BY <1>3, <2>2 DEF Queued
    <3>2. sem[t] = s /\ inSemaphoreLock(t) /\ state[t] = "SUSPENDED" /\ t # cur
      BY <1>5, <3>1 DEF QInv, WaiterInv
    <3>3. inSemaphoreLock(t)'
      BY <1>3, <3>2 DEF OthersUnchanged, inSemaphoreLock, place
    <3>. QED  BY <1>3, <1>4, <3>2, <3>3
  <2>3. ASSUME NEW t \in Threads, (state[t] = "SUSPENDED")'
        PROVE  (blocker[t] \in Sems /\ Queued(t, blocker[t]))'
    <3>1. blocker[t] \in Sems /\ Queued(t, blocker[t]) /\ t # child
      BY <1>3, <1>4, <1>5, <2>3 DEF QInv, WaiterInv
    <3>2. blocker'[t] = blocker[t]
      BY <1>3, <3>1 DEF IInv, TypeOK, SemTypeOK
    <3>. QED  BY <1>3, <3>1, <3>2 DEF Queued
  <2>. QED  BY <1>4, <2>1, <2>2, <2>3 DEF WaiterInv
<1>10. UnitsInv' /\ UnitsStay
  <2>1. intd[cur] = "none"
    BY <1>1, CurrentFacts
  <2>2. \A s \in Sems : ~Owns(cur, s) /\ ~Owns(cur, s)'
    BY <1>1, <1>3, <2>1, CurrentFacts DEF Owns, inSemaphoreLock, place
  <2>. QED  BY <1>3, <2>2, QuietOwners
<1>. QED  BY <1>7, <1>8, <1>9, <1>10 DEF QInv
-----------------------------------------------------------------------------
\* The lists and the units are right when kernel_main has initialised everything.
LEMMA InitQ ==
  Init => QInv /\ UnitsInv /\ Abstract!AbstractInit
<1>. SUFFICES ASSUME Init PROVE QInv /\ UnitsInv /\ Abstract!AbstractInit
  OBVIOUS
<1>. USE SchedulerAssumption, SemaphoreAssumption
     DEF Init, SpinInit, thread_init, semaphore_init
<1>1. \A t \in Threads : ~OnList(<<>>, t) /\ ~beingCreated(t) /\ ~beingWoken(t)
  BY DEF OnList, beingCreated, beingWoken
<1>2. IsInjective(<<>>)
  BY DEF IsInjective
<1>3. ListInv /\ CurrentInv
  BY <1>1, <1>2 DEF ListInv, CurrentInv
<1>4. WaiterInv
  BY <1>1, <1>2 DEF WaiterInv, Queued
<1>5. \A s \in Sems : Owners(s) = {}
  BY DEF Owners, Owns
<1>6. \A s \in Sems : count[s] = InitialUnits(s) /\ InitialUnits(s) \in Nat
  BY DEF InitialUnits, mutex_init
<1>7. UnitsInv
  <2>1. IsFiniteSet({}) /\ Cardinality({}) = 0
    BY FS_EmptySet, Zenon
  <2>2. \A s \in Sems : IsFiniteSet(Owners(s)) /\ Cardinality(Owners(s)) = 0
    BY <1>5, <2>1, Zenon
  <2>. QED  BY <1>6, <2>2 DEF UnitsInv
<1>8. Abstract!AbstractInit
  BY <1>5, <1>6 DEF Abstract!AbstractInit
<1>. QED  BY <1>3, <1>4, <1>7, <1>8 DEF QInv

\* Every step preserves it, and moves units and waiters as AbstractSemaphore says
\* or not at all: one lemma per action.
LEMMA NextQ ==
  ASSUME IInv, QInv, UnitsInv, [Next]_vars
  PROVE  QInv' /\ UnitsInv' /\ (UnitsStay \/ Abstract!AbstractNext)
<1>1. PICK cur \in Threads : cur = current_thread
  BY CurrentFacts
<1>2. CASE UNCHANGED vars
  <2>1. /\ UNCHANGED <<current_thread, ready_list, suspended_list, state, blocker>>
        /\ UNCHANGED <<pc, ret, intd, thread, count, waiters, sem>>
    BY <1>2, SMTT(30) DEF vars, spinVars, schedVars, listVars, stackVars, semVars
  <2>2. ListInv'
    BY <2>1 DEF QInv, ListInv, OnList, beingCreated
  <2>3. CurrentInv'
    BY <2>1 DEF QInv, CurrentInv, inSemaphoreLock, place
  <2>4. WaiterInv'
    BY <2>1 DEF QInv, WaiterInv, Queued, inSemaphoreLock, place, beingWoken
  <2>5. \A s \in Sems : Owners(s)' = Owners(s) /\ InitialUnits(s)' = InitialUnits(s)
    BY <2>1 DEF Owners, Owns, Queued, inSemaphoreLock, place, InitialUnits
  <2>6. UnitsInv' /\ UnitsStay
    BY <2>1, <2>5 DEF UnitsInv, UnitsStay
  <2>. QED  BY <2>2, <2>3, <2>4, <2>6 DEF QInv
<1>3. CASE Tick
  BY <1>1, <1>3, TimerInterruptQ DEF Tick
<1>4. ASSUME NEW t \in Threads, current_thread = t, Client
      PROVE  QInv' /\ UnitsInv' /\ UnitsStay
  <2>1. ASSUME NEW child \in Threads, create(child) PROVE QInv' /\ UnitsInv' /\ UnitsStay
    BY <1>1, <2>1, CreateQ
  <2>2. CASE yield
    BY <1>1, <2>2, YieldQ
  <2>3. ASSUME NEW s \in Sems, lock_sem(s) PROVE QInv' /\ UnitsInv' /\ UnitsStay
    BY <1>1, <2>3, SemaphoreLockQ DEF lock_sem
  <2>4. ASSUME NEW s \in Sems, try_lock_sem(s) PROVE QInv' /\ UnitsInv' /\ UnitsStay
    BY <1>1, <2>4, SemaphoreTryLockQ DEF try_lock_sem
  <2>5. CASE exit
    BY <1>1, <2>5, ThreadExitQ DEF exit
  <2>. QED  BY <1>4, <2>1, <2>2, <2>3, <2>4, <2>5 DEF Client
<1>5. CASE SchedulerStep
  BY <1>1, <1>5, TimerCallbackQ, YieldBodyQ, SwitchedQ, YieldDoneQ, IrqExitQ,
     WakeupBodyQ, WakeupDoneQ, CreateBodyQ, CreateDoneQ, ThreadEntryQ,
     ThreadEntryReturnQ DEF SchedulerStep
<1>6. CASE SemaphoreStep
  <2>1. CASE lock_return \/ lock_block_unlock \/ lock_yield \/ try_failed
               \/ semaphore_unlock \/ unlock_return
    BY <1>1, <2>1, LockReturnQ, LockBlockUnlockQ, LockYieldQ, TryFailedQ,
       SemaphoreUnlockQ, UnlockReturnQ
  <2>2. CASE lock_got \/ try_got
    BY <1>1, <2>2, GotQ DEF Abstract!AbstractNext
  <2>3. CASE lock_block
    BY <1>1, <2>3, LockBlockQ DEF Abstract!AbstractNext
  <2>4. CASE unlock_count
    BY <1>1, <2>4, UnlockCountQ DEF Abstract!AbstractNext
  <2>5. CASE unlock_wakeup
    BY <1>1, <2>5, UnlockWakeupQ DEF Abstract!AbstractNext
  <2>. QED  BY <1>6, <2>1, <2>2, <2>3, <2>4, <2>5 DEF SemaphoreStep
<1>. QED  BY <1>2, <1>3, <1>4, <1>5, <1>6 DEF Next, Step

\* Lists, waiters and units are right in every state of every run.
THEOREM QueueInvariance == Spec => [](IInv /\ QInv /\ UnitsInv)
<1>1. IInv /\ QInv /\ UnitsInv /\ [Next]_vars => (IInv /\ QInv /\ UnitsInv)'
  BY NextInv, NextQ
<1>. QED  BY <1>1, InitInv, InitQ, PTL DEF Spec

\* A thread is on the list its state says and on no other, once.
THEOREM ListsRight == Spec => []ThreadQueues
<1>1. ASSUME IInv, QInv PROVE ThreadQueues
  <2>. DEFINE at(list, t) == {i \in DOMAIN list : list[i] = t}
  <2>1. ASSUME NEW list \in Seq(Threads), IsInjective(list), NEW t \in Threads
        PROVE  Cardinality(at(list, t)) = IF OnList(list, t) THEN 1 ELSE 0
    <3>1. CASE OnList(list, t)
      <4>1. PICK i \in DOMAIN list : list[i] = t
        BY <3>1 DEF OnList
      <4>2. at(list, t) = {i}
        BY <2>1, <4>1 DEF IsInjective
      <4>. QED  BY <3>1, <4>2, FS_Singleton
    <3>2. CASE ~OnList(list, t)
      <4>1. at(list, t) = {}
        BY <3>2 DEF OnList
      <4>. QED  BY <3>2, <4>1, FS_EmptySet
    <3>. QED  BY <3>1, <3>2
  <2>2. ready_list \in Seq(Threads) /\ suspended_list \in Seq(Threads)
    BY <1>1 DEF IInv, TypeOK, SchedTypeOK
  <2>3. \A t \in Threads :
          /\ Cardinality(at(ready_list, t)) = IF OnList(ready_list, t) THEN 1 ELSE 0
          /\ Cardinality(at(suspended_list, t)) = IF OnList(suspended_list, t) THEN 1 ELSE 0
    BY <1>1, <2>1, <2>2 DEF QInv, ListInv
  <2>. QED  BY <1>1, <2>3 DEF ThreadQueues, QInv, ListInv, beingCreated
<1>. QED  BY <1>1, QueueInvariance, PTL

\* Units are neither lost nor made: what is free and what is owned add up.
THEOREM UnitsKept == Spec => []UnitsConserved
<1>1. UnitsInv => UnitsConserved
  BY DEF UnitsInv, UnitsConserved
<1>. QED  BY <1>1, QueueInvariance, PTL

\* Two threads are never both between mutex_lock and mutex_unlock of a mutex.
THEOREM Exclusion == Spec => []MutualExclusion
<1>1. ASSUME IInv, UnitsInv PROVE MutualExclusion
  <2>. SUFFICES ASSUME NEW s \in Mutexes, NEW t \in Threads, NEW u \in Threads, t # u,
                       sem[t] = s, place(t) = "cs", sem[u] = s, place(u) = "cs"
                PROVE  FALSE
    BY DEF MutualExclusion
  <2>1. s \in Sems /\ count[s] \in Nat
    BY <1>1, SemaphoreAssumption DEF IInv, TypeOK, SemTypeOK
  <2>2. t \in Owners(s) /\ u \in Owners(s)
    BY DEF Owners, Owns
  <2>3. IsFiniteSet(Owners(s)) /\ count[s] + Cardinality(Owners(s)) = 1
    BY <1>1, <2>1 DEF UnitsInv, InitialUnits, mutex_init
  <2>4. IsFiniteSet(Owners(s) \ {t}) /\ Cardinality(Owners(s) \ {t}) = Cardinality(Owners(s)) - 1
    BY <2>2, <2>3, FS_RemoveElement
  <2>5. Cardinality(Owners(s) \ {t}) = 0
    BY <2>1, <2>3, <2>4, FS_CardinalityType
  <2>. QED  BY <2>2, <2>4, <2>5, FS_EmptySet
<1>. QED  BY <1>1, QueueInvariance, PTL

\* Nobody sleeps beside a free unit, and nobody sleeps whom no unlock will find.
THEOREM NothingLost == Spec => []NoLostWakeup
<1>1. IInv /\ QInv => NoLostWakeup
  BY DEF QInv, WaiterInv, NoLostWakeup, beingWoken
<1>. QED  BY <1>1, QueueInvariance, PTL

\* A queued thread leaves the queue only as its head, with the unit, and while the
\* count stays at 0.
THEOREM HandedOff == Spec => HandOff
<1>1. ASSUME IInv, QInv, UnitsInv, [Next]_vars,
             NEW s \in Sems, NEW t \in Threads, Queued(t, s), ~Queued(t, s)'
      PROVE  Owns(t, s)' /\ waiters[s][1] = t /\ count'[s] = count[s]
  <2>1. waiters \in [Sems -> Seq(Threads)] /\ count \in [Sems -> Nat]
    BY <1>1 DEF IInv, TypeOK, SemTypeOK
  <2>2. PICK c \in Threads, s0 \in Sems : Abstract!HandOver(c, s0)
    <3>1. waiters' # waiters
      BY <1>1 DEF Queued
    <3>2. ASSUME NEW c \in Threads, NEW s0 \in Sems PROVE ~Abstract!Enqueue(c, s0)
      <4>1. SUFFICES ASSUME waiters' = [waiters EXCEPT ![s0] = Append(@, c)] PROVE Queued(t, s)'
        BY <1>1 DEF Abstract!Enqueue
      <4>2. CASE s = s0
        <5>1. \E i \in DOMAIN waiters[s] : waiters[s][i] = t
          BY <1>1 DEF Queued
        <5>2. waiters[s] \in Seq(Threads) /\ waiters'[s] = Append(waiters[s], c)
          BY <2>1, <4>1, <4>2
        <5>3. \E i \in DOMAIN waiters'[s] : waiters'[s][i] = t
          BY <5>1, <5>2
        <5>. QED  BY <5>3 DEF Queued
      <4>3. CASE s # s0
        BY <1>1, <2>1, <4>1, <4>3 DEF Queued
      <4>. QED  BY <4>2, <4>3
    <3>3. Abstract!AbstractNext
      BY <1>1, <3>1, NextQ DEF UnitsStay
    <3>. QED  BY <3>1, <3>2, <3>3
              DEF Abstract!AbstractNext, Abstract!Acquire, Abstract!Release
  <2>3. /\ waiters' = [waiters EXCEPT ![s0] = Tail(@)] /\ waiters[s0] # <<>>
        /\ UNCHANGED count
        /\ [r \in Sems |-> Owners(r)]' =
             [[r \in Sems |-> Owners(r)] EXCEPT ![s0] = (@ \ {c}) \cup {Head(waiters[s0])}]
    BY <2>2 DEF Abstract!HandOver
  <2>4. s = s0
    BY <1>1, <2>1, <2>3 DEF Queued
  <2>5. OnList(waiters[s], t) /\ ~OnList(Tail(waiters[s]), t)
    BY <1>1, <2>1, <2>3, <2>4 DEF Queued, OnList
  <2>6. t = Head(waiters[s])
    BY <1>1, <2>1, <2>3, <2>4, <2>5, TailOnce DEF QInv, WaiterInv
  <2>7. waiters[s][1] = t
    BY <2>1, <2>6
  <2>8. Owns(t, s)'
    BY <2>3, <2>4, <2>6 DEF Owners
  <2>. QED  BY <2>3, <2>7, <2>8
<1>2. IInv /\ QInv /\ UnitsInv /\ [Next]_vars =>
        [\A s \in Sems : \A t \in Threads :
           Queued(t, s) /\ ~Queued(t, s)' =>
             /\ Owns(t, s)'
             /\ waiters[s][1] = t
             /\ count'[s] = count[s]]_vars
  BY <1>1
<1>. QED  BY <1>2, QueueInvariance, PTL DEF Spec, HandOff

\* The kernel's semaphores implement the abstract first-come first-served ones:
\* the state maps to free, queue and owner, and every step to one operation of
\* AbstractSemaphore or to none.
THEOREM SemaphoreRefinement == Spec => ImplementsSemaphore
<1>1. UnitsStay => UNCHANGED Abstract!avars
  BY DEF UnitsStay, Abstract!avars
<1>2. IInv /\ QInv /\ UnitsInv /\ [Next]_vars => [Abstract!AbstractNext]_Abstract!avars
  BY <1>1, NextQ
<1>. QED  BY <1>2, InitQ, QueueInvariance, PTL
          DEF Spec, ImplementsSemaphore, Abstract!AbstractSpec

-----------------------------------------------------------------------------
(***************************************************************************)
(* The lists and the thread that runs, as AbstractLists has them: only     *)
(* three steps touch a list, and ListInv says that the thread each of them *)
(* appends is on none.                                                     *)
(***************************************************************************)
\* thread_create's list_append.
LEMMA CreateInserts ==
  ASSUME IInv, QInv, create_body
  PROVE  Queues!AbstractNext
<1>. DEFINE child == thread[current_thread]
<1>1. child \in Threads /\ beingCreated(child)
  BY DEF create_body, At, IInv, ExistInv, beingCreated
<1>2. ~OnList(ready_list, child) /\ ~OnList(suspended_list, child)
  BY <1>1 DEF QInv, ListInv
<1>3. UNCHANGED <<current_thread, suspended_list>> /\ ready_list' = Append(ready_list, child)
  BY DEF create_body
<1>. HIDE DEF child
<1>4. Queues!Insert(child, "ready_list")
  BY <1>2, <1>3 DEF Queues!Insert, Queues!OnNone, OnList
<1>. QED  BY <1>1, <1>4 DEF Queues!AbstractNext

\* thread_wakeup: one thread passes from the suspended to the end of the ready.
LEMMA WakeupMoves ==
  ASSUME IInv, QInv, wakeup_body
  PROVE  Queues!AbstractNext \/ UNCHANGED Queues!avars
<1>. DEFINE t == thread[current_thread]
<1>1. CASE UNCHANGED <<current_thread, ready_list, suspended_list>>
  BY <1>1 DEF Queues!avars
<1>2. CASE ~UNCHANGED <<current_thread, ready_list, suspended_list>>
  <2>1. /\ t \in Threads /\ beingWoken(t)
    BY DEF wakeup_body, At, IInv, ExistInv, beingWoken
  <2>2. /\ state[t] = "SUSPENDED" /\ UNCHANGED current_thread
        /\ ready_list' = Append(ready_list, t)
        /\ suspended_list' = list_remove(suspended_list, t)
    BY <1>2 DEF wakeup_body
  <2>3. t # current_thread /\ OnList(suspended_list, t)
    BY <2>1, <2>2 DEF QInv, ListInv, CurrentInv, beingWoken
  <2>. HIDE DEF t
  <2>4. suspended_list \in Seq(Threads) /\ IsInjective(suspended_list)
    BY DEF IInv, TypeOK, SchedTypeOK, QInv, ListInv
  <2>5. PICK k \in 1..Len(suspended_list) : suspended_list[k] = t
    BY <2>3, <2>4 DEF OnList
  <2>6. suspended_list' = [i \in 1..(Len(suspended_list) - 1) |->
            IF i < k THEN suspended_list[i] ELSE suspended_list[i + 1]]
    BY <2>2, <2>4, <2>5, RemoveCuts
  <2>7. k \in DOMAIN suspended_list
    BY <2>4
  <2>8. Queues!Move(k, "suspended_list", "ready_list")
    BY <2>2, <2>5, <2>6, <2>7 DEF Queues!Move, Queues!CutAt
  <2>. QED  BY <2>7, <2>8 DEF Queues!AbstractNext
<1>. QED  BY <1>1, <1>2

\* thread_schedule: the current thread goes to the end of the list of its state, and
\* the first of the ready ones becomes the current thread.
LEMMA ScheduleSwitches ==
  ASSUME IInv, QInv, yield_body
  PROVE  Queues!AbstractNext \/ UNCHANGED Queues!avars
<1>. DEFINE cur == current_thread
            st == IF state[cur] = "RUNNING" THEN "READY" ELSE state[cur]
<1>1. CASE UNCHANGED <<current_thread, ready_list, suspended_list>>
  BY <1>1 DEF Queues!avars
<1>2. CASE ~UNCHANGED <<current_thread, ready_list, suspended_list>>
  <2>1. /\ state[cur] \in {"RUNNING", "SUSPENDED"} /\ thread_schedule(st)
        /\ ready_list # <<>> /\ switch_from(st)
    BY <1>2 DEF yield_body, thread_schedule
  <2>2. cur \in Threads /\ ready_list \in Seq(Threads) /\ suspended_list \in Seq(Threads)
    BY DEF IInv, TypeOK, SchedTypeOK
  <2>3. ~OnList(ready_list, cur) /\ ~OnList(suspended_list, cur)
    BY <2>1, <2>2 DEF QInv, ListInv
  <2>4. /\ Head(Append(ready_list, cur)) = Head(ready_list)
        /\ Tail(Append(ready_list, cur)) = Append(Tail(ready_list), cur)
    BY <2>1, <2>2, HeadTailAppend
  <2>5. /\ current_thread' = Head(ready_list)
        /\ ready_list' = IF st = "READY" THEN Append(Tail(ready_list), cur) ELSE Tail(ready_list)
        /\ suspended_list' = IF st = "READY" THEN suspended_list
                             ELSE Append(suspended_list, cur)
    BY <2>1, <2>4 DEF switch_from
  <2>6. Queues!OnNone(cur)
    BY <2>3 DEF Queues!OnNone, OnList
  <2>. HIDE DEF st
  <2>7. CASE st = "READY"
    <3>1. Queues!Switch("ready_list", "ready_list")
      BY <2>1, <2>2, <2>5, <2>6, <2>7 DEF Queues!Switch
    <3>. QED  BY <3>1 DEF Queues!AbstractNext
  <2>8. CASE st # "READY"
    <3>1. Queues!Switch("suspended_list", "ready_list")
      BY <2>1, <2>2, <2>5, <2>6, <2>8 DEF Queues!Switch
    <3>. QED  BY <3>1 DEF Queues!AbstractNext
  <2>. QED  BY <2>7, <2>8
<1>. QED  BY <1>1, <1>2

\* No other step touches a list or switches.
LEMMA ListsStep ==
  ASSUME IInv, QInv, [Next]_vars
  PROVE  Queues!AbstractNext \/ UNCHANGED Queues!avars
<1>1. CASE UNCHANGED <<current_thread, ready_list, suspended_list>>
  BY <1>1 DEF Queues!avars
<1>2. CASE ~UNCHANGED <<current_thread, ready_list, suspended_list>>
  <2>1. ~UNCHANGED vars /\ ~Tick
    BY <1>2 DEF vars, schedVars, listVars, Tick, timer_interrupt
  <2>2. ~Client
    BY <1>2 DEF Client, create, yield, lock_sem, try_lock_sem, exit, thread_create,
                thread_yield, semaphore_lock, semaphore_try_lock, thread_exit, schedUnchanged,
                schedVars, listVars
  <2>3. ~SemaphoreStep
    BY <1>2 DEF SemaphoreStep, lock_got, lock_return, lock_block, lock_block_unlock, lock_yield,
                try_got, try_failed, semaphore_unlock, unlock_count, unlock_wakeup,
                unlock_return, thread_yield, schedUnchanged, listVars
  <2>4. SchedulerStep
    BY <2>1, <2>2, <2>3 DEF Next, Step
  <2>5. yield_body \/ wakeup_body \/ create_body
    BY <1>2, <2>4 DEF SchedulerStep, timer_callback, switched, yield_done, irq_exit, wakeup_done,
                      create_done, thread_entry, thread_entry_return, listVars
  <2>. QED  BY <2>5, ScheduleSwitches, WakeupMoves, CreateInserts
<1>. QED  BY <1>1, <1>2

\* The scheduler is first come first served: the thread that runs next is the one
\* that became ready first, one that is switched out or woken goes to the end, and
\* nobody is appended to a list while it is on one.
THEOREM SchedulerRefinement == Spec => ImplementsLists
<1>1. Init => Queues!AbstractInit
  BY SchedulerAssumption DEF Init, thread_init, Queues!AbstractInit
<1>2. IInv /\ QInv /\ UnitsInv /\ [Next]_vars => [Queues!AbstractNext]_Queues!avars
  BY ListsStep
<1>. QED  BY <1>1, <1>2, QueueInvariance, PTL
          DEF Spec, ImplementsLists, Queues!AbstractSpec

\* A masked timer has somebody to unmask it: a thread inside its timer interrupt or
\* at the start of thread_entry stays there until it has unmasked IRQ 0.
THEOREM MaskOwned == Spec => []MaskHasOwner
<1>. DEFINE owner(t) == intd[t] # "none" \/ pc[t] \in EntryLabels
<1>1. Init => MaskHasOwner
  BY DEF Init, thread_init, MaskHasOwner
<1>2. ASSUME IInv, [Next]_vars, irq0_masked'
      PROVE  \/ \E t \in Threads : owner(t)'
             \/ irq0_masked /\ \A t \in Threads : owner(t) => owner(t)'
  <2>. USE <1>2 DEF EntryLabels
  <2>0. pc \in [Threads -> Labels] /\ intd \in [Threads -> {"none"} \cup InterruptibleLabels]
        /\ current_thread \in Threads
    BY DEF IInv, TypeOK, SchedTypeOK
  <2>1. CASE UNCHANGED vars
    BY <2>1 DEF vars, schedVars, stackVars
  <2>2. CASE Tick
    BY <2>0, <2>2 DEF Tick, timer_interrupt, IInv, FlagInv
  <2>3. ASSUME NEW t \in Threads, current_thread = t, Client
        PROVE  irq0_masked /\ \A u \in Threads : owner(u) => owner(u)'
    <3>1. ASSUME NEW child \in Threads, create(child)
          PROVE  irq0_masked /\ \A u \in Threads : owner(u) => owner(u)'
      BY <2>0, <3>1 DEF create, thread_create, At
    <3>2. CASE yield
      BY <2>0, <3>2 DEF yield, thread_yield, At, Goto
    <3>3. ASSUME NEW s \in Sems, semaphore_lock(s) \/ semaphore_try_lock(s)
          PROVE  irq0_masked /\ \A u \in Threads : owner(u) => owner(u)'
      BY <2>0, <3>3
      DEF semaphore_lock, semaphore_try_lock, schedUnchanged, stackVars, At, Goto
    <3>4. CASE exit
      BY <3>4 DEF exit, thread_exit, schedVars, stackVars
    <3>. QED  BY <2>3, <3>1, <3>2, <3>3, <3>4 DEF Client, lock_sem, try_lock_sem
  <2>4. CASE SchedulerStep
    <3>1. CASE irq_exit \/ thread_entry_return
      BY <3>1 DEF irq_exit, thread_entry_return
    <3>2. CASE yield_body
      BY <2>0, <3>2
      DEF yield_body, thread_schedule, switch_from, At, Goto
    <3>3. CASE timer_callback \/ switched \/ yield_done \/ wakeup_body \/ wakeup_done
                 \/ create_body \/ create_done \/ thread_entry
      BY <2>0, <3>3
      DEF timer_callback, switched, yield_done, wakeup_body, wakeup_done, create_body,
          create_done, thread_entry, stackVars, At, Goto
    <3>. QED  BY <2>4, <3>1, <3>2, <3>3 DEF SchedulerStep
  <2>5. CASE SemaphoreStep
    BY <2>0, <2>5
    DEF SemaphoreStep, lock_got, lock_return, lock_block, lock_block_unlock, lock_yield,
        thread_yield, try_got, try_failed, semaphore_unlock, unlock_count, unlock_wakeup,
        unlock_return, schedUnchanged, stackVars, At, Goto
  <2>. QED  BY <2>1, <2>2, <2>3, <2>4, <2>5 DEF Next, Step
<1>3. IInv /\ MaskHasOwner /\ [Next]_vars => MaskHasOwner'
  BY <1>2 DEF MaskHasOwner
<1>. QED  BY <1>1, <1>3, Invariance, PTL DEF Spec
-----------------------------------------------------------------------------
\* How the machine looks when it has stopped.
DeadInv ==
  cpu = "fatal" => /\ pc[current_thread] = "yield_body"
                   /\ state[current_thread] = "SUSPENDED"
                   /\ ready_list = <<>>

\* A spin_unlock at a label under its lock never fails its assert.
LEMMA UnlockNotFatal ==
  ASSUME IInv, cpu = "running", NEW l \in Locks, spin_unlock(l),
         pc[current_thread] \in SchedulerLockLabels \cup SemLockLabels
  PROVE  cpu' # "fatal"
<1>1. ~intr
  BY DEF IInv, FlagInv
<1>2. g_spinLockCount # 0
  BY DEF IInv, LocksInv
<1>. QED  BY <1>1, <1>2 DEF spin_unlock

\* No step stops the machine but a thread_yield with nobody to switch to.
LEMMA NextDead ==
  ASSUME IInv, QInv, DeadInv, [Next]_vars
  PROVE  DeadInv'
<1>. USE SchedulerAssumption, SemaphoreAssumption
<1>1. CASE UNCHANGED vars
  BY <1>1 DEF DeadInv, vars, spinVars, schedVars, listVars
<1>2. SUFFICES ASSUME Next PROVE DeadInv'
  BY <1>1
<1>3. cpu = "running"
  BY <1>2
  DEF Next, Tick, timer_interrupt, Step, Client, create, thread_create, yield, lock_sem,
      semaphore_lock, try_lock_sem, semaphore_try_lock, exit, thread_exit, SchedulerStep,
      timer_callback, yield_body, switched, yield_done, irq_exit, wakeup_body, wakeup_done,
      create_body, create_done, thread_entry, thread_entry_return, SemaphoreStep, lock_got,
      lock_return, lock_block, lock_block_unlock, lock_yield, try_got, try_failed,
      semaphore_unlock, unlock_count, unlock_wakeup, unlock_return, At
<1>4. CASE Tick
  BY <1>3, <1>4 DEF Tick, timer_interrupt, DeadInv
<1>5. ASSUME NEW t \in Threads, current_thread = t, Client PROVE cpu' # "fatal"
  <2>1. ASSUME NEW child \in Threads, create(child) PROVE cpu' # "fatal"
    BY <1>3, <2>1 DEF create, thread_create, At, spin_lock, IInv, FlagInv
  <2>. QED
    BY <1>3, <1>5, <2>1
    DEF Client, yield, thread_yield, lock_sem, semaphore_lock, try_lock_sem,
        semaphore_try_lock, exit, thread_exit, spin_lock
<1>6. CASE SchedulerStep
  <2>1. CASE yield_body
    <3>1. /\ pc[current_thread] = "yield_body" /\ current_thread \in Threads
          /\ lock[scheduler_lock] = 1 /\ g_spinLockCount = 1 /\ ~intr
      BY <2>1 DEF yield_body, At, IInv, LocksInv, FlagInv, TypeOK, SchedTypeOK
    <3>2. state[current_thread] \in {"RUNNING", "SUSPENDED"}
      BY DEF QInv, CurrentInv
    <3>3. CASE state[current_thread] = "SUSPENDED" /\ ready_list = <<>>
      BY <2>1, <3>1, <3>2, <3>3
      DEF yield_body, thread_schedule, schedule_refuses, Fatal, DeadInv
    <3>4. CASE ~(state[current_thread] = "SUSPENDED" /\ ready_list = <<>>)
      BY <1>3, <2>1, <3>1, <3>2, <3>4
      DEF yield_body, thread_schedule, schedule_refuses, switch_from, spinVars, DeadInv
    <3>. QED  BY <3>3, <3>4
  <2>2. CASE wakeup_body
    <3>1. PICK t \in Threads : t = thread[current_thread]
      BY <2>2 DEF wakeup_body, At, IInv, ExistInv
    <3>2. state[t] = "SUSPENDED"
      BY <2>2, <3>1 DEF wakeup_body, At, QInv, WaiterInv, beingWoken
    <3>. QED  BY <1>3, <2>2, <3>1, <3>2 DEF wakeup_body, spinVars, DeadInv
  <2>3. CASE yield_done \/ wakeup_done \/ create_done \/ thread_entry
    BY <1>3, <2>3, UnlockNotFatal
    DEF yield_done, wakeup_done, create_done, thread_entry, At, DeadInv
  <2>4. CASE timer_callback \/ switched \/ irq_exit \/ create_body \/ thread_entry_return
    BY <1>3, <2>4
    DEF timer_callback, switched, irq_exit, create_body, thread_entry_return, spin_lock,
        spinVars, DeadInv
  <2>. QED  BY <1>6, <2>1, <2>2, <2>3, <2>4 DEF SchedulerStep
<1>7. CASE SemaphoreStep
  <2>1. CASE lock_return \/ lock_block_unlock \/ try_failed \/ unlock_return
    <3>1. pc[current_thread] \in SemLockLabels
      BY <2>1 DEF lock_return, lock_block_unlock, try_failed, unlock_return, At
    <3>2. mySem \in Locks
      BY <3>1, AtSemaphore
    <3>. QED  BY <1>3, <2>1, <3>1, <3>2, UnlockNotFatal
              DEF lock_return, lock_block_unlock, try_failed, unlock_return, DeadInv
  <2>2. CASE ~(lock_return \/ lock_block_unlock \/ try_failed \/ unlock_return)
    BY <1>3, <1>7, <2>2
    DEF SemaphoreStep, lock_got, lock_block, lock_yield, thread_yield, try_got,
        semaphore_unlock, unlock_count, unlock_wakeup, spin_lock, spinVars, DeadInv
  <2>. QED  BY <2>1, <2>2
<1>. QED  BY <1>2, <1>4, <1>5, <1>6, <1>7 DEF Next, Step, DeadInv

\* No fatal(), no assert and no null pointer stops the machine, except that
\* thread_schedule has nobody to run: then every thread that exists sleeps.
THEOREM FatalOnlyAsleep == Spec => []OnlyDeadlockIsFatal
<1>1. Init => DeadInv
  BY DEF Init, SpinInit, DeadInv
<1>2. IInv /\ QInv /\ DeadInv => OnlyDeadlockIsFatal
  BY DEF IInv, TypeOK, SchedTypeOK, QInv, ListInv, OnList, beingCreated, DeadInv,
         OnlyDeadlockIsFatal
<1>3. IInv /\ QInv /\ DeadInv /\ [Next]_vars => DeadInv'
  BY NextDead
<1>. QED  BY <1>1, <1>2, <1>3, QueueInvariance, PTL DEF Spec

\* Nor does that ever happen where every semaphore starts with a unit, as mutexes do,
\* whoever locks, tries, yields or ends: among threads that all sleep one would own a
\* unit of the semaphore another one sleeps at, and an owner does not sleep.
THEOREM NeverStuck ==
  ASSUME \A s \in Sems : InitialUnits(s) > 0
  PROVE  Spec => []NoFailure
<1>1. ASSUME IInv, QInv, UnitsInv, DeadInv, cpu = "fatal"
      PROVE  FALSE
  <2>1. /\ pc[current_thread] = "yield_body" /\ state[current_thread] = "SUSPENDED"
        /\ ready_list = <<>> /\ current_thread \in Threads
    BY <1>1 DEF DeadInv, IInv, TypeOK, SchedTypeOK
  <2>2. \A t \in Threads : ~beingWoken(t) /\ ~beingCreated(t)
    BY <2>1 DEF beingWoken, beingCreated
  <2>3. \A t \in Threads : state[t] \in {"none", "SUSPENDED"}
    BY <1>1, <2>1, <2>2 DEF IInv, TypeOK, SchedTypeOK, QInv, ListInv, OnList
  <2>4. \A t \in Threads :
          state[t] = "SUSPENDED" =>
            /\ blocker[t] \in Sems /\ Queued(t, blocker[t])
            /\ sem[t] = blocker[t] /\ inSemaphoreLock(t)
    BY <1>1, <2>2 DEF QInv, WaiterInv
  <2>5. PICK s \in Sems : Queued(current_thread, s)
    BY <2>1, <2>4
  <2>6. count[s] = 0
    BY <1>1, <2>5 DEF QInv, WaiterInv, Queued
  <2>7. IsFiniteSet(Owners(s)) /\ count[s] + Cardinality(Owners(s)) = InitialUnits(s)
    BY <1>1 DEF UnitsInv
  <2>8. Cardinality(Owners(s)) # 0
    <3>1. Cardinality(Owners(s)) \in Nat
      BY <2>7, FS_CardinalityType
    <3>2. QED
      BY <3>1, <2>6, <2>7
  <2>9. PICK t \in Threads : Owns(t, s)
    BY <2>7, <2>8, FS_EmptySet DEF Owners
  <2>10. CASE state[t] = "none"
    <3>1. pc[t] = "none" /\ intd[t] = "none"
      BY <1>1, <2>10 DEF IInv, StackInv
    <3>2. QED
      BY <2>9, <3>1 DEF Owns, inSemaphoreLock, place
  <2>11. CASE state[t] = "SUSPENDED"
    <3>1. sem[t] = s /\ Queued(t, s) /\ inSemaphoreLock(t)
      BY <2>4, <2>9, <2>11 DEF Owns
    <3>2. place(t) \in {"lock_got", "cs", "unlock_body"}
      BY <2>9, <3>1 DEF Owns
    <3>3. QED
      BY <3>1, <3>2 DEF inSemaphoreLock
  <2>12. QED
    BY <2>3, <2>10, <2>11
<1>2. Init => DeadInv
  BY DEF Init, SpinInit, DeadInv
<1>3. IInv /\ QInv /\ DeadInv /\ [Next]_vars => DeadInv'
  BY NextDead
<1>4. IInv /\ QInv /\ UnitsInv /\ DeadInv => NoFailure
  BY <1>1 DEF NoFailure
<1>. QED  BY <1>2, <1>3, <1>4, QueueInvariance, PTL DEF Spec
=============================================================================
