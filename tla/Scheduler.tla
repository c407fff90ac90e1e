----------------------------- MODULE Scheduler -----------------------------
(***************************************************************************)
(* The scheduler of src/kernel/thread.c together with the timer interrupt  *)
(* that preempts threads (interrupt_dispatch for IRQ 0 and the iret of     *)
(* interrupt_exit).                                                        *)
(*                                                                         *)
(* Each thread is a small stack: "pc" is where it executes or will resume, *)
(* "ret" the caller a thread-level thread_yield returns to, "intd" the     *)
(* label the timer interrupted, "thread" the thread_t argument of the      *)
(* thread_wakeup or thread_create in progress and "saved" the local        *)
(* interruptsEnabled of thread_schedule, kept across thread_switch.  Only  *)
(* current_thread executes.                                                *)
(*                                                                         *)
(* The timer may strike at any label as long as the interrupt flag is on   *)
(* and IRQ 0 is unmasked: that critical sections are atomic is not built   *)
(* into the model, it is what the properties check.  A request that comes  *)
(* while the timer is masked stays latched in the PIC, so no tick is ever  *)
(* needed as a variable.  Ready and suspended lists are the linked lists   *)
(* of thread_t as sequences.                                               *)
(***************************************************************************)
EXTENDS Spinlock, SequencesExt

CONSTANTS
  Threads,                \* the thread_t objects
  thread0,                \* the thread kernel_main runs on
  scheduler_lock,         \* protects the scheduler and thread lists
  NULL                    \* a thread_t* or semaphore_t* that points nowhere

ASSUME SchedulerAssumption ==
  /\ thread0 \in Threads
  /\ scheduler_lock \in Locks
  /\ NULL \notin Threads

VARIABLES
  current_thread,
  ready_list,
  suspended_list,
  state,                  \* thread_t.state, "none" before thread_create
  blocker,                \* thread_t.blocker
  pc, ret, intd, thread, saved,
  irq0_masked             \* bit 0 of the master PIC's mask register

listVars == <<current_thread, ready_list, suspended_list, state, blocker>>
stackVars == <<ret, intd, thread, saved>>
schedVars == <<listVars, pc, stackVars, irq0_masked>>

(***************************************************************************)
(* The labels.  The first group is client code between calls; the others   *)
(* are inside the kernel, named after the function.                        *)
(***************************************************************************)
ClientLabels == {"run", "cs"}
YieldLabels == {"yield_body", "switched", "yield_done"}
HandlerLabels == {"timer_callback", "irq_exit"}
EntryLabels == {"entry", "entry_pic"}
WakeupLabels == {"wakeup_body", "wakeup_done"}
CreateLabels == {"create_body", "create_done"}
SemaphoreLabels == {"lock_body", "lock_got", "lock_block", "gap",
                    "try_body", "unlock_body", "unlock_done"}
Labels == {"none"} \cup ClientLabels \cup YieldLabels \cup HandlerLabels
            \cup EntryLabels \cup WakeupLabels \cup CreateLabels \cup SemaphoreLabels

\* Labels at which the interrupt flag may be on, so where the timer may strike.
InterruptibleLabels == ClientLabels \cup {"gap", "entry_pic"}

SchedTypeOK ==
  /\ current_thread \in Threads
  /\ ready_list \in Seq(Threads)
  /\ suspended_list \in Seq(Threads)
  /\ state \in [Threads -> {"none", "RUNNING", "READY", "SUSPENDED"}]
  /\ pc \in [Threads -> Labels]
  /\ ret \in [Threads -> ClientLabels]
  /\ intd \in [Threads -> {"none"} \cup InterruptibleLabels]
  /\ thread \in [Threads -> Threads \cup {NULL}]
  /\ saved \in [Threads -> BOOLEAN]
  /\ irq0_masked \in BOOLEAN

\* thread_init has run and timer_init has unmasked the timer.
thread_init ==
  /\ current_thread = thread0
  /\ ready_list = <<>>
  /\ suspended_list = <<>>
  /\ state = [t \in Threads |-> IF t = thread0 THEN "RUNNING" ELSE "none"]
  /\ blocker = [t \in Threads |-> NULL]
  /\ pc = [t \in Threads |-> IF t = thread0 THEN "run" ELSE "none"]
  /\ ret = [t \in Threads |-> "run"]
  /\ intd = [t \in Threads |-> "none"]
  /\ thread = [t \in Threads |-> NULL]
  /\ saved = [t \in Threads |-> FALSE]
  /\ irq0_masked = FALSE

\* list_remove unlinks the first occurrence and leaves a list without one alone.
list_remove(list, t) ==
  IF \E i \in DOMAIN list : list[i] = t
  THEN [i \in 1..(Len(list) - 1) |->
          IF \E j \in 1..i : list[j] = t THEN list[i + 1] ELSE list[i]]
  ELSE list

At(label) == cpu = "running" /\ pc[current_thread] = label
Goto(label) == pc' = [pc EXCEPT ![current_thread] = label]
Fatal == cpu' = "fatal" /\ UNCHANGED <<intr, lock, g_spinLockCount, g_interruptsEnabled>>
-----------------------------------------------------------------------------
(***************************************************************************)
(* The timer interrupt.                                                    *)
(***************************************************************************)
\* interrupt_dispatch up to the call of the handler: the CPU clears IF, IRQ 0 is
\* masked and acknowledged.
timer_interrupt ==
  /\ cpu = "running" /\ intr /\ ~irq0_masked
  /\ intr' = FALSE
  /\ irq0_masked' = TRUE
  /\ intd' = [intd EXCEPT ![current_thread] = pc[current_thread]]
  /\ Goto("timer_callback")
  /\ UNCHANGED <<cpu, lock, g_spinLockCount, g_interruptsEnabled,
                 listVars, ret, thread, saved>>

\* timer_callback: the call of thread_yield, up to and including its spin_lock.
timer_callback ==
  /\ At("timer_callback")
  /\ spin_lock(scheduler_lock)
  /\ Goto("yield_body")
  /\ UNCHANGED <<listVars, stackVars, irq0_masked>>

\* interrupt_dispatch in a build that leaves the timer masked when it returns.
irq_exit_masked ==
  /\ At("irq_exit")
  /\ intr' = TRUE
  /\ pc' = [pc EXCEPT ![current_thread] = intd[current_thread]]
  /\ intd' = [intd EXCEPT ![current_thread] = "none"]
  /\ UNCHANGED <<cpu, lock, g_spinLockCount, g_interruptsEnabled,
                 listVars, ret, thread, saved, irq0_masked>>

\* The rest of interrupt_dispatch, which unmasks IRQ 0, and the iret of
\* interrupt_exit, which restores the interrupted code's flags: IF was on.
irq_exit ==
  /\ At("irq_exit")
  /\ irq0_masked' = FALSE
  /\ intr' = TRUE
  /\ pc' = [pc EXCEPT ![current_thread] = intd[current_thread]]
  /\ intd' = [intd EXCEPT ![current_thread] = "none"]
  /\ UNCHANGED <<cpu, lock, g_spinLockCount, g_interruptsEnabled,
                 listVars, ret, thread, saved>>
-----------------------------------------------------------------------------
(***************************************************************************)
(* thread_yield and thread_schedule.                                       *)
(***************************************************************************)
\* A call of thread_yield by thread-level code, up to and including its spin_lock;
\* caller is the label it returns to.
thread_yield(caller) ==
  /\ spin_lock(scheduler_lock)
  /\ Goto("yield_body")
  /\ ret' = [ret EXCEPT ![current_thread] = caller]
  /\ UNCHANGED <<listVars, intd, thread, saved, irq0_masked>>

\* The four checks thread_schedule starts with, and the null pointer it would
\* write through when nobody is left to run.  st is the current thread's state.
schedule_refuses(st) ==
  \/ lock[scheduler_lock] = 0
  \/ g_spinLockCount # 1
  \/ st = "RUNNING"
  \/ intr
  \/ st # "READY" /\ ready_list = <<>>

\* The same in a build that pops the thread that became ready last.
switch_from_lifo(st) ==
  LET new_thread == Last(ready_list)
      rest == Front(ready_list)
  IN  /\ ready_list' = IF st = "READY" THEN Append(rest, current_thread) ELSE rest
      /\ suspended_list' = IF st = "READY" THEN suspended_list
                           ELSE Append(suspended_list, current_thread)
      /\ state' = [state EXCEPT ![current_thread] = st, ![new_thread] = "RUNNING"]
      /\ current_thread' = new_thread
      /\ saved' = [saved EXCEPT ![current_thread] = g_interruptsEnabled]
      /\ Goto("switched")
      /\ UNCHANGED spinVars

\* The rest of thread_schedule up to the stack switch of thread_switch: append
\* the current thread to the list of its state, pop the next one and run it.
switch_from(st) ==
  LET queue == IF st = "READY" THEN Append(ready_list, current_thread) ELSE ready_list
      new_thread == Head(queue)
  IN  /\ ready_list' = Tail(queue)
      /\ suspended_list' = IF st = "READY" THEN suspended_list
                           ELSE Append(suspended_list, current_thread)
      /\ state' = [state EXCEPT ![current_thread] = st, ![new_thread] = "RUNNING"]
      /\ current_thread' = new_thread
      /\ saved' = [saved EXCEPT ![current_thread] = g_interruptsEnabled]
      /\ Goto("switched")
      /\ UNCHANGED spinVars

thread_schedule(st) ==
  IF schedule_refuses(st)
  THEN Fatal /\ UNCHANGED <<current_thread, ready_list, suspended_list, state, pc, saved>>
  ELSE IF ready_list = <<>>
       THEN /\ state' = [state EXCEPT ![current_thread] = "RUNNING"]
            /\ Goto("yield_done")
            /\ UNCHANGED <<spinVars, current_thread, ready_list, suspended_list, saved>>
       ELSE switch_from(st)

\* thread_yield under the scheduler lock: a running thread becomes ready, a
\* suspended one (semaphore_lock) stays suspended, any other state is fatal.
yield_body ==
  /\ At("yield_body")
  /\ LET st == state[current_thread]
     IN  IF st \notin {"RUNNING", "SUSPENDED"}
         THEN Fatal /\ UNCHANGED <<current_thread, ready_list, suspended_list, state, pc, saved>>
         ELSE thread_schedule(IF st = "RUNNING" THEN "READY" ELSE st)
  /\ UNCHANGED <<blocker, ret, intd, thread, irq0_masked>>

\* thread_schedule in a build that leaves g_interruptsEnabled as the previous
\* thread left it.
switched_keeps_flag ==
  /\ At("switched")
  /\ Goto("yield_done")
  /\ UNCHANGED <<spinVars, listVars, stackVars, irq0_masked>>

\* thread_schedule after thread_switch came back to this thread.
switched ==
  /\ At("switched")
  /\ g_interruptsEnabled' = saved[current_thread]
  /\ Goto("yield_done")
  /\ UNCHANGED <<cpu, intr, lock, g_spinLockCount, listVars, stackVars, irq0_masked>>

\* Where thread_yield returns to: timer_callback's caller, or the thread's own code.
yield_returns_to == IF intd[current_thread] # "none" THEN "irq_exit" ELSE ret[current_thread]

\* thread_yield's spin_unlock and return.
yield_done ==
  /\ At("yield_done")
  /\ spin_unlock(scheduler_lock)
  /\ Goto(yield_returns_to)
  /\ ret' = IF intd[current_thread] # "none" THEN ret
            ELSE [ret EXCEPT ![current_thread] = "run"]
  /\ UNCHANGED <<listVars, intd, thread, saved, irq0_masked>>
-----------------------------------------------------------------------------
(***************************************************************************)
(* thread_wakeup, called by semaphore_unlock with the semaphore's spin     *)
(* lock held.                                                              *)
(***************************************************************************)
\* thread_wakeup in a build that leaves the thread on the suspended list.
wakeup_body_keeps_suspended ==
  /\ At("wakeup_body")
  /\ LET t == thread[current_thread]
     IN  /\ state' = [state EXCEPT ![t] = "READY"]
         /\ blocker' = [blocker EXCEPT ![t] = NULL]
         /\ ready_list' = Append(ready_list, t)
         /\ Goto("wakeup_done")
         /\ UNCHANGED <<spinVars, suspended_list>>
  /\ UNCHANGED <<current_thread, stackVars, irq0_masked>>

wakeup_body ==
  /\ At("wakeup_body")
  /\ LET t == thread[current_thread]
     IN  IF state[t] # "SUSPENDED"
         THEN Fatal /\ UNCHANGED <<state, blocker, suspended_list, ready_list, pc>>
         ELSE /\ state' = [state EXCEPT ![t] = "READY"]
              /\ blocker' = [blocker EXCEPT ![t] = NULL]
              /\ suspended_list' = list_remove(suspended_list, t)
              /\ ready_list' = Append(ready_list, t)
              /\ Goto("wakeup_done")
              /\ UNCHANGED spinVars
  /\ UNCHANGED <<current_thread, stackVars, irq0_masked>>

\* thread_wakeup's spin_unlock and return to semaphore_unlock.
wakeup_done ==
  /\ At("wakeup_done")
  /\ spin_unlock(scheduler_lock)
  /\ Goto("unlock_done")
  /\ thread' = [thread EXCEPT ![current_thread] = NULL]
  /\ UNCHANGED <<listVars, ret, intd, saved, irq0_masked>>
-----------------------------------------------------------------------------
(***************************************************************************)
(* thread_create, and a thread's first and last instructions.              *)
(***************************************************************************)
\* thread_create up to its spin_lock: the new thread_t is ready but on no list,
\* and the frames built on its stack make it start in thread_entry.
thread_create(child) ==
  /\ At("run")
  /\ state[child] = "none"
  /\ IF intr THEN spin_lock(scheduler_lock) ELSE Fatal
  /\ state' = [state EXCEPT ![child] = "READY"]
  /\ pc' = [pc EXCEPT ![current_thread] = "create_body", ![child] = "entry"]
  /\ thread' = [thread EXCEPT ![current_thread] = child]
  /\ UNCHANGED <<current_thread, ready_list, suspended_list, blocker,
                 ret, intd, saved, irq0_masked>>

create_body ==
  /\ At("create_body")
  /\ ready_list' = Append(ready_list, thread[current_thread])
  /\ blocker' = [blocker EXCEPT ![thread[current_thread]] = NULL]
  /\ Goto("create_done")
  /\ UNCHANGED <<spinVars, current_thread, suspended_list, state, stackVars, irq0_masked>>

create_done ==
  /\ At("create_done")
  /\ spin_unlock(scheduler_lock)
  /\ Goto("run")
  /\ thread' = [thread EXCEPT ![current_thread] = NULL]
  /\ UNCHANGED <<listVars, ret, intd, saved, irq0_masked>>

\* thread_entry's spin_unlock of the lock that thread_yield of the previous
\* thread took.  It looks at the g_interruptsEnabled that thread left behind.
thread_entry ==
  /\ At("entry")
  /\ spin_unlock(scheduler_lock)
  /\ Goto("entry_pic")
  /\ UNCHANGED <<listVars, stackVars, irq0_masked>>

\* thread_entry's pic_enable_irq(0), and the return through interrupt_exit into
\* the thread function with the IF that thread_create put in the frame.
thread_entry_return ==
  /\ At("entry_pic")
  /\ irq0_masked' = FALSE
  /\ intr' = TRUE
  /\ Goto("run")
  /\ UNCHANGED <<cpu, lock, g_spinLockCount, g_interruptsEnabled, listVars, stackVars>>

\* The thread function returns into thread_exit: cli; hlt, for ever.
thread_exit ==
  /\ At("run")
  /\ cpu' = "halted"
  /\ intr' = FALSE
  /\ UNCHANGED <<lock, g_spinLockCount, g_interruptsEnabled, schedVars>>
=============================================================================
