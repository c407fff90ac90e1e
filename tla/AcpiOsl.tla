------------------------------ MODULE AcpiOsl ------------------------------
(***************************************************************************)
(* The lock services of src/kernel/acpi.c under the part of ACPICA that    *)
(* calls them while others wait: the interpreter lock (utmutex.c), the     *)
(* mutexes of AML code (exsystem.c), and the reader/writer lock that keeps *)
(* namespace walks and table unloads apart (utlock.c).                     *)
(*                                                                         *)
(* mutex_lock, mutex_try_lock and mutex_unlock are the single steps of     *)
(* AbstractSemaphore, which Kernel implements: a unit given back goes to   *)
(* the head of the queue.                                                  *)
(*                                                                         *)
(* Left out: ACPI_MTX_NAMESPACE, which a walk holds between two callbacks  *)
(* (nsxfeval.c:656), and ACPI_MTX_TABLES, which an unload gives back       *)
(* before it waits for the write lock (tbdata.c:656).                      *)
(***************************************************************************)
EXTENDS Naturals, Sequences, FiniteSets

CONSTANTS
  Threads,
  Walkers,          \* call AcpiWalkNamespace, as acpi_init's AcpiGetDevices does
  Callers,          \* evaluate a control method
  Unloaders,        \* evaluate one that unloads a table
  Holders,          \* evaluate one that acquires an AML mutex
  EventWaiters,     \* evaluate one that waits for an AML event
  Timeouts          \* the timeouts AML code gives

ASSUME AcpiOslAssumption ==
  /\ UNION {Walkers, Callers, Unloaders, Holders, EventWaiters} \subseteq Threads
  /\ Timeouts \subseteq {"WAIT_FOREVER", "DO_NOT_WAIT", "finite"}
  /\ IsFiniteSet(Threads) /\ "none" \notin Threads

VARIABLES
  count, waiters,   \* of each semaphore_t
  ThreadId,         \* AcpiGbl_MutexInfo[ACPI_MTX_INTERPRETER].ThreadId
  NumReaders,
  pc,
  next,             \* where a thread goes on once it has entered or left the interpreter
  num,              \* NumReaders as a thread has read it
  aml,              \* threads that hold the AML mutex or queue for it
  walking,          \* threads inside AcpiWalkNamespace's walk
  status            \* "running" or "fatal"

vars == <<count, waiters, ThreadId, NumReaders, pc, next, num, aml, walking, status>>

Mutexes == {"interpreter", "aml", "ReaderMutex", "WriterMutex"}
Labels ==
  {"idle", "walk", "rl_load", "rl_store", "rl_done", "ru_load", "ru_store", "ru_done",
   "stamp", "method", "unstamp", "leave", "outside", "wait_aml", "waited",
   "write_lock", "delete"}

TypeOK ==
  /\ count \in [Mutexes -> {0, 1}]
  /\ waiters \in [Mutexes -> Seq(Threads)]
  /\ ThreadId \in Threads \cup {"none"}
  /\ NumReaders \in 0..Cardinality(Walkers)
  /\ pc \in [Threads -> Labels] /\ next \in [Threads -> Labels]
  /\ num \in [Threads -> 0..Cardinality(Walkers)]
  /\ aml \subseteq Threads /\ walking \subseteq Walkers
  /\ status \in {"running", "fatal"}

Init ==
  /\ count = [m \in Mutexes |-> 1] /\ waiters = [m \in Mutexes |-> <<>>]
  /\ ThreadId = "none" /\ NumReaders = 0
  /\ pc = [t \in Threads |-> "idle"] /\ next = [t \in Threads |-> "idle"]
  /\ num = [t \in Threads |-> 0]
  /\ aml = {} /\ walking = {} /\ status = "running"
-----------------------------------------------------------------------------
(***************************************************************************)
(* AcpiOsAcquireMutex and AcpiOsReleaseMutex.                              *)
(***************************************************************************)
Blocked(t) == \E m \in Mutexes : \E i \in DOMAIN waiters[m] : waiters[m][i] = t
At(t, l) == status = "running" /\ pc[t] = l /\ ~Blocked(t)
Goto(t, l) == pc' = [pc EXCEPT ![t] = l]

\* A thread that has to wait is at its next label, blocked.
WaitForever(t, m) ==
  IF count[m] > 0
    THEN count' = [count EXCEPT ![m] = @ - 1] /\ UNCHANGED waiters
    ELSE waiters' = [waiters EXCEPT ![m] = Append(@, t)] /\ UNCHANGED count

TryLock(m) == count[m] > 0 /\ count' = [count EXCEPT ![m] = @ - 1] /\ UNCHANGED waiters

release_no_wake(m) ==                                         \* mutant
  count' = [count EXCEPT ![m] = 1] /\ UNCHANGED waiters
AcpiOsReleaseMutex(m) ==
  IF waiters[m] = <<>>
    THEN count' = [count EXCEPT ![m] = @ + 1] /\ UNCHANGED waiters
    ELSE waiters' = [waiters EXCEPT ![m] = Tail(@)] /\ UNCHANGED count

\* assert(0) for a timeout that is neither of the two.
AcpiOsAcquireMutex(t, m, timeout) ==
  \/ timeout = "WAIT_FOREVER" /\ WaitForever(t, m)
  \/ timeout = "DO_NOT_WAIT" /\ TryLock(m)
-----------------------------------------------------------------------------
(***************************************************************************)
(* utmutex.c: the owner is noted after the OS mutex is acquired, and       *)
(* cleared before it is released.                                          *)
(***************************************************************************)
enter_noted(t, after) ==                                      \* mutant
  /\ WaitForever(t, "interpreter") /\ ThreadId' = t
  /\ Goto(t, "stamp") /\ next' = [next EXCEPT ![t] = after]
  /\ UNCHANGED <<NumReaders, num, aml, walking, status>>
EnterInterpreter(t, after) ==
  /\ WaitForever(t, "interpreter")
  /\ Goto(t, "stamp") /\ next' = [next EXCEPT ![t] = after]
  /\ UNCHANGED <<ThreadId, NumReaders, num, aml, walking, status>>

stamp(t) ==
  /\ At(t, "stamp") /\ Goto(t, next[t])
  /\ ThreadId' = t
  /\ UNCHANGED <<count, waiters, NumReaders, next, num, aml, walking, status>>

ExitInterpreter(t, after) ==
  /\ Goto(t, "unstamp") /\ next' = [next EXCEPT ![t] = after]
  /\ UNCHANGED <<count, waiters, ThreadId, NumReaders, num, aml, walking, status>>

\* AE_NOT_ACQUIRED without an owner: the OS mutex is not released then.
unstamp(t) ==
  /\ At(t, "unstamp")
  /\ IF ThreadId = "none" THEN Goto(t, next[t]) ELSE Goto(t, "leave")
  /\ ThreadId' = "none"
  /\ UNCHANGED <<count, waiters, NumReaders, next, num, aml, walking, status>>

leave(t) ==
  /\ At(t, "leave") /\ Goto(t, next[t])
  /\ AcpiOsReleaseMutex("interpreter")
  /\ UNCHANGED <<ThreadId, NumReaders, next, num, aml, walking, status>>
-----------------------------------------------------------------------------
(***************************************************************************)
(* Control methods: they run with the interpreter locked, and unlock it    *)
(* around everything that may block.                                       *)
(***************************************************************************)
Base(t) == IF t \in walking THEN "walk" ELSE "idle"

evaluate(t) ==
  \/ At(t, "idle") /\ t \in Callers /\ EnterInterpreter(t, "method")
  \/ At(t, "walk") /\ EnterInterpreter(t, "method")

return(t) == At(t, "method") /\ t \notin aml /\ ExitInterpreter(t, Base(t))

\* AcpiExSystemDoSleep.
sleep(t) == At(t, "method") /\ ExitInterpreter(t, "outside")
awake(t) == At(t, "outside") /\ EnterInterpreter(t, "method")

\* AcpiExSystemWaitMutex: a try, and on AE_TIME the wait outside.
acquire_inside(t) ==                                          \* mutant
  /\ At(t, "method") /\ t \in Holders \ aml
  /\ AcpiOsAcquireMutex(t, "aml", "WAIT_FOREVER") /\ aml' = aml \cup {t}
  /\ UNCHANGED <<ThreadId, NumReaders, pc, next, num, walking, status>>
acquire(t) ==
  /\ At(t, "method") /\ t \in Holders \ aml
  /\ \/ /\ AcpiOsAcquireMutex(t, "aml", "DO_NOT_WAIT") /\ aml' = aml \cup {t}
        /\ UNCHANGED <<ThreadId, NumReaders, pc, next, num, walking, status>>
     \/ count["aml"] = 0 /\ ExitInterpreter(t, "wait_aml")

wait_aml(t, timeout) ==
  /\ At(t, "wait_aml")
  /\ \/ /\ AcpiOsAcquireMutex(t, "aml", timeout)
        /\ Goto(t, "waited") /\ aml' = aml \cup {t} /\ status' = status
     \/ /\ timeout = "DO_NOT_WAIT" /\ count["aml"] = 0
        /\ Goto(t, "outside") /\ UNCHANGED <<count, waiters, aml, status>>
     \/ /\ timeout = "finite"
        /\ status' = "fatal" /\ UNCHANGED <<count, waiters, pc, aml>>
  /\ UNCHANGED <<ThreadId, NumReaders, next, num, walking>>

waited(t) == At(t, "waited") /\ EnterInterpreter(t, "method")

release(t) ==
  /\ At(t, "method") /\ t \in aml
  /\ AcpiOsReleaseMutex("aml") /\ aml' = aml \ {t}
  /\ UNCHANGED <<ThreadId, NumReaders, pc, next, num, walking, status>>

\* AcpiExSystemWaitSemaphore asks AcpiOsWaitSemaphore not to wait, and that
\* service asserts that it may.
wait_event(t) ==
  /\ At(t, "method") /\ t \in EventWaiters
  /\ status' = "fatal"
  /\ UNCHANGED <<count, waiters, ThreadId, NumReaders, pc, next, num, aml, walking>>

\* AcpiTbDeleteNamespaceByOwner.
unload(t) == At(t, "method") /\ t \in Unloaders /\ ExitInterpreter(t, "write_lock")
write_lock(t) ==
  /\ At(t, "write_lock") /\ Goto(t, "delete")
  /\ WaitForever(t, "WriterMutex")
  /\ UNCHANGED <<ThreadId, NumReaders, next, num, aml, walking, status>>
write_unlock(t) ==
  /\ At(t, "delete") /\ Goto(t, "outside")
  /\ AcpiOsReleaseMutex("WriterMutex")
  /\ UNCHANGED <<ThreadId, NumReaders, next, num, aml, walking, status>>
-----------------------------------------------------------------------------
(***************************************************************************)
(* utlock.c: the first reader takes the writers' mutex, the last gives it  *)
(* back, and NumReaders is changed under ReaderMutex.                      *)
(***************************************************************************)
count_reader(t, from, to) ==
  /\ At(t, from) /\ Goto(t, to)
  /\ num' = [num EXCEPT ![t] = NumReaders]
  /\ UNCHANGED <<count, waiters, ThreadId, NumReaders, next, aml, walking, status>>

lock_readers_not(t, from, to) ==                              \* mutant
  /\ At(t, from) /\ Goto(t, to)
  /\ walking' = walking \ {t}
  /\ UNCHANGED <<count, waiters, ThreadId, NumReaders, next, num, aml, status>>

\* AcpiWalkNamespace calls AcpiUtReleaseReadLock when its walk is over: the thread no
\* longer uses the namespace while it waits for ReaderMutex.
lock_readers(t, from, to) ==
  /\ At(t, from) /\ Goto(t, to)
  /\ WaitForever(t, "ReaderMutex")
  /\ walking' = walking \ {t}
  /\ UNCHANGED <<ThreadId, NumReaders, next, num, aml, status>>

unlock_readers(t, from, to) ==
  /\ At(t, from) /\ Goto(t, to)
  /\ AcpiOsReleaseMutex("ReaderMutex")
  /\ walking' = IF to = "walk" THEN walking \cup {t} ELSE walking
  /\ UNCHANGED <<ThreadId, NumReaders, next, num, aml, status>>

add_reader(t) ==
  /\ At(t, "rl_store") /\ Goto(t, "rl_done")
  /\ NumReaders' = num[t] + 1
  /\ IF num[t] = 0 THEN WaitForever(t, "WriterMutex") ELSE UNCHANGED <<count, waiters>>
  /\ num' = [num EXCEPT ![t] = 0]
  /\ UNCHANGED <<ThreadId, next, aml, walking, status>>

remove_reader_each(t) ==                                      \* mutant
  /\ At(t, "ru_store") /\ Goto(t, "ru_done")
  /\ NumReaders' = num[t] - 1 /\ AcpiOsReleaseMutex("WriterMutex")
  /\ num' = [num EXCEPT ![t] = 0]
  /\ UNCHANGED <<ThreadId, next, aml, walking, status>>
remove_reader(t) ==
  /\ At(t, "ru_store") /\ Goto(t, "ru_done")
  /\ NumReaders' = num[t] - 1
  /\ IF num[t] = 1 THEN AcpiOsReleaseMutex("WriterMutex") ELSE UNCHANGED <<count, waiters>>
  /\ num' = [num EXCEPT ![t] = 0]
  /\ UNCHANGED <<ThreadId, next, aml, walking, status>>

AcpiUtAcquireReadLock(t) ==
  \/ t \in Walkers /\ lock_readers(t, "idle", "rl_load")
  \/ count_reader(t, "rl_load", "rl_store")
  \/ add_reader(t)
  \/ unlock_readers(t, "rl_done", "walk")

AcpiUtReleaseReadLock(t) ==
  \/ lock_readers(t, "walk", "ru_load")
  \/ count_reader(t, "ru_load", "ru_store")
  \/ remove_reader(t)
  \/ unlock_readers(t, "ru_done", "idle")
-----------------------------------------------------------------------------
Method(t) ==
  \/ return(t)
  \/ sleep(t)
  \/ acquire(t)
  \/ \E timeout \in Timeouts : wait_aml(t, timeout)
  \/ waited(t)
  \/ release(t)
  \/ wait_event(t)
  \/ unload(t)
  \/ write_lock(t)
  \/ write_unlock(t)
  \/ awake(t)

Interpreter(t) == stamp(t) \/ unstamp(t) \/ leave(t)

Step(t) ==
  \/ evaluate(t)
  \/ Method(t)
  \/ Interpreter(t)
  \/ AcpiUtAcquireReadLock(t)
  \/ AcpiUtReleaseReadLock(t)

Next == \E t \in Threads : Step(t)

Spec == Init /\ [][Next]_vars

\* Every thread gets the CPU again and again, a method returns and a walk ends.
Fairness ==
  \A t \in Threads :
    /\ WF_vars(pc[t] # "idle" /\ Step(t))
    /\ SF_vars(return(t)) /\ SF_vars(release(t)) /\ SF_vars(lock_readers(t, "walk", "ru_load"))

FairSpec == Spec /\ Fairness
-----------------------------------------------------------------------------
(***************************************************************************)
(* Properties.                                                             *)
(***************************************************************************)
Inside(t) == pc[t] \in {"method", "unstamp"} /\ ~Blocked(t)

\* utmutex.c:397 "Mark unlocked FIRST": whoever is in the interpreter is its noted
\* owner and alone, so that releasing it is never refused as not acquired.
OwnerNoted == \A t \in Threads : Inside(t) => ThreadId = t

\* utlock.c:179 "fully exclusive": no table is unloaded during a walk, the walker's
\* control methods included.
WalksUndisturbed ==
  walking # {} => \A t \in Threads : pc[t] = "delete" => Blocked(t)

\* utlock.c:108: while nobody is changing it, NumReaders is the number of readers
\* and the writers' mutex is theirs as long as there are any.
ReadersCounted ==
  (\A t \in Threads : pc[t] \notin {"rl_load", "rl_store", "rl_done", "ru_load", "ru_store", "ru_done"})
    => /\ NumReaders = Cardinality(walking)
       /\ walking # {} => count["WriterMutex"] = 0

\* nsxfeval.c:634, exsystem.c:86 "We must wait, so unlock the interpreter": a walk
\* comes to its end, unless a timeout stops the machine: no method of its callback or of
\* another thread waits with the interpreter locked.
WalkEnds == \A t \in Threads : t \in walking ~> (pc[t] = "idle" \/ status = "fatal")

\* utlock.c: a thread that waits for any of the mutexes gets it, except for a writer,
\* which readers that overlap may keep waiting (utlock.c:109).
WaiterGetsMutex ==
  \A t \in Threads : (Blocked(t) /\ pc[t] # "delete") ~> (~Blocked(t) \/ status = "fatal")

\* nsxfeval.c:640 "control methods can be executed while holding the namespace
\* deletion lock": a method called from a walk returns to it.
MethodReturns ==
  \A t \in Threads : (t \in walking /\ pc[t] = "method") ~> (pc[t] = "walk")

\* exsystem.c:61 "a check to see if the semaphore is available immediately" and :57
\* "Max time to wait": waiting with any timeout does not stop the machine.
EveryTimeoutAccepted == status # "fatal"
=============================================================================
