--------------------------- MODULE AcpiOslProofs ---------------------------
(***************************************************************************)
(* Theorems about AcpiOsl, for every set of threads, walkers, callers and  *)
(* holders: the noted owner of the interpreter is in it alone, the readers *)
(* of the namespace are counted and hold the writers' mutex as a group,    *)
(* and no table is unloaded during a walk.                                 *)
(*                                                                         *)
(* A mutex is held by the one thread that its label entitles to it and     *)
(* that is not in its queue. The writers' mutex is the exception: its      *)
(* holder may be the readers, of which the first has taken it and another  *)
(* may give it back.                                                       *)
(***************************************************************************)
EXTENDS AcpiOsl, Integers, FiniteSetTheorems, TLAPS

Queued(t, m) == \E i \in DOMAIN waiters[m] : waiters[m][i] = t
Once(queue) == \A i, j \in DOMAIN queue : queue[i] = queue[j] => i = j

InsideLabels == {"stamp", "method", "unstamp", "leave"}
ReaderLabels == {"rl_load", "rl_store", "rl_done", "ru_load", "ru_store", "ru_done"}

\* The threads that asked for a mutex and have not given it back.
Entitled(t, m) ==
  \/ m = "interpreter" /\ pc[t] \in InsideLabels
  \/ m = "ReaderMutex" /\ pc[t] \in ReaderLabels
  \/ m = "aml" /\ t \in aml

OneHolder(m) ==
  /\ \A t \in Threads : Queued(t, m) => Entitled(t, m)
  /\ count[m] = 1 => \A t \in Threads : ~Entitled(t, m)
  /\ count[m] = 0 => \E h \in Threads :
       /\ Entitled(h, m) /\ ~Queued(h, m)
       /\ \A t \in Threads : Entitled(t, m) /\ ~Queued(t, m) => t = h

\* A queue holds a thread once, which is at the label that follows the wait.
QueueInv ==
  /\ \A m \in Mutexes : Once(waiters[m])
  /\ \A t \in Threads :
       /\ Queued(t, "interpreter") => pc[t] = "stamp"
       /\ Queued(t, "ReaderMutex") => pc[t] \in {"rl_load", "ru_load"}
       /\ Queued(t, "aml") => pc[t] = "waited"
       /\ Queued(t, "WriterMutex") => pc[t] \in {"rl_done", "delete"}

HolderInv == OneHolder("interpreter") /\ OneHolder("ReaderMutex") /\ OneHolder("aml")

\* The readers hold the writers' mutex, or the first of them waits for it.
firstWaits == \E t \in Threads : pc[t] = "rl_done" /\ Queued(t, "WriterMutex")
ReadersHold == NumReaders > 0 /\ ~firstWaits
unloading(t) == pc[t] = "delete" /\ ~Queued(t, "WriterMutex")

WriterInv ==
  /\ count["WriterMutex"] = 1 =>
       /\ NumReaders = 0
       /\ \A t \in Threads : pc[t] # "delete" /\ ~Queued(t, "WriterMutex")
  /\ count["WriterMutex"] = 0 =>
       \/ ReadersHold /\ \A t \in Threads : ~unloading(t)
       \/ ~ReadersHold /\ \E h \in Threads : \A t \in Threads : unloading(t) <=> t = h
  /\ firstWaits => NumReaders = 1

OwnerInv == \A t \in Threads : pc[t] \in {"method", "unstamp"} => ThreadId = t

\* Where a thread goes on, and whether it is inside a walk.
PlaceInv ==
  \A t \in Threads :
    /\ pc[t] = "stamp" => next[t] = "method"
    /\ pc[t] \in {"unstamp", "leave"} =>
         /\ next[t] \in {"idle", "walk", "outside", "wait_aml", "write_lock"}
         /\ next[t] = "idle" => t \notin walking
         /\ next[t] = "walk" => t \in walking
         /\ next[t] = "wait_aml" => t \notin aml
    /\ pc[t] = "walk" => t \in walking
    /\ pc[t] = "wait_aml" => t \notin aml
    /\ pc[t] \in ReaderLabels => t \in Walkers
    /\ pc[t] \in ReaderLabels \cup {"idle"} => t \notin walking

\* NumReaders counts from the increment, within ReaderMutex, to the decrement.
Readers == walking \cup {t \in Threads : pc[t] \in {"rl_done", "ru_load", "ru_store"}}
CountInv ==
  /\ NumReaders = Cardinality(Readers)
  /\ \A t \in Threads : pc[t] \in {"rl_store", "ru_store"} => num[t] = NumReaders

IInv ==
  /\ TypeOK
  /\ QueueInv
  /\ HolderInv
  /\ WriterInv
  /\ OwnerInv
  /\ PlaceInv
  /\ CountInv
-----------------------------------------------------------------------------
(***************************************************************************)
(* Queues.                                                                 *)
(***************************************************************************)
InQueue(queue, t) == \E i \in DOMAIN queue : queue[i] = t

\* Whoever waits is appended, once.
LEMMA AppendQueue ==
  ASSUME NEW queue \in Seq(Threads), NEW t \in Threads
  PROVE  /\ Append(queue, t) \in Seq(Threads)
         /\ \A u \in Threads : InQueue(Append(queue, t), u) <=> InQueue(queue, u) \/ u = t
         /\ Once(queue) /\ ~InQueue(queue, t) => Once(Append(queue, t))
<1>1. /\ DOMAIN queue = 1..Len(queue) /\ DOMAIN Append(queue, t) = 1..(Len(queue) + 1)
      /\ Len(queue) \in Nat
      /\ \A i \in 1..Len(queue) : Append(queue, t)[i] = queue[i]
      /\ Append(queue, t)[Len(queue) + 1] = t
  OBVIOUS
<1>2. ASSUME NEW u \in Threads
      PROVE  InQueue(Append(queue, t), u) <=> InQueue(queue, u) \/ u = t
  BY <1>1 DEF InQueue
<1>3. ASSUME Once(queue), ~InQueue(queue, t) PROVE Once(Append(queue, t))
  BY <1>1, <1>3 DEF Once, InQueue
<1>4. QED
  BY <1>2, <1>3

\* Whoever is served was the first, and is in the queue no more.
LEMMA TailQueue ==
  ASSUME NEW queue \in Seq(Threads), queue # <<>>, Once(queue)
  PROVE  /\ Tail(queue) \in Seq(Threads) /\ Once(Tail(queue))
         /\ queue[1] \in Threads /\ InQueue(queue, queue[1])
         /\ \A u \in Threads : InQueue(Tail(queue), u) <=> InQueue(queue, u) /\ u # queue[1]
<1>1. /\ DOMAIN queue = 1..Len(queue) /\ Len(queue) \in Nat /\ Len(queue) > 0
      /\ Tail(queue) \in Seq(Threads)
      /\ DOMAIN Tail(queue) = 1..(Len(queue) - 1)
      /\ \A i \in 1..(Len(queue) - 1) : Tail(queue)[i] = queue[i + 1]
  OBVIOUS
<1>2. Once(Tail(queue))
  BY <1>1 DEF Once
<1>3. queue[1] \in Threads /\ InQueue(queue, queue[1])
  BY <1>1 DEF InQueue
<1>4. ASSUME NEW u \in Threads
      PROVE  InQueue(Tail(queue), u) <=> InQueue(queue, u) /\ u # queue[1]
  <2>1. ASSUME NEW i \in DOMAIN queue, queue[i] = u, u # queue[1]
        PROVE  InQueue(Tail(queue), u)
    <3>1. i - 1 \in 1..(Len(queue) - 1) /\ Tail(queue)[i - 1] = u
      BY <1>1, <2>1
    <3>2. QED
      BY <1>1, <3>1 DEF InQueue
  <2>2. ASSUME NEW i \in DOMAIN Tail(queue), Tail(queue)[i] = u
        PROVE  InQueue(queue, u) /\ u # queue[1]
    BY <1>1, <2>2 DEF InQueue, Once
  <2>3. QED
    BY <2>1, <2>2 DEF InQueue
<1>5. QED
  BY <1>1, <1>2, <1>3, <1>4

QueueTypes == count \in [Mutexes -> {0, 1}] /\ waiters \in [Mutexes -> Seq(Threads)]
Onces == \A m \in Mutexes : Once(waiters[m])

\* What the other mutexes see of an operation on one.
Same(n) == count'[n] = count[n] /\ \A u \in Threads : Queued(u, n)' <=> Queued(u, n)
OthersSame(m) == \A n \in Mutexes \ {m} : Same(n)

Taken(t, m) ==
  /\ QueueTypes' /\ Onces' /\ OthersSame(m)
  /\ count'[m] = 0
  /\ count[m] = 1 => \A u \in Threads : Queued(u, m)' <=> Queued(u, m)
  /\ count[m] = 0 => \A u \in Threads : Queued(u, m)' <=> Queued(u, m) \/ u = t

Given(m) ==
  /\ QueueTypes' /\ Onces' /\ OthersSame(m)
  /\ \/ count'[m] = 1 /\ \A u \in Threads : ~Queued(u, m) /\ ~Queued(u, m)'
     \/ /\ count'[m] = 0
        /\ \E h \in Threads : /\ Queued(h, m)
                              /\ \A u \in Threads : Queued(u, m)' <=> Queued(u, m) /\ u # h

\* mutex_lock and mutex_try_lock through AcpiOsAcquireMutex.
LEMMA WaitForeverTakes ==
  ASSUME QueueTypes, Onces, NEW m \in Mutexes, NEW t \in Threads, ~Queued(t, m),
         WaitForever(t, m)
  PROVE  Taken(t, m)
<1>1. CASE count[m] > 0
  <2>1. count[m] = 1 /\ count' = [count EXCEPT ![m] = @ - 1] /\ waiters' = waiters
    BY <1>1 DEF WaitForever, QueueTypes
  <2>2. count' = [count EXCEPT ![m] = 0]
    BY <2>1 DEF QueueTypes
  <2>3. QueueTypes' /\ Onces' /\ count'[m] = 0
    BY <2>1, <2>2 DEF QueueTypes, Onces
  <2>4. QED
    BY <2>1, <2>2, <2>3 DEF Taken, OthersSame, Same, Queued, QueueTypes
<1>2. CASE ~(count[m] > 0)
  <2>1. /\ count[m] = 0 /\ count' = count
        /\ waiters' = [waiters EXCEPT ![m] = Append(waiters[m], t)]
    BY <1>2 DEF WaitForever, QueueTypes
  <2>2. /\ Append(waiters[m], t) \in Seq(Threads) /\ Once(Append(waiters[m], t))
        /\ \A u \in Threads :
             InQueue(Append(waiters[m], t), u) <=> InQueue(waiters[m], u) \/ u = t
    BY AppendQueue DEF Queued, InQueue, Onces, QueueTypes
  <2>3. /\ waiters'[m] = Append(waiters[m], t)
        /\ \A n \in Mutexes \ {m} : waiters'[n] = waiters[n]
    BY <2>1 DEF QueueTypes
  <2>4. QueueTypes' /\ Onces'
    BY <2>1, <2>2, <2>3 DEF QueueTypes, Onces
  <2>5. OthersSame(m)
    BY <2>1, <2>3 DEF OthersSame, Same, Queued
  <2>6. \A u \in Threads : Queued(u, m)' <=> Queued(u, m) \/ u = t
    BY <2>2, <2>3 DEF Queued, InQueue
  <2>7. QED
    BY <2>1, <2>4, <2>5, <2>6 DEF Taken
<1>3. QED
  BY <1>1, <1>2

LEMMA TryLockTakes ==
  ASSUME QueueTypes, Onces, NEW m \in Mutexes, NEW t \in Threads, TryLock(m)
  PROVE  Taken(t, m) /\ count[m] = 1
<1>1. count[m] = 1 /\ count' = [count EXCEPT ![m] = @ - 1] /\ waiters' = waiters
  BY DEF TryLock, QueueTypes
<1>2. count' = [count EXCEPT ![m] = 0]
  BY <1>1 DEF QueueTypes
<1>3. QueueTypes' /\ Onces' /\ count'[m] = 0
  BY <1>1, <1>2 DEF QueueTypes, Onces
<1>4. QED
  BY <1>1, <1>2, <1>3 DEF Taken, OthersSame, Same, Queued, QueueTypes

\* mutex_unlock through AcpiOsReleaseMutex.
LEMMA ReleaseGives ==
  ASSUME QueueTypes, Onces, NEW m \in Mutexes, count[m] = 0, AcpiOsReleaseMutex(m)
  PROVE  Given(m)
<1>1. CASE waiters[m] = <<>>
  <2>1. count' = [count EXCEPT ![m] = 1] /\ waiters' = waiters
    BY <1>1 DEF AcpiOsReleaseMutex, QueueTypes
  <2>2. \A u \in Threads : ~Queued(u, m)
    BY <1>1 DEF Queued
  <2>3. QueueTypes' /\ Onces' /\ count'[m] = 1
    BY <2>1 DEF QueueTypes, Onces
  <2>4. QED
    BY <2>1, <2>2, <2>3 DEF Given, OthersSame, Same, Queued, QueueTypes
<1>2. CASE waiters[m] # <<>>
  <2>1. count' = count /\ waiters' = [waiters EXCEPT ![m] = Tail(waiters[m])]
    BY <1>2 DEF AcpiOsReleaseMutex, QueueTypes
  <2> DEFINE h == waiters[m][1]
  <2>2. /\ Tail(waiters[m]) \in Seq(Threads) /\ Once(Tail(waiters[m]))
        /\ h \in Threads /\ InQueue(waiters[m], h)
        /\ \A u \in Threads :
             InQueue(Tail(waiters[m]), u) <=> InQueue(waiters[m], u) /\ u # h
    BY <1>2, TailQueue DEF Onces, QueueTypes
  <2>3. /\ waiters'[m] = Tail(waiters[m])
        /\ \A n \in Mutexes \ {m} : waiters'[n] = waiters[n]
    BY <2>1 DEF QueueTypes
  <2>4. QueueTypes' /\ Onces'
    BY <2>1, <2>2, <2>3 DEF QueueTypes, Onces
  <2>5. OthersSame(m)
    BY <2>1, <2>3 DEF OthersSame, Same, Queued
  <2>6. Queued(h, m) /\ \A u \in Threads : Queued(u, m)' <=> Queued(u, m) /\ u # h
    BY <2>2, <2>3 DEF Queued, InQueue
  <2>7. QED
    BY <2>1, <2>2, <2>4, <2>5, <2>6 DEF Given
<1>3. QED
  BY <1>1, <1>2
-----------------------------------------------------------------------------
(***************************************************************************)
(* Holders.                                                                *)
(***************************************************************************)
\* A thread that asks for a mutex has it, or is queued behind its holder.
LEMMA TakeHolds ==
  ASSUME QueueTypes, NEW m \in Mutexes, NEW t \in Threads, OneHolder(m), Taken(t, m),
         ~Entitled(t, m), Entitled(t, m)',
         \A u \in Threads \ {t} : Entitled(u, m)' <=> Entitled(u, m)
  PROVE  OneHolder(m)'
<1>1. count[m] \in {0, 1} /\ count'[m] = 0 /\ ~Queued(t, m)
  BY DEF QueueTypes, Taken, OneHolder
<1>2. \A u \in Threads : Queued(u, m)' => Entitled(u, m)'
  BY <1>1 DEF OneHolder, Taken
<1>3. CASE count[m] = 1
  <2>1. \A u \in Threads : ~Entitled(u, m)
    BY <1>3 DEF OneHolder
  <2>2. Entitled(t, m)' /\ ~Queued(t, m)'
    BY <1>1, <1>3 DEF Taken
  <2>3. \A u \in Threads : Entitled(u, m)' /\ ~Queued(u, m)' => u = t
    BY <2>1
  <2>4. QED
    BY <1>1, <1>2, <2>2, <2>3 DEF OneHolder
<1>4. CASE count[m] = 0
  <2>1. PICK h \in Threads :
          /\ Entitled(h, m) /\ ~Queued(h, m)
          /\ \A u \in Threads : Entitled(u, m) /\ ~Queued(u, m) => u = h
    BY <1>4 DEF OneHolder
  <2>2. \A u \in Threads : Queued(u, m)' <=> Queued(u, m) \/ u = t
    BY <1>4 DEF Taken
  <2>3. Entitled(h, m)' /\ ~Queued(h, m)'
    BY <2>1, <2>2
  <2>4. \A u \in Threads : Entitled(u, m)' /\ ~Queued(u, m)' => u = h
    BY <2>1, <2>2
  <2>5. QED
    BY <1>1, <1>2, <2>3, <2>4 DEF OneHolder
<1>5. QED
  BY <1>1, <1>3, <1>4

LEMMA HeldIsTaken ==
  ASSUME QueueTypes, NEW m \in Mutexes, NEW t \in Threads, OneHolder(m), Entitled(t, m)
  PROVE  count[m] = 0
  BY DEF QueueTypes, OneHolder

LEMMA OnlyHolder ==
  ASSUME QueueTypes, NEW m \in Mutexes, NEW t \in Threads, NEW u \in Threads, OneHolder(m),
         Entitled(t, m), ~Queued(t, m), Entitled(u, m), ~Queued(u, m)
  PROVE  t = u
  BY HeldIsTaken DEF OneHolder

\* The holder's unit goes to the head of the queue, or nobody is left that asked.
LEMMA GiveHolds ==
  ASSUME QueueTypes, NEW m \in Mutexes, NEW t \in Threads, OneHolder(m), Given(m),
         Entitled(t, m), ~Queued(t, m), ~Entitled(t, m)',
         \A u \in Threads \ {t} : Entitled(u, m)' <=> Entitled(u, m)
  PROVE  OneHolder(m)'
<1>1. \A u \in Threads : Entitled(u, m) /\ ~Queued(u, m) => u = t
  BY OnlyHolder
<1>2. CASE count'[m] = 1 /\ \A u \in Threads : ~Queued(u, m) /\ ~Queued(u, m)'
  BY <1>1, <1>2 DEF OneHolder
<1>3. CASE /\ count'[m] = 0
           /\ \E h \in Threads : /\ Queued(h, m)
                                 /\ \A u \in Threads : Queued(u, m)' <=> Queued(u, m) /\ u # h
  <2>1. PICK h \in Threads : /\ Queued(h, m)
                             /\ \A u \in Threads : Queued(u, m)' <=> Queued(u, m) /\ u # h
    BY <1>3
  <2>2. h # t /\ Entitled(h, m)' /\ ~Queued(h, m)'
    BY <2>1 DEF OneHolder
  <2>3. \A u \in Threads : Entitled(u, m)' /\ ~Queued(u, m)' => u = h
    BY <1>1, <2>1
  <2>4. \A u \in Threads : Queued(u, m)' => Entitled(u, m)'
    BY <2>1 DEF OneHolder
  <2>5. QED
    BY <1>3, <2>2, <2>3, <2>4 DEF OneHolder
<1>4. QED
  BY <1>2, <1>3 DEF Given

LEMMA KeepHolds ==
  ASSUME NEW m \in Mutexes, OneHolder(m), Same(m),
         \A u \in Threads : Entitled(u, m)' <=> Entitled(u, m)
  PROVE  OneHolder(m)'
  BY DEF OneHolder, Same

LEMMA UnchangedSame ==
  ASSUME UNCHANGED <<count, waiters>>
  PROVE  /\ \A m \in Mutexes : Same(m)
         /\ QueueTypes => QueueTypes' /\ (Onces => Onces')
  BY DEF Same, Queued, QueueTypes, Onces

\* The writers' mutex, when nobody takes or gives it.
LEMMA KeepWriter ==
  ASSUME WriterInv, Same("WriterMutex"), NumReaders' = NumReaders,
         \A u \in Threads : pc'[u] = "delete" <=> pc[u] = "delete",
         \A u \in Threads : Queued(u, "WriterMutex") => pc'[u] = pc[u]
  PROVE  WriterInv'
<1>1. firstWaits' <=> firstWaits
  BY DEF firstWaits, Same
<1>2. \A u \in Threads : unloading(u)' <=> unloading(u)
  BY DEF unloading, Same
<1>3. ReadersHold' <=> ReadersHold
  BY <1>1 DEF ReadersHold
<1>4. QED
  BY <1>1, <1>2, <1>3 DEF WriterInv, Same

\* Threads that wait stay at the label that follows the wait.
LEMMA MoveQueues ==
  ASSUME TypeOK, QueueInv, NEW t \in Threads, NEW l \in Labels, ~Blocked(t),
         pc' = [pc EXCEPT ![t] = l], Onces',
         \A m \in Mutexes : \A u \in Threads \ {t} : Queued(u, m)' => Queued(u, m),
         Queued(t, "interpreter")' => l = "stamp",
         Queued(t, "ReaderMutex")' => l \in {"rl_load", "ru_load"},
         Queued(t, "aml")' => l = "waited",
         Queued(t, "WriterMutex")' => l \in {"rl_done", "delete"}
  PROVE  QueueInv'
<1>1. pc'[t] = l /\ \A u \in Threads \ {t} : pc'[u] = pc[u]
  BY DEF TypeOK
<1>2. {"interpreter", "ReaderMutex", "aml", "WriterMutex"} \subseteq Mutexes
  BY DEF Mutexes
<1>3. QED
  BY <1>1, <1>2 DEF QueueInv, Onces

LEMMA UnblockedQueues ==
  ASSUME NEW t \in Threads, ~Blocked(t) PROVE \A m \in Mutexes : ~Queued(t, m)
  BY DEF Blocked, Queued
-----------------------------------------------------------------------------
LEMMA InitIInv == Init => IInv
<1> SUFFICES ASSUME Init PROVE IInv
  OBVIOUS
<1> USE AcpiOslAssumption DEF Init
<1>1. \A m \in Mutexes : \A t \in Threads : ~Queued(t, m)
  BY DEF Queued
<1>2. Walkers \subseteq Threads /\ IsFiniteSet(Walkers) /\ 0 \in 0..Cardinality(Walkers)
  <2>1. Walkers \subseteq Threads
    OBVIOUS
  <2>2. IsFiniteSet(Walkers)
    BY <2>1, FS_Subset
  <2>3. QED
    BY <2>1, <2>2, FS_CardinalityType
<1>3. TypeOK
  BY <1>2 DEF TypeOK, Labels
<1>4. QueueInv
  BY <1>1 DEF QueueInv, Once, Mutexes
<1>5. HolderInv
  BY <1>1 DEF HolderInv, OneHolder, Entitled, Mutexes, InsideLabels, ReaderLabels
<1>6. WriterInv
  BY <1>1 DEF WriterInv, Mutexes, firstWaits
<1>7. OwnerInv /\ PlaceInv
  BY DEF OwnerInv, PlaceInv, ReaderLabels
<1>8. CountInv
  <2>1. Readers = {}
    BY DEF Readers
  <2>2. QED
    BY <2>1, FS_EmptySet DEF CountInv
<1>9. QED
  BY <1>3, <1>4, <1>5, <1>6, <1>7, <1>8 DEF IInv

LEMMA Setting ==
  ASSUME IInv
  PROVE  /\ QueueTypes /\ Onces
         /\ {"interpreter", "ReaderMutex", "aml", "WriterMutex"} = Mutexes
         /\ OneHolder("interpreter") /\ OneHolder("ReaderMutex") /\ OneHolder("aml")
  BY DEF IInv, TypeOK, QueueInv, HolderInv, QueueTypes, Onces, Mutexes

(***************************************************************************)
(* The interpreter lock.                                                   *)
(***************************************************************************)
LEMMA EnterIInv ==
  ASSUME IInv, NEW t \in Threads, ~Blocked(t),
         pc[t] \in {"idle", "walk", "outside", "waited"}, EnterInterpreter(t, "method")
  PROVE  IInv'
<1>0. /\ pc' = [pc EXCEPT ![t] = "stamp"] /\ next' = [next EXCEPT ![t] = "method"]
      /\ UNCHANGED <<ThreadId, NumReaders, num, aml, walking, status>>
  BY DEF EnterInterpreter, Goto
<1>1. Taken(t, "interpreter")
  BY Setting, UnblockedQueues, WaitForeverTakes DEF EnterInterpreter
<1>2. TypeOK'
  BY <1>0, <1>1 DEF IInv, TypeOK, Labels, Taken, QueueTypes
<1>3. \A m \in Mutexes : ~Queued(t, m)
  BY UnblockedQueues
<1>4. QueueInv'
  <2>1. \A m \in Mutexes : \A u \in Threads \ {t} : Queued(u, m)' => Queued(u, m)
    BY <1>1, Setting, ZenonT(40) DEF Taken, OthersSame, Same, QueueTypes
  <2>2. \A m \in Mutexes \ {"interpreter"} : ~Queued(t, m)'
    BY <1>1, <1>3 DEF Taken, OthersSame, Same
  <2>3. "stamp" \in Labels /\ Onces'
    BY <1>1 DEF Labels, Taken
  <2>4. QED
    BY <1>0, <2>1, <2>2, <2>3, MoveQueues, Setting DEF IInv
<1>5. HolderInv'
  <2>1. /\ ~Entitled(t, "interpreter") /\ Entitled(t, "interpreter")'
        /\ \A u \in Threads \ {t} : Entitled(u, "interpreter")' <=> Entitled(u, "interpreter")
    BY <1>0 DEF IInv, TypeOK, Entitled, InsideLabels
  <2>2. \A m \in Mutexes \ {"interpreter"} :
          \A u \in Threads : Entitled(u, m)' <=> Entitled(u, m)
    BY <1>0 DEF IInv, TypeOK, Entitled, ReaderLabels
  <2>3. OneHolder("interpreter")'
    BY <1>1, <2>1, Setting, TakeHolds
  <2>4. OneHolder("ReaderMutex")' /\ OneHolder("aml")'
    BY <1>1, <2>2, Setting, KeepHolds DEF Taken, OthersSame
  <2>5. QED
    BY <2>3, <2>4 DEF HolderInv
<1>6. WriterInv'
  BY <1>0, <1>1, <1>3, Setting, KeepWriter DEF IInv, TypeOK, Taken, OthersSame
<1>7. OwnerInv'
  BY <1>0 DEF IInv, TypeOK, OwnerInv
<1>8. PlaceInv'
  BY <1>0 DEF IInv, TypeOK, PlaceInv, ReaderLabels
<1>9. CountInv'
  <2>1. Readers' = Readers
    BY <1>0 DEF IInv, TypeOK, Readers
  <2>2. QED
    BY <1>0, <2>1 DEF IInv, TypeOK, CountInv
<1>10. QED
  BY <1>2, <1>4, <1>5, <1>6, <1>7, <1>8, <1>9 DEF IInv

\* A step that moves one thread between labels and takes and gives nothing.
LEMMA MoveKeeps ==
  ASSUME IInv, NEW t \in Threads, ~Blocked(t), NEW l \in Labels,
         pc' = [pc EXCEPT ![t] = l], UNCHANGED <<count, waiters, aml>>,
         pc[t] \in InsideLabels <=> l \in InsideLabels,
         pc[t] \in ReaderLabels <=> l \in ReaderLabels
  PROVE  QueueInv' /\ HolderInv'
<1>1. \A m \in Mutexes : ~Queued(t, m)
  BY UnblockedQueues
<1>2. \A m \in Mutexes : Same(m)
  BY UnchangedSame
<1>3. QueueInv'
  BY <1>1, <1>2, MoveQueues, Setting, UnchangedSame DEF IInv, Same
<1>4. \A m \in Mutexes : \A u \in Threads : Entitled(u, m)' <=> Entitled(u, m)
  BY DEF IInv, TypeOK, Entitled
<1>5. QED
  BY <1>2, <1>3, <1>4, KeepHolds, Setting DEF HolderInv

\* One that counts nobody in or out, and frees or takes no mutex of a writer.
LEMMA MoveKeepsWriter ==
  ASSUME IInv, NEW t \in Threads, ~Blocked(t), NEW l \in Labels,
         pc' = [pc EXCEPT ![t] = l], Same("WriterMutex"),
         NumReaders' = NumReaders, pc[t] # "delete", l # "delete"
  PROVE  WriterInv'
  BY UnblockedQueues, KeepWriter, Setting DEF IInv, TypeOK

LEMMA ExitIInv ==
  ASSUME IInv, NEW t \in Threads, ~Blocked(t), pc[t] = "method",
         NEW after \in {"idle", "walk", "outside", "wait_aml", "write_lock"},
         after = "idle" => t \notin walking, after = "walk" => t \in walking,
         after = "wait_aml" => t \notin aml, ExitInterpreter(t, after)
  PROVE  IInv'
<1>0. /\ pc' = [pc EXCEPT ![t] = "unstamp"] /\ next' = [next EXCEPT ![t] = after]
      /\ UNCHANGED <<count, waiters, ThreadId, NumReaders, num, aml, walking, status>>
  BY DEF ExitInterpreter, Goto
<1>1. TypeOK'
  BY <1>0 DEF IInv, TypeOK, Labels
<1>2. QueueInv' /\ HolderInv'
  BY <1>0, MoveKeeps DEF Labels, InsideLabels, ReaderLabels
<1>3. WriterInv'
  BY <1>0, MoveKeepsWriter, UnchangedSame, Setting DEF Labels
<1>4. OwnerInv'
  BY <1>0 DEF IInv, TypeOK, OwnerInv
<1>5. PlaceInv'
  BY <1>0 DEF IInv, TypeOK, PlaceInv, ReaderLabels
<1>6. CountInv'
  <2>1. Readers' = Readers
    BY <1>0 DEF IInv, TypeOK, Readers
  <2>2. QED
    BY <1>0, <2>1 DEF IInv, TypeOK, CountInv
<1>7. QED
  BY <1>1, <1>2, <1>3, <1>4, <1>5, <1>6 DEF IInv

\* Who is in the interpreter is in it alone.
LEMMA AloneInside ==
  ASSUME IInv, NEW t \in Threads, ~Blocked(t), pc[t] \in InsideLabels,
         NEW u \in Threads, pc[u] \in InsideLabels \ {"stamp"}
  PROVE  u = t
<1>1. ~Queued(t, "interpreter") /\ ~Queued(u, "interpreter")
  BY UnblockedQueues, Setting DEF IInv, QueueInv
<1>2. QED
  BY <1>1, OnlyHolder, Setting DEF Entitled

LEMMA StampIInv == ASSUME IInv, NEW t \in Threads, stamp(t) PROVE IInv'
<1>0. /\ pc[t] = "stamp" /\ ~Blocked(t) /\ next[t] = "method"
      /\ pc' = [pc EXCEPT ![t] = "method"] /\ ThreadId' = t
      /\ UNCHANGED <<count, waiters, NumReaders, next, num, aml, walking, status>>
  BY DEF stamp, At, Goto, IInv, PlaceInv
<1>1. TypeOK'
  BY <1>0 DEF IInv, TypeOK, Labels
<1>2. QueueInv' /\ HolderInv'
  BY <1>0, MoveKeeps DEF Labels, InsideLabels, ReaderLabels
<1>3. WriterInv'
  BY <1>0, MoveKeepsWriter, UnchangedSame, Setting DEF Labels
<1>4. OwnerInv'
  <2>1. \A u \in Threads : pc[u] \in {"method", "unstamp"} => u = t
    BY <1>0, AloneInside DEF InsideLabels
  <2>2. QED
    BY <1>0, <2>1 DEF IInv, TypeOK, OwnerInv
<1>5. PlaceInv'
  BY <1>0 DEF IInv, TypeOK, PlaceInv, ReaderLabels
<1>6. CountInv'
  <2>1. Readers' = Readers
    BY <1>0 DEF IInv, TypeOK, Readers
  <2>2. QED
    BY <1>0, <2>1 DEF IInv, TypeOK, CountInv
<1>7. QED
  BY <1>1, <1>2, <1>3, <1>4, <1>5, <1>6 DEF IInv

\* The owner is noted: the mutex is released after "Mark unlocked FIRST".
LEMMA UnstampIInv == ASSUME IInv, NEW t \in Threads, unstamp(t) PROVE IInv'
<1>0. /\ pc[t] = "unstamp" /\ ~Blocked(t) /\ ThreadId' = "none"
      /\ pc' = [pc EXCEPT ![t] = "leave"]
      /\ UNCHANGED <<count, waiters, NumReaders, next, num, aml, walking, status>>
  <2>1. ThreadId # "none"
    BY AcpiOslAssumption DEF unstamp, At, IInv, OwnerInv
  <2>2. QED
    BY <2>1 DEF unstamp, At, Goto
<1>1. TypeOK'
  BY <1>0 DEF IInv, TypeOK, Labels
<1>2. QueueInv' /\ HolderInv'
  BY <1>0, MoveKeeps DEF Labels, InsideLabels, ReaderLabels
<1>3. WriterInv'
  BY <1>0, MoveKeepsWriter, UnchangedSame, Setting DEF Labels
<1>4. OwnerInv'
  <2>1. \A u \in Threads : pc[u] \in {"method", "unstamp"} => u = t
    BY <1>0, AloneInside DEF InsideLabels
  <2>2. QED
    BY <1>0, <2>1 DEF IInv, TypeOK, OwnerInv
<1>5. PlaceInv'
  BY <1>0 DEF IInv, TypeOK, PlaceInv, ReaderLabels
<1>6. CountInv'
  <2>1. Readers' = Readers
    BY <1>0 DEF IInv, TypeOK, Readers
  <2>2. QED
    BY <1>0, <2>1 DEF IInv, TypeOK, CountInv
<1>7. QED
  BY <1>1, <1>2, <1>3, <1>4, <1>5, <1>6 DEF IInv
\* A mutex that is given back queues nobody.
LEMMA GiveQueues ==
  ASSUME IInv, NEW t \in Threads, ~Blocked(t), NEW l \in Labels,
         pc' = [pc EXCEPT ![t] = l], NEW m \in Mutexes, Given(m)
  PROVE  QueueInv'
<1>1. \A n \in Mutexes : \A u \in Threads : Queued(u, n)' => Queued(u, n)
  BY DEF Given, OthersSame, Same
<1>2. \A n \in Mutexes : ~Queued(t, n)'
  BY <1>1, UnblockedQueues
<1>3. Onces'
  BY DEF Given
<1>4. /\ ~Queued(t, "interpreter")' /\ ~Queued(t, "ReaderMutex")'
      /\ ~Queued(t, "aml")' /\ ~Queued(t, "WriterMutex")'
  BY <1>2, Setting
<1>5. \A n \in Mutexes : \A u \in Threads \ {t} : Queued(u, n)' => Queued(u, n)
  BY <1>1
<1>6. TypeOK /\ QueueInv
  BY DEF IInv
<1>7. QED
  BY <1>3, <1>4, <1>5, <1>6, MoveQueues

\* A mutex that is taken queues at most the thread that asks, at the label it goes to.
LEMMA TakeQueues ==
  ASSUME IInv, NEW t \in Threads, ~Blocked(t), NEW l \in Labels,
         pc' = [pc EXCEPT ![t] = l], NEW m \in Mutexes, Taken(t, m),
         m = "interpreter" => l = "stamp",
         m = "ReaderMutex" => l \in {"rl_load", "ru_load"},
         m = "aml" => count[m] = 1 \/ l = "waited",
         m = "WriterMutex" => l \in {"rl_done", "delete"}
  PROVE  QueueInv'
<1>1. \A n \in Mutexes : ~Queued(t, n)
  BY UnblockedQueues
<1>2. \A n \in Mutexes : \A u \in Threads \ {t} : Queued(u, n)' => Queued(u, n)
  BY Setting DEF Taken, OthersSame, Same, QueueTypes
<1>3. \A n \in Mutexes : Queued(t, n)' => n = m /\ count[m] = 0
  BY <1>1, Setting DEF Taken, OthersSame, Same, QueueTypes
<1>4. Onces'
  BY DEF Taken
<1>5. /\ Queued(t, "interpreter")' => l = "stamp"
      /\ Queued(t, "ReaderMutex")' => l \in {"rl_load", "ru_load"}
      /\ Queued(t, "aml")' => l = "waited"
      /\ Queued(t, "WriterMutex")' => l \in {"rl_done", "delete"}
  BY <1>3, Setting
<1>6. TypeOK /\ QueueInv
  BY DEF IInv
<1>7. QED
  BY <1>2, <1>4, <1>5, <1>6, MoveQueues

LEMMA LeaveIInv == ASSUME IInv, NEW t \in Threads, leave(t) PROVE IInv'
<1>0. /\ pc[t] = "leave" /\ ~Blocked(t)
      /\ next[t] \in {"idle", "walk", "outside", "wait_aml", "write_lock"}
      /\ pc' = [pc EXCEPT ![t] = next[t]]
      /\ UNCHANGED <<ThreadId, NumReaders, next, num, aml, walking, status>>
  BY DEF leave, At, Goto, IInv, PlaceInv
<1>1. /\ Entitled(t, "interpreter") /\ ~Queued(t, "interpreter")
      /\ ~Entitled(t, "interpreter")' /\ next[t] \in Labels
  BY <1>0, UnblockedQueues, Setting DEF Entitled, InsideLabels, Labels, IInv, TypeOK
<1>2. Given("interpreter")
  BY <1>1, HeldIsTaken, ReleaseGives, Setting DEF leave
<1>3. TypeOK'
  BY <1>0, <1>1, <1>2 DEF IInv, TypeOK, Given, QueueTypes
<1>4. QueueInv'
  BY <1>0, <1>1, <1>2, GiveQueues, Setting
<1>5. HolderInv'
  <2>1. \A u \in Threads \ {t} : Entitled(u, "interpreter")' <=> Entitled(u, "interpreter")
    BY <1>0 DEF IInv, TypeOK, Entitled
  <2>2. \A m \in Mutexes \ {"interpreter"} :
          \A u \in Threads : Entitled(u, m)' <=> Entitled(u, m)
    BY <1>0 DEF IInv, TypeOK, Entitled, ReaderLabels
  <2>3. OneHolder("interpreter")'
    BY <1>1, <1>2, <2>1, Setting, GiveHolds
  <2>4. OneHolder("ReaderMutex")' /\ OneHolder("aml")'
    BY <1>2, <2>2, Setting, KeepHolds DEF Given, OthersSame
  <2>5. QED
    BY <2>3, <2>4 DEF HolderInv
<1>6. WriterInv'
  BY <1>0, <1>1, <1>2, MoveKeepsWriter, Setting DEF Given, OthersSame
<1>7. OwnerInv'
  BY <1>0 DEF IInv, TypeOK, OwnerInv
<1>8. PlaceInv'
  BY <1>0 DEF IInv, TypeOK, PlaceInv, ReaderLabels
<1>9. CountInv'
  <2>1. Readers' = Readers
    BY <1>0 DEF IInv, TypeOK, Readers
  <2>2. QED
    BY <1>0, <2>1 DEF IInv, TypeOK, CountInv
<1>10. QED
  BY <1>3, <1>4, <1>5, <1>6, <1>7, <1>8, <1>9 DEF IInv
-----------------------------------------------------------------------------
(***************************************************************************)
(* The mutex of AML code.                                                  *)
(***************************************************************************)
\* The try inside the interpreter, and the wait outside of it.
LEMMA AmlTakenIInv ==
  ASSUME IInv, NEW t \in Threads, ~Blocked(t), t \notin aml, aml' = aml \cup {t},
         Taken(t, "aml"), NEW l \in {"method", "waited"}, pc' = [pc EXCEPT ![t] = l],
         \/ l = "method" /\ pc[t] = "method" /\ count["aml"] = 1
         \/ l = "waited" /\ pc[t] = "wait_aml",
         UNCHANGED <<ThreadId, NumReaders, next, num, walking, status>>
  PROVE  IInv'
<1>1. TypeOK'
  BY DEF IInv, TypeOK, Taken, QueueTypes, Labels
<1>2. QueueInv'
  BY TakeQueues, Setting DEF Labels
<1>3. HolderInv'
  <2>1. /\ ~Entitled(t, "aml") /\ Entitled(t, "aml")'
        /\ \A u \in Threads \ {t} : Entitled(u, "aml")' <=> Entitled(u, "aml")
    BY DEF Entitled
  <2>2. \A m \in Mutexes \ {"aml"} :
          \A u \in Threads : Entitled(u, m)' <=> Entitled(u, m)
    BY DEF IInv, TypeOK, Entitled, InsideLabels, ReaderLabels
  <2>3. OneHolder("aml")'
    BY <2>1, Setting, TakeHolds
  <2>4. OneHolder("ReaderMutex")' /\ OneHolder("interpreter")'
    BY <2>2, Setting, KeepHolds DEF Taken, OthersSame
  <2>5. QED
    BY <2>3, <2>4 DEF HolderInv
<1>4. WriterInv'
  BY MoveKeepsWriter, Setting DEF Taken, OthersSame, Labels
<1>5. OwnerInv'
  BY DEF IInv, TypeOK, OwnerInv
<1>6. PlaceInv'
  BY DEF IInv, TypeOK, PlaceInv, ReaderLabels
<1>7. CountInv'
  <2>1. Readers' = Readers
    BY DEF IInv, TypeOK, Readers
  <2>2. QED
    BY <2>1 DEF IInv, TypeOK, CountInv
<1>8. QED
  BY <1>1, <1>2, <1>3, <1>4, <1>5, <1>6, <1>7 DEF IInv

\* A step between labels outside every lock.
LEMMA OutsideIInv ==
  ASSUME IInv, NEW t \in Threads, ~Blocked(t), pc[t] = "wait_aml",
         pc' = [pc EXCEPT ![t] = "outside"],
         UNCHANGED <<count, waiters, ThreadId, NumReaders, next, num, aml, walking, status>>
  PROVE  IInv'
<1>1. TypeOK'
  BY DEF IInv, TypeOK, Labels
<1>2. QueueInv' /\ HolderInv'
  BY MoveKeeps DEF Labels, InsideLabels, ReaderLabels
<1>3. WriterInv'
  BY MoveKeepsWriter, UnchangedSame, Setting DEF Labels
<1>4. OwnerInv' /\ PlaceInv'
  BY DEF IInv, TypeOK, OwnerInv, PlaceInv, ReaderLabels
<1>5. CountInv'
  <2>1. Readers' = Readers
    BY DEF IInv, TypeOK, Readers
  <2>2. QED
    BY <2>1 DEF IInv, TypeOK, CountInv
<1>6. QED
  BY <1>1, <1>2, <1>3, <1>4, <1>5 DEF IInv

LEMMA StopIInv ==
  ASSUME IInv, status' = "fatal",
         UNCHANGED <<count, waiters, ThreadId, NumReaders, pc, next, num, aml, walking>>
  PROVE  IInv'
<1>1. TypeOK'
  BY DEF IInv, TypeOK
<1>2. (QueueInv /\ HolderInv /\ WriterInv)'
  BY DEF IInv, QueueInv, Queued, Once, HolderInv, OneHolder, Entitled, WriterInv,
     firstWaits, ReadersHold, unloading
<1>3. (OwnerInv /\ PlaceInv /\ CountInv)'
  BY DEF IInv, OwnerInv, PlaceInv, CountInv, Readers
<1>4. QED
  BY <1>1, <1>2, <1>3 DEF IInv

LEMMA AcquireIInv == ASSUME IInv, NEW t \in Threads, acquire(t) PROVE IInv'
<1>0. pc[t] = "method" /\ ~Blocked(t) /\ t \notin aml
  BY DEF acquire, At
<1>1. CASE /\ AcpiOsAcquireMutex(t, "aml", "DO_NOT_WAIT") /\ aml' = aml \cup {t}
           /\ UNCHANGED <<ThreadId, NumReaders, pc, next, num, walking, status>>
  <2>1. TryLock("aml")
    BY <1>1 DEF AcpiOsAcquireMutex
  <2>2. Taken(t, "aml") /\ count["aml"] = 1
    BY <2>1, TryLockTakes, Setting
  <2>3. pc' = [pc EXCEPT ![t] = "method"]
    BY <1>0, <1>1 DEF IInv, TypeOK
  <2>4. QED
    BY <1>0, <1>1, <2>2, <2>3, AmlTakenIInv
<1>2. CASE ExitInterpreter(t, "wait_aml")
  BY <1>0, <1>2, ExitIInv
<1>3. QED
  BY <1>1, <1>2 DEF acquire

LEMMA WaitAmlIInv ==
  ASSUME IInv, NEW t \in Threads, NEW timeout \in Timeouts, wait_aml(t, timeout)
  PROVE  IInv'
<1>0. /\ pc[t] = "wait_aml" /\ ~Blocked(t) /\ t \notin aml
      /\ UNCHANGED <<ThreadId, NumReaders, next, num, walking>>
  BY DEF wait_aml, At, IInv, PlaceInv
<1>1. CASE /\ AcpiOsAcquireMutex(t, "aml", timeout)
           /\ Goto(t, "waited") /\ aml' = aml \cup {t} /\ status' = status
  <2>1. ~Queued(t, "aml")
    BY <1>0, UnblockedQueues, Setting
  <2>2. Taken(t, "aml")
    BY <1>1, <2>1, TryLockTakes, WaitForeverTakes, Setting DEF AcpiOsAcquireMutex
  <2>3. QED
    BY <1>0, <1>1, <2>2, AmlTakenIInv DEF Goto
<1>2. CASE Goto(t, "outside") /\ UNCHANGED <<count, waiters, aml, status>>
  BY <1>0, <1>2, OutsideIInv DEF Goto
<1>3. CASE status' = "fatal" /\ UNCHANGED <<count, waiters, pc, aml>>
  BY <1>0, <1>3, StopIInv
<1>4. QED
  BY <1>1, <1>2, <1>3 DEF wait_aml

LEMMA ReleaseIInv == ASSUME IInv, NEW t \in Threads, release(t) PROVE IInv'
<1>0. /\ pc[t] = "method" /\ ~Blocked(t) /\ t \in aml /\ aml' = aml \ {t}
      /\ UNCHANGED <<ThreadId, NumReaders, pc, next, num, walking, status>>
      /\ pc' = [pc EXCEPT ![t] = "method"]
  BY DEF release, At, IInv, TypeOK
<1>1. Entitled(t, "aml") /\ ~Queued(t, "aml") /\ ~Entitled(t, "aml")'
  BY <1>0, UnblockedQueues, Setting DEF Entitled
<1>2. Given("aml")
  BY <1>1, HeldIsTaken, ReleaseGives, Setting DEF release
<1>3. TypeOK'
  BY <1>0, <1>2 DEF IInv, TypeOK, Given, QueueTypes
<1>4. QueueInv'
  BY <1>0, <1>2, GiveQueues, Setting DEF Labels
<1>5. HolderInv'
  <2>1. \A u \in Threads \ {t} : Entitled(u, "aml")' <=> Entitled(u, "aml")
    BY <1>0 DEF Entitled
  <2>2. \A m \in Mutexes \ {"aml"} :
          \A u \in Threads : Entitled(u, m)' <=> Entitled(u, m)
    BY <1>0 DEF Entitled
  <2>3. OneHolder("aml")'
    BY <1>1, <1>2, <2>1, Setting, GiveHolds
  <2>4. OneHolder("ReaderMutex")' /\ OneHolder("interpreter")'
    BY <1>2, <2>2, Setting, KeepHolds DEF Given, OthersSame
  <2>5. QED
    BY <2>3, <2>4 DEF HolderInv
<1>6. WriterInv'
  BY <1>0, <1>2, MoveKeepsWriter, Setting DEF Given, OthersSame, Labels
<1>7. OwnerInv' /\ PlaceInv'
  BY <1>0 DEF IInv, OwnerInv, PlaceInv
<1>8. CountInv'
  BY <1>0 DEF IInv, CountInv, Readers
<1>9. QED
  BY <1>3, <1>4, <1>5, <1>6, <1>7, <1>8 DEF IInv-----------------------------------------------------------------------------
(***************************************************************************)
(* Unloads of tables.                                                      *)
(***************************************************************************)
\* Whoever has acquired ReaderMutex is the only one between its two calls.
LEMMA AloneReading ==
  ASSUME IInv, NEW t \in Threads, NEW u \in Threads,
         pc[t] \in ReaderLabels, ~Queued(t, "ReaderMutex"),
         pc[u] \in ReaderLabels, ~Queued(u, "ReaderMutex")
  PROVE  u = t
  BY OnlyHolder, Setting DEF Entitled

LEMMA WriteLockIInv == ASSUME IInv, NEW t \in Threads, write_lock(t) PROVE IInv'
<1>0. /\ pc[t] = "write_lock" /\ ~Blocked(t)
      /\ pc' = [pc EXCEPT ![t] = "delete"]
      /\ UNCHANGED <<ThreadId, NumReaders, next, num, aml, walking, status>>
  BY DEF write_lock, At, Goto
<1>1. ~Queued(t, "WriterMutex") /\ Taken(t, "WriterMutex")
  BY <1>0, UnblockedQueues, WaitForeverTakes, Setting DEF write_lock
<1>2. TypeOK'
  BY <1>0, <1>1 DEF IInv, TypeOK, Labels, Taken, QueueTypes
<1>3. QueueInv'
  BY <1>0, <1>1, TakeQueues, Setting DEF Labels
<1>4. HolderInv'
  <2>1. \A m \in Mutexes : \A u \in Threads : Entitled(u, m)' <=> Entitled(u, m)
    BY <1>0 DEF IInv, TypeOK, Entitled, InsideLabels, ReaderLabels
  <2>2. \A m \in Mutexes \ {"WriterMutex"} : Same(m)
    BY <1>1 DEF Taken, OthersSame
  <2>3. QED
    BY <2>1, <2>2, Setting, KeepHolds DEF HolderInv
<1>5. WriterInv'
  <2>0. /\ pc'[t] = "delete" /\ \A u \in Threads \ {t} : pc'[u] = pc[u]
        /\ count["WriterMutex"] \in {0, 1} /\ count'["WriterMutex"] = 0
    BY <1>0, <1>1, Setting DEF IInv, TypeOK, Taken
  <2>1. CASE count["WriterMutex"] = 1
    <3>1. /\ NumReaders = 0
          /\ \A u \in Threads : pc[u] # "delete" /\ ~Queued(u, "WriterMutex")'
      BY <1>1, <2>1 DEF IInv, WriterInv, Taken
    <3>2. \A u \in Threads : unloading(u)' <=> u = t
      BY <2>0, <3>1 DEF unloading
    <3>3. ~firstWaits' /\ ~ReadersHold'
      BY <1>0, <3>1 DEF firstWaits, ReadersHold
    <3>4. QED
      BY <2>0, <3>2, <3>3 DEF WriterInv
  <2>2. CASE count["WriterMutex"] = 0
    <3>1. \A u \in Threads : Queued(u, "WriterMutex")' <=> Queued(u, "WriterMutex") \/ u = t
      BY <1>1, <2>2 DEF Taken
    <3>2. \A u \in Threads : unloading(u)' <=> unloading(u)
      BY <1>0, <2>0, <3>1 DEF unloading
    <3>3. firstWaits' <=> firstWaits
      BY <1>0, <1>1, <2>0, <3>1 DEF firstWaits
    <3>4. ReadersHold' <=> ReadersHold
      BY <1>0, <3>3 DEF ReadersHold
    <3>5. QED
      BY <1>0, <2>0, <2>2, <3>2, <3>3, <3>4 DEF IInv, WriterInv
  <2>3. QED
    BY <2>0, <2>1, <2>2
<1>6. OwnerInv' /\ PlaceInv'
  BY <1>0 DEF IInv, TypeOK, OwnerInv, PlaceInv, ReaderLabels
<1>7. CountInv'
  <2>1. Readers' = Readers
    BY <1>0 DEF IInv, TypeOK, Readers
  <2>2. QED
    BY <1>0, <2>1 DEF IInv, TypeOK, CountInv
<1>8. QED
  BY <1>2, <1>3, <1>4, <1>5, <1>6, <1>7 DEF IInv

\* The unit of a writer goes to the next writer, or to the readers: the first of them
\* was waiting for it with ReaderMutex, so that it waited alone.
LEMMA WriteUnlockIInv == ASSUME IInv, NEW t \in Threads, write_unlock(t) PROVE IInv'
<1>0. /\ pc[t] = "delete" /\ ~Blocked(t)
      /\ pc' = [pc EXCEPT ![t] = "outside"]
      /\ UNCHANGED <<ThreadId, NumReaders, next, num, aml, walking, status>>
  BY DEF write_unlock, At, Goto
<1>1. /\ unloading(t) /\ count["WriterMutex"] = 0
      /\ ~ReadersHold /\ \A u \in Threads : unloading(u) <=> u = t
  <2>1. unloading(t) /\ count["WriterMutex"] = 0
    BY <1>0, UnblockedQueues, Setting DEF unloading, IInv, WriterInv, QueueTypes
  <2>2. QED
    BY <2>1 DEF IInv, WriterInv
<1>2. Given("WriterMutex")
  BY <1>1, ReleaseGives, Setting DEF write_unlock
<1>3. TypeOK'
  BY <1>0, <1>2 DEF IInv, TypeOK, Labels, Given, QueueTypes
<1>4. QueueInv'
  BY <1>0, <1>2, GiveQueues, Setting DEF Labels
<1>5. HolderInv'
  <2>1. \A m \in Mutexes : \A u \in Threads : Entitled(u, m)' <=> Entitled(u, m)
    BY <1>0 DEF IInv, TypeOK, Entitled, InsideLabels, ReaderLabels
  <2>2. \A m \in Mutexes \ {"WriterMutex"} : Same(m)
    BY <1>2 DEF Given, OthersSame
  <2>3. QED
    BY <2>1, <2>2, Setting, KeepHolds DEF HolderInv
<1>6. WriterInv'
  <2>0. /\ pc'[t] = "outside" /\ \A u \in Threads \ {t} : pc'[u] = pc[u]
        /\ NumReaders \in Nat
    BY <1>0, FS_CardinalityType DEF IInv, TypeOK
  <2>1. CASE /\ count'["WriterMutex"] = 1
             /\ \A u \in Threads : ~Queued(u, "WriterMutex") /\ ~Queued(u, "WriterMutex")'
    <3>1. ~firstWaits /\ NumReaders = 0
      BY <1>1, <2>0, <2>1 DEF firstWaits, ReadersHold
    <3>2. \A u \in Threads : pc'[u] # "delete"
      BY <1>1, <2>0, <2>1 DEF unloading
    <3>3. QED
      BY <1>0, <2>1, <3>1, <3>2 DEF WriterInv, firstWaits
  <2>2. CASE /\ count'["WriterMutex"] = 0
             /\ \E h \in Threads :
                  /\ Queued(h, "WriterMutex")
                  /\ \A u \in Threads : Queued(u, "WriterMutex")'
                                          <=> Queued(u, "WriterMutex") /\ u # h
    <3>1. PICK h \in Threads :
             /\ Queued(h, "WriterMutex")
             /\ \A u \in Threads : Queued(u, "WriterMutex")'
                                     <=> Queued(u, "WriterMutex") /\ u # h
      BY <2>2
    <3>2. h # t /\ pc'[h] = pc[h] /\ pc[h] \in {"rl_done", "delete"}
      BY <1>1, <2>0, <3>1, Setting DEF unloading, IInv, QueueInv
    <3>3. CASE pc[h] = "delete"
      <4>1. \A u \in Threads : unloading(u)' <=> u = h
        BY <1>1, <2>0, <3>1, <3>2, <3>3 DEF unloading
      <4>2. firstWaits' <=> firstWaits
        BY <2>0, <3>1, <3>2, <3>3, <1>0 DEF firstWaits
      <4>3. ~ReadersHold'
        BY <1>0, <1>1, <4>2 DEF ReadersHold
      <4>4. QED
        BY <1>0, <2>2, <4>1, <4>2, <4>3 DEF IInv, WriterInv
    <3>4. CASE pc[h] = "rl_done"
      <4>1. NumReaders = 1
        BY <3>1, <3>4 DEF IInv, WriterInv, firstWaits
      <4>2. \A u \in Threads : pc[u] = "rl_done" => u = h
        <5>1. \A u \in Threads : pc[u] = "rl_done" =>
                pc[u] \in ReaderLabels /\ ~Queued(u, "ReaderMutex")
          BY DEF ReaderLabels, IInv, QueueInv
        <5>2. QED
          BY <3>4, <5>1, AloneReading
      <4>3. ~firstWaits'
        BY <2>0, <3>1, <4>2 DEF firstWaits
      <4>4. \A u \in Threads : ~unloading(u)'
        BY <1>1, <2>0, <3>1, <3>2, <3>4 DEF unloading
      <4>5. ReadersHold'
        BY <1>0, <4>1, <4>3 DEF ReadersHold
      <4>6. QED
        BY <2>2, <4>3, <4>4, <4>5 DEF WriterInv
    <3>5. QED
      BY <3>2, <3>3, <3>4
  <2>3. QED
    BY <1>2, <2>1, <2>2 DEF Given
<1>7. OwnerInv' /\ PlaceInv'
  BY <1>0 DEF IInv, TypeOK, OwnerInv, PlaceInv, ReaderLabels
<1>8. CountInv'
  <2>1. Readers' = Readers
    BY <1>0 DEF IInv, TypeOK, Readers
  <2>2. QED
    BY <1>0, <2>1 DEF IInv, TypeOK, CountInv
<1>9. QED
  BY <1>3, <1>4, <1>5, <1>6, <1>7, <1>8 DEF IInv-----------------------------------------------------------------------------
(***************************************************************************)
(* Readers.                                                                *)
(***************************************************************************)
LEMMA ReadersBounded ==
  ASSUME NEW R \in SUBSET Walkers
  PROVE  IsFiniteSet(R) /\ Cardinality(R) \in 0..Cardinality(Walkers)
<1>1. Walkers \subseteq Threads
  BY AcpiOslAssumption
<1>2. IsFiniteSet(Walkers)
  BY <1>1, FS_Subset, AcpiOslAssumption
<1>3. IsFiniteSet(R) /\ Cardinality(R) <= Cardinality(Walkers)
  BY <1>2, FS_Subset
<1>4. QED
  BY <1>2, <1>3, FS_CardinalityType

LEMMA ReadersWalk ==
  ASSUME IInv
  PROVE  /\ Readers \subseteq Walkers /\ IsFiniteSet(Readers)
         /\ NumReaders = Cardinality(Readers) /\ NumReaders \in Nat
<1>1. Readers \subseteq Walkers
  BY DEF Readers, IInv, TypeOK, PlaceInv, ReaderLabels
<1>2. QED
  BY <1>1, ReadersBounded DEF IInv, CountInv

LEMMA LockReadersIInv ==
  ASSUME IInv, NEW t \in Threads, NEW from, NEW to,
         \/ from = "idle" /\ to = "rl_load" /\ t \in Walkers
         \/ from = "walk" /\ to = "ru_load",
         lock_readers(t, from, to)
  PROVE  IInv'
<1>0. /\ pc[t] = from /\ ~Blocked(t)
      /\ pc' = [pc EXCEPT ![t] = to] /\ walking' = walking \ {t}
      /\ UNCHANGED <<ThreadId, NumReaders, next, num, aml, status>>
  BY DEF lock_readers, At, Goto
<1>1. ~Queued(t, "ReaderMutex") /\ Taken(t, "ReaderMutex") /\ to \in Labels
  BY <1>0, UnblockedQueues, WaitForeverTakes, Setting DEF lock_readers, Labels
<1>2. TypeOK'
  BY <1>0, <1>1 DEF IInv, TypeOK, Taken, QueueTypes
<1>3. QueueInv'
  BY <1>0, <1>1, TakeQueues, Setting
<1>4. HolderInv'
  <2>1. /\ ~Entitled(t, "ReaderMutex") /\ Entitled(t, "ReaderMutex")'
        /\ \A u \in Threads \ {t} : Entitled(u, "ReaderMutex")' <=> Entitled(u, "ReaderMutex")
    BY <1>0 DEF IInv, TypeOK, Entitled, ReaderLabels
  <2>2. \A m \in Mutexes \ {"ReaderMutex"} :
          \A u \in Threads : Entitled(u, m)' <=> Entitled(u, m)
    BY <1>0 DEF IInv, TypeOK, Entitled, InsideLabels
  <2>3. OneHolder("ReaderMutex")'
    BY <1>1, <2>1, Setting, TakeHolds
  <2>4. OneHolder("interpreter")' /\ OneHolder("aml")'
    BY <1>1, <2>2, Setting, KeepHolds DEF Taken, OthersSame
  <2>5. QED
    BY <2>3, <2>4 DEF HolderInv
<1>5. WriterInv'
  BY <1>0, <1>1, MoveKeepsWriter, Setting DEF Taken, OthersSame
<1>6. OwnerInv'
  BY <1>0 DEF IInv, TypeOK, OwnerInv
<1>7. PlaceInv'
  <2>1. t \in Walkers
    BY <1>0 DEF IInv, TypeOK, PlaceInv
  <2>2. QED
    BY <1>0, <2>1 DEF IInv, TypeOK, PlaceInv, ReaderLabels
<1>8. CountInv'
  <2>1. to = "rl_load" => t \notin walking
    BY <1>0 DEF IInv, PlaceInv
  <2>2. Readers' = Readers
    BY <1>0, <2>1 DEF IInv, TypeOK, PlaceInv, Readers
  <2>3. QED
    BY <1>0, <2>2 DEF IInv, TypeOK, CountInv
<1>9. QED
  BY <1>2, <1>3, <1>4, <1>5, <1>6, <1>7, <1>8 DEF IInv

LEMMA CountReaderIInv ==
  ASSUME IInv, NEW t \in Threads, NEW from, NEW to,
         \/ from = "rl_load" /\ to = "rl_store"
         \/ from = "ru_load" /\ to = "ru_store",
         count_reader(t, from, to)
  PROVE  IInv'
<1>0. /\ pc[t] = from /\ ~Blocked(t) /\ to \in Labels
      /\ pc' = [pc EXCEPT ![t] = to] /\ num' = [num EXCEPT ![t] = NumReaders]
      /\ UNCHANGED <<count, waiters, ThreadId, NumReaders, next, aml, walking, status>>
  BY DEF count_reader, At, Goto, Labels
<1>1. TypeOK'
  BY <1>0 DEF IInv, TypeOK
<1>2. QueueInv' /\ HolderInv'
  BY <1>0, MoveKeeps DEF InsideLabels, ReaderLabels
<1>3. WriterInv'
  BY <1>0, MoveKeepsWriter, UnchangedSame, Setting
<1>4. OwnerInv' /\ PlaceInv'
  BY <1>0 DEF IInv, TypeOK, OwnerInv, PlaceInv, ReaderLabels
<1>5. CountInv'
  <2>1. Readers' = Readers
    BY <1>0 DEF IInv, TypeOK, Readers
  <2>2. QED
    BY <1>0, <2>1 DEF IInv, TypeOK, CountInv
<1>6. QED
  BY <1>1, <1>2, <1>3, <1>4, <1>5 DEF IInv

\* The count that a thread has read is still the count when it writes it back.
LEMMA AddReaderIInv == ASSUME IInv, NEW t \in Threads, add_reader(t) PROVE IInv'
<1>0. /\ pc[t] = "rl_store" /\ ~Blocked(t) /\ num[t] = NumReaders
      /\ NumReaders' = NumReaders + 1
      /\ pc' = [pc EXCEPT ![t] = "rl_done"] /\ num' = [num EXCEPT ![t] = 0]
      /\ UNCHANGED <<ThreadId, next, aml, walking, status>>
  BY DEF add_reader, At, Goto, IInv, CountInv
<1>1. \A m \in Mutexes : ~Queued(t, m)
  BY <1>0, UnblockedQueues
<1>2. \A u \in Threads : pc[u] \in {"rl_store", "rl_done", "ru_store", "ru_done"} => u = t
  <2>1. \A u \in Threads : pc[u] \in {"rl_store", "rl_done", "ru_store", "ru_done"} =>
          pc[u] \in ReaderLabels /\ ~Queued(u, "ReaderMutex")
    BY DEF ReaderLabels, IInv, QueueInv
  <2>2. QED
    BY <1>0, <2>1, AloneReading
<1>3. /\ pc'[t] = "rl_done" /\ \A u \in Threads \ {t} : pc'[u] = pc[u]
      /\ NumReaders \in Nat
  BY <1>0, ReadersWalk DEF IInv, TypeOK
<1>4. /\ Readers' = Readers \cup {t} /\ t \notin Readers
      /\ Readers' \subseteq Walkers /\ NumReaders' = Cardinality(Readers')
  <2>1. Readers' = Readers \cup {t} /\ t \notin Readers /\ t \in Walkers
    BY <1>0, <1>3 DEF Readers, IInv, PlaceInv, ReaderLabels
  <2>2. QED
    BY <1>0, <2>1, ReadersWalk, FS_AddElement
<1>5. CountInv'
  <2>1. \A u \in Threads : pc'[u] \notin {"rl_store", "ru_store"}
    BY <1>2, <1>3
  <2>2. QED
    BY <1>4, <2>1 DEF CountInv
<1>6. \/ NumReaders = 0 /\ Taken(t, "WriterMutex")
      \/ NumReaders > 0 /\ UNCHANGED <<count, waiters>>
  <2>1. CASE NumReaders = 0
    BY <1>0, <1>1, <2>1, WaitForeverTakes, Setting DEF add_reader
  <2>2. CASE NumReaders # 0
    BY <1>0, <1>3, <2>2 DEF add_reader
  <2>3. QED
    BY <2>1, <2>2
<1>7. /\ QueueTypes' /\ Onces' /\ \A m \in Mutexes \ {"WriterMutex"} : Same(m)
  BY <1>6, UnchangedSame, Setting DEF Taken, OthersSame
<1>8. TypeOK'
  <2>1. NumReaders' \in 0..Cardinality(Walkers)
    BY <1>4, ReadersBounded
  <2>2. 0 \in 0..Cardinality(Walkers)
    <3>1. Cardinality({}) = 0
      BY FS_EmptySet
    <3>2. QED
      BY <3>1, ReadersBounded
  <2>3. QED
    BY <1>0, <1>7, <2>1, <2>2 DEF IInv, TypeOK, QueueTypes, Labels
<1>9. QueueInv'
  <2>1. CASE Taken(t, "WriterMutex")
    BY <1>0, <2>1, TakeQueues, Setting DEF Labels
  <2>2. CASE UNCHANGED <<count, waiters>>
    <3>1. \A m \in Mutexes : \A u \in Threads : Queued(u, m)' <=> Queued(u, m)
      BY <2>2, UnchangedSame DEF Same
    <3>2. /\ ~Queued(t, "interpreter")' /\ ~Queued(t, "ReaderMutex")'
          /\ ~Queued(t, "aml")' /\ ~Queued(t, "WriterMutex")'
      BY <1>1, <3>1, Setting
    <3>3. "rl_done" \in Labels /\ TypeOK /\ QueueInv
      BY DEF Labels, IInv
    <3>4. \A m \in Mutexes : \A u \in Threads \ {t} : Queued(u, m)' => Queued(u, m)
      BY <3>1
    <3>5. QED
      BY <1>0, <1>7, <3>2, <3>3, <3>4, MoveQueues
  <2>3. QED
    BY <1>6, <2>1, <2>2
<1>10. HolderInv'
  <2>1. \A m \in Mutexes : \A u \in Threads : Entitled(u, m)' <=> Entitled(u, m)
    BY <1>0 DEF IInv, TypeOK, Entitled, InsideLabels, ReaderLabels
  <2>2. QED
    BY <1>7, <2>1, Setting, KeepHolds DEF HolderInv
<1>11. WriterInv'
  <2>0. ~firstWaits /\ count["WriterMutex"] \in {0, 1}
    BY <1>0, <1>2, Setting DEF firstWaits, QueueTypes
  <2>1. CASE NumReaders = 0 /\ count["WriterMutex"] = 1
    <3>1. /\ count'["WriterMutex"] = 0
          /\ \A u \in Threads : ~Queued(u, "WriterMutex")' /\ pc[u] # "delete"
      BY <1>6, <2>1 DEF Taken, IInv, WriterInv
    <3>2. ReadersHold' /\ ~firstWaits' /\ \A u \in Threads : ~unloading(u)'
      BY <1>0, <1>3, <2>1, <3>1 DEF ReadersHold, firstWaits, unloading
    <3>3. QED
      BY <3>1, <3>2 DEF WriterInv
  <2>2. CASE NumReaders = 0 /\ count["WriterMutex"] = 0
    <3>1. /\ count'["WriterMutex"] = 0
          /\ \A u \in Threads : Queued(u, "WriterMutex")'
                                  <=> Queued(u, "WriterMutex") \/ u = t
      BY <1>6, <2>2 DEF Taken
    <3>2. \A u \in Threads : unloading(u)' <=> unloading(u)
      BY <1>0, <1>3, <3>1 DEF unloading
    <3>3. firstWaits' /\ NumReaders' = 1 /\ ~ReadersHold'
      BY <1>0, <1>3, <2>2, <3>1 DEF firstWaits, ReadersHold
    <3>4. QED
      BY <2>2, <3>1, <3>2, <3>3 DEF IInv, WriterInv, ReadersHold
  <2>3. CASE NumReaders > 0
    <3>1. UNCHANGED <<count, waiters>>
      BY <1>6, <2>3
    <3>2. \A u \in Threads : Queued(u, "WriterMutex")' <=> Queued(u, "WriterMutex")
      BY <3>1 DEF Queued
    <3>3. /\ \A u \in Threads : unloading(u)' <=> unloading(u)
          /\ ~firstWaits' /\ ReadersHold /\ ReadersHold'
      BY <1>0, <1>1, <1>3, <2>0, <2>3, <3>2, Setting DEF unloading, firstWaits, ReadersHold
    <3>4. QED
      BY <1>3, <2>3, <3>1, <3>3 DEF IInv, WriterInv
  <2>4. QED
    BY <1>3, <2>0, <2>1, <2>2, <2>3
<1>12. OwnerInv' /\ PlaceInv'
  BY <1>0 DEF IInv, TypeOK, OwnerInv, PlaceInv, ReaderLabels
<1>13. QED
  BY <1>5, <1>8, <1>9, <1>10, <1>11, <1>12 DEF IInv
\* The last reader gives the writers' mutex back, whoever took it.
LEMMA RemoveReaderIInv == ASSUME IInv, NEW t \in Threads, remove_reader(t) PROVE IInv'
<1>0. /\ pc[t] = "ru_store" /\ ~Blocked(t) /\ num[t] = NumReaders
      /\ NumReaders' = NumReaders - 1
      /\ pc' = [pc EXCEPT ![t] = "ru_done"] /\ num' = [num EXCEPT ![t] = 0]
      /\ UNCHANGED <<ThreadId, next, aml, walking, status>>
  BY DEF remove_reader, At, Goto, IInv, CountInv
<1>1. \A m \in Mutexes : ~Queued(t, m)
  BY <1>0, UnblockedQueues
<1>2. \A u \in Threads : pc[u] \in {"rl_store", "rl_done", "ru_store", "ru_done"} => u = t
  <2>1. \A u \in Threads : pc[u] \in {"rl_store", "rl_done", "ru_store", "ru_done"} =>
          pc[u] \in ReaderLabels /\ ~Queued(u, "ReaderMutex")
    BY DEF ReaderLabels, IInv, QueueInv
  <2>2. QED
    BY <1>0, <2>1, AloneReading
<1>3. pc'[t] = "ru_done" /\ \A u \in Threads \ {t} : pc'[u] = pc[u]
  BY <1>0 DEF IInv, TypeOK
<1>4. /\ Readers' = Readers \ {t} /\ t \in Readers
      /\ Readers' \subseteq Walkers /\ NumReaders' = Cardinality(Readers')
      /\ NumReaders \in Nat /\ NumReaders > 0
  <2>1. Readers' = Readers \ {t} /\ t \in Readers
    BY <1>0, <1>3 DEF Readers, IInv, PlaceInv, ReaderLabels
  <2>2. NumReaders > 0 /\ NumReaders \in Nat
    BY <2>1, ReadersWalk, FS_EmptySet
  <2>3. Cardinality(Readers \ {t}) = NumReaders - 1
    BY <2>1, ReadersWalk, FS_RemoveElement
  <2>4. Readers' \subseteq Walkers
    BY <2>1, ReadersWalk
  <2>5. QED
    BY <1>0, <2>1, <2>2, <2>3, <2>4
<1>5. CountInv'
  <2>1. \A u \in Threads : pc'[u] \notin {"rl_store", "ru_store"}
    BY <1>2, <1>3
  <2>2. QED
    BY <1>4, <2>1 DEF CountInv
<1>6. ~firstWaits /\ ReadersHold /\ count["WriterMutex"] = 0
      /\ \A u \in Threads : ~unloading(u)
  <2>1. ~firstWaits
    BY <1>0, <1>2 DEF firstWaits
  <2>2. ReadersHold /\ count["WriterMutex"] = 0
    BY <1>4, <2>1, Setting DEF ReadersHold, IInv, WriterInv, QueueTypes
  <2>3. QED
    BY <2>1, <2>2 DEF IInv, WriterInv
<1>7. \/ NumReaders = 1 /\ Given("WriterMutex")
      \/ NumReaders > 1 /\ UNCHANGED <<count, waiters>>
  <2>1. CASE NumReaders = 1
    BY <1>0, <1>6, <2>1, ReleaseGives, Setting DEF remove_reader
  <2>2. CASE NumReaders # 1
    BY <1>0, <1>4, <2>2 DEF remove_reader
  <2>3. QED
    BY <2>1, <2>2
<1>8. /\ QueueTypes' /\ Onces' /\ \A m \in Mutexes \ {"WriterMutex"} : Same(m)
  BY <1>7, UnchangedSame, Setting DEF Given, OthersSame
<1>9. TypeOK'
  <2>1. NumReaders' \in 0..Cardinality(Walkers)
    BY <1>4, ReadersBounded
  <2>2. 0 \in 0..Cardinality(Walkers)
    <3>1. Cardinality({}) = 0
      BY FS_EmptySet
    <3>2. QED
      BY <3>1, ReadersBounded
  <2>3. QED
    BY <1>0, <1>8, <2>1, <2>2 DEF IInv, TypeOK, QueueTypes, Labels
<1>10. QueueInv'
  <2>1. CASE Given("WriterMutex")
    BY <1>0, <2>1, GiveQueues, Setting DEF Labels
  <2>2. CASE UNCHANGED <<count, waiters>>
    <3>1. \A m \in Mutexes : \A u \in Threads : Queued(u, m)' <=> Queued(u, m)
      BY <2>2, UnchangedSame DEF Same
    <3>2. /\ ~Queued(t, "interpreter")' /\ ~Queued(t, "ReaderMutex")'
          /\ ~Queued(t, "aml")' /\ ~Queued(t, "WriterMutex")'
      BY <1>1, <3>1, Setting
    <3>3. "ru_done" \in Labels /\ TypeOK /\ QueueInv
      BY DEF Labels, IInv
    <3>4. \A m \in Mutexes : \A u \in Threads \ {t} : Queued(u, m)' => Queued(u, m)
      BY <3>1
    <3>5. QED
      BY <1>0, <1>8, <3>2, <3>3, <3>4, MoveQueues
  <2>3. QED
    BY <1>7, <2>1, <2>2
<1>11. HolderInv'
  <2>1. \A m \in Mutexes : \A u \in Threads : Entitled(u, m)' <=> Entitled(u, m)
    BY <1>0 DEF IInv, TypeOK, Entitled, InsideLabels, ReaderLabels
  <2>2. QED
    BY <1>8, <2>1, Setting, KeepHolds DEF HolderInv
<1>12. WriterInv'
  <2>1. ASSUME NumReaders = 1, count'["WriterMutex"] = 1,
               \A u \in Threads : ~Queued(u, "WriterMutex") /\ ~Queued(u, "WriterMutex")'
        PROVE  WriterInv'
    <3>1. \A u \in Threads : pc'[u] # "delete"
      BY <1>3, <1>6, <2>1 DEF unloading
    <3>2. QED
      BY <1>0, <2>1, <3>1 DEF WriterInv, firstWaits
  <2>2. ASSUME NumReaders = 1, count'["WriterMutex"] = 0, NEW h \in Threads,
               Queued(h, "WriterMutex"),
               \A u \in Threads : Queued(u, "WriterMutex")'
                                    <=> Queued(u, "WriterMutex") /\ u # h
        PROVE  WriterInv'
    <3>1. h # t /\ pc'[h] = pc[h] /\ pc[h] = "delete"
      BY <1>0, <1>1, <1>2, <1>3, <2>2, Setting DEF IInv, QueueInv
    <3>2. \A u \in Threads : unloading(u)' <=> u = h
      BY <1>3, <1>6, <2>2, <3>1 DEF unloading
    <3>3. ~ReadersHold' /\ ~firstWaits'
      BY <1>0, <1>2, <1>3, <2>2 DEF ReadersHold, firstWaits
    <3>4. QED
      BY <2>2, <3>2, <3>3 DEF WriterInv
  <2>3. ASSUME NumReaders > 1, UNCHANGED <<count, waiters>> PROVE WriterInv'
    <3>1. \A u \in Threads : Queued(u, "WriterMutex")' <=> Queued(u, "WriterMutex")
      BY <2>3 DEF Queued
    <3>2. /\ \A u \in Threads : ~unloading(u)'
          /\ ~firstWaits' /\ ReadersHold'
      BY <1>0, <1>2, <1>3, <1>4, <1>6, <2>3, <3>1 DEF unloading, firstWaits, ReadersHold
    <3>3. QED
      BY <1>6, <2>3, <3>2 DEF WriterInv
  <2>4. QED
    BY <1>7, <2>1, <2>2, <2>3 DEF Given
<1>13. OwnerInv' /\ PlaceInv'
  BY <1>0 DEF IInv, TypeOK, OwnerInv, PlaceInv, ReaderLabels
<1>14. QED
  BY <1>5, <1>9, <1>10, <1>11, <1>12, <1>13 DEF IInv

LEMMA UnlockReadersIInv ==
  ASSUME IInv, NEW t \in Threads, NEW from, NEW to,
         \/ from = "rl_done" /\ to = "walk"
         \/ from = "ru_done" /\ to = "idle",
         unlock_readers(t, from, to)
  PROVE  IInv'
<1>0. /\ pc[t] = from /\ ~Blocked(t) /\ to \in Labels
      /\ pc' = [pc EXCEPT ![t] = to]
      /\ walking' = IF to = "walk" THEN walking \cup {t} ELSE walking
      /\ UNCHANGED <<ThreadId, NumReaders, next, num, aml, status>>
  BY DEF unlock_readers, At, Goto, Labels
<1>1. /\ Entitled(t, "ReaderMutex") /\ ~Queued(t, "ReaderMutex")
      /\ ~Entitled(t, "ReaderMutex")'
  BY <1>0, UnblockedQueues, Setting DEF Entitled, ReaderLabels, IInv, TypeOK
<1>2. Given("ReaderMutex")
  BY <1>1, HeldIsTaken, ReleaseGives, Setting DEF unlock_readers
<1>3. t \in Walkers /\ t \notin walking
  BY <1>0 DEF IInv, PlaceInv, ReaderLabels
<1>4. TypeOK'
  <2>1. walking' \subseteq Walkers
    BY <1>0, <1>3 DEF IInv, TypeOK
  <2>2. QED
    BY <1>0, <1>2, <2>1 DEF IInv, TypeOK, Given, QueueTypes
<1>5. QueueInv'
  BY <1>0, <1>2, GiveQueues, Setting
<1>6. HolderInv'
  <2>1. \A u \in Threads \ {t} : Entitled(u, "ReaderMutex")' <=> Entitled(u, "ReaderMutex")
    BY <1>0 DEF IInv, TypeOK, Entitled
  <2>2. \A m \in Mutexes \ {"ReaderMutex"} :
          \A u \in Threads : Entitled(u, m)' <=> Entitled(u, m)
    BY <1>0 DEF IInv, TypeOK, Entitled, InsideLabels
  <2>3. OneHolder("ReaderMutex")'
    BY <1>1, <1>2, <2>1, Setting, GiveHolds
  <2>4. OneHolder("interpreter")' /\ OneHolder("aml")'
    BY <1>2, <2>2, Setting, KeepHolds DEF Given, OthersSame
  <2>5. QED
    BY <2>3, <2>4 DEF HolderInv
<1>7. WriterInv'
  BY <1>0, <1>2, MoveKeepsWriter, Setting DEF Given, OthersSame
<1>8. OwnerInv'
  BY <1>0 DEF IInv, TypeOK, OwnerInv
<1>9. PlaceInv'
  BY <1>0, <1>3 DEF IInv, TypeOK, PlaceInv, ReaderLabels
<1>10. CountInv'
  <2>1. Readers' = Readers
    BY <1>0, <1>3 DEF IInv, TypeOK, Readers
  <2>2. QED
    BY <1>0, <2>1 DEF IInv, TypeOK, CountInv
<1>11. QED
  BY <1>4, <1>5, <1>6, <1>7, <1>8, <1>9, <1>10 DEF IInv
-----------------------------------------------------------------------------
LEMMA MethodIInv == ASSUME IInv, NEW t \in Threads, Method(t) PROVE IInv'
<1>1. CASE return(t)
  BY <1>1, ExitIInv DEF return, At, Base
<1>2. CASE sleep(t)
  BY <1>2, ExitIInv DEF sleep, At
<1>3. CASE waited(t)
  BY <1>3, EnterIInv DEF waited, At
<1>4. CASE wait_event(t)
  BY <1>4, StopIInv DEF wait_event
<1>5. CASE unload(t)
  BY <1>5, ExitIInv DEF unload, At
<1>6. CASE awake(t)
  BY <1>6, EnterIInv DEF awake, At
<1>7. QED
  BY <1>1, <1>2, <1>3, <1>4, <1>5, <1>6, AcquireIInv, WaitAmlIInv, ReleaseIInv,
     WriteLockIInv, WriteUnlockIInv DEF Method

LEMMA NextIInv == IInv /\ [Next]_vars => IInv'
<1>1. ASSUME IInv, NEW t \in Threads, Step(t) PROVE IInv'
  <2>1. CASE evaluate(t)
    BY <1>1, <2>1, EnterIInv DEF evaluate, At
  <2>2. CASE Interpreter(t)
    BY <1>1, <2>2, StampIInv, UnstampIInv, LeaveIInv DEF Interpreter
  <2>3. CASE AcpiUtAcquireReadLock(t)
    BY <1>1, <2>3, LockReadersIInv, CountReaderIInv, AddReaderIInv, UnlockReadersIInv
       DEF AcpiUtAcquireReadLock
  <2>4. CASE AcpiUtReleaseReadLock(t)
    BY <1>1, <2>4, LockReadersIInv, CountReaderIInv, RemoveReaderIInv, UnlockReadersIInv
       DEF AcpiUtReleaseReadLock
  <2>5. QED
    BY <1>1, <2>1, <2>2, <2>3, <2>4, MethodIInv DEF Step
<1>2. ASSUME IInv, UNCHANGED vars PROVE IInv'
  <2>1. TypeOK'
    BY <1>2 DEF IInv, TypeOK, vars
  <2>2. (QueueInv /\ HolderInv /\ WriterInv)'
    BY <1>2 DEF IInv, QueueInv, Queued, Once, HolderInv, OneHolder, Entitled, WriterInv,
       firstWaits, ReadersHold, unloading, vars
  <2>3. (OwnerInv /\ PlaceInv /\ CountInv)'
    BY <1>2 DEF IInv, OwnerInv, PlaceInv, CountInv, Readers, vars
  <2>4. QED
    BY <2>1, <2>2, <2>3 DEF IInv
<1>3. QED
  BY <1>1, <1>2 DEF Next

\* The inductive invariant of the ACPI OS layer's locks under ACPICA.
THEOREM Inductive == Spec => []IInv
  BY InitIInv, NextIInv, PTL DEF Spec

\* utmutex.c:397 "Mark unlocked FIRST": whoever is in the interpreter is its noted owner,
\* so that AcpiUtReleaseMutex never refuses to release what was acquired.
THEOREM OwnerNotedHolds == Spec => []OwnerNoted
<1>1. IInv => OwnerNoted
  BY DEF IInv, OwnerInv, OwnerNoted, Inside
<1>2. QED
  BY <1>1, Inductive, PTL

\* utlock.c:179 "fully exclusive": no table is unloaded while a walk is under way,
\* however many walks overlap and whichever reader took the writers' mutex.
THEOREM WalksUndisturbedHolds == Spec => []WalksUndisturbed
<1>1. ASSUME IInv PROVE WalksUndisturbed
  <2> SUFFICES ASSUME NEW w \in walking, NEW t \in Threads, pc[t] = "delete"
               PROVE  Blocked(t)
    BY DEF WalksUndisturbed
  <2>1. w \in Readers /\ w \in Threads /\ pc[w] \notin ReaderLabels
    BY <1>1, AcpiOslAssumption DEF IInv, TypeOK, PlaceInv, Readers
  \* The first reader would wait alone.
  <2>2. ~firstWaits
    <3>1. SUFFICES ASSUME NEW f \in Threads, pc[f] = "rl_done", NumReaders = 1
                   PROVE  FALSE
      BY <1>1 DEF firstWaits, IInv, WriterInv
    <3>2. f \in Readers /\ f # w
      BY <2>1, <3>1 DEF Readers, ReaderLabels
    <3>3. Cardinality(Readers \ {w}) = 0 /\ IsFiniteSet(Readers \ {w})
      BY <1>1, <2>1, <3>1, ReadersWalk, FS_RemoveElement
    <3>4. Readers \ {w} = {}
      BY <3>3, FS_EmptySet
    <3>5. QED
      BY <3>2, <3>4
  <2>3. NumReaders > 0
    BY <1>1, <2>1, ReadersWalk, FS_EmptySet
  <2>4. ~unloading(t)
    BY <1>1, <2>2, <2>3, Setting DEF ReadersHold, IInv, WriterInv, QueueTypes
  <2>5. QED
    BY <2>4, <1>1, Setting DEF unloading, Blocked, Queued
<1>2. QED
  BY <1>1, Inductive, PTL

\* utlock.c:108: while nobody changes it, NumReaders is the number of walks under way,
\* and as long as there are any the writers' mutex is taken.
THEOREM ReadersCountedHolds == Spec => []ReadersCounted
<1>1. ASSUME IInv PROVE ReadersCounted
  <2> SUFFICES ASSUME \A t \in Threads : pc[t] \notin ReaderLabels
               PROVE  /\ NumReaders = Cardinality(walking)
                      /\ walking # {} => count["WriterMutex"] = 0
    BY DEF ReadersCounted, ReaderLabels
  <2>1. Readers = walking
    BY DEF Readers, ReaderLabels
  <2>2. walking # {} => NumReaders > 0
    BY <1>1, <2>1, ReadersWalk, FS_EmptySet
  <2>3. QED
    BY <1>1, <2>1, <2>2, Setting DEF IInv, CountInv, WriterInv, QueueTypes
<1>2. QED
  BY <1>1, Inductive, PTL
=============================================================================
