------------------------- MODULE AbstractSemaphore -------------------------
(***************************************************************************)
(* What src/include/kernel/semaphore.h promises its callers: a count of    *)
(* free units, a first-come first-served queue, and a unit given back      *)
(* while somebody queues goes straight to the head of the queue.  There is *)
(* no scheduler, no interrupt and no intermediate state here: every        *)
(* operation is one step.                                                  *)
(***************************************************************************)
EXTENDS Naturals, Sequences

CONSTANTS
  Clients, Semaphores,
  Units                   \* how many units each semaphore starts with, a Nat

VARIABLES
  free,                   \* units nobody holds
  queue,                  \* clients that wait, first come first
  owner                   \* clients that hold a unit

avars == <<free, queue, owner>>

AbstractInit ==
  /\ free = Units
  /\ queue = [s \in Semaphores |-> <<>>]
  /\ owner = [s \in Semaphores |-> {}]

Idle(c) ==
  \A s \in Semaphores : c \notin owner[s] /\ \A i \in DOMAIN queue[s] : queue[s][i] # c

\* A free unit is taken at once, and only when nobody was there before.
Acquire(c, s) ==
  /\ Idle(c)
  /\ free[s] > 0 /\ queue[s] = <<>>
  /\ free' = [free EXCEPT ![s] = @ - 1]
  /\ owner' = [owner EXCEPT ![s] = @ \cup {c}]
  /\ UNCHANGED queue

Enqueue(c, s) ==
  /\ Idle(c)
  /\ free[s] = 0
  /\ queue' = [queue EXCEPT ![s] = Append(@, c)]
  /\ UNCHANGED <<free, owner>>

Release(c, s) ==
  /\ c \in owner[s]
  /\ queue[s] = <<>>
  /\ free' = [free EXCEPT ![s] = @ + 1]
  /\ owner' = [owner EXCEPT ![s] = @ \ {c}]
  /\ UNCHANGED queue

HandOver(c, s) ==
  /\ c \in owner[s]
  /\ queue[s] # <<>>
  /\ queue' = [queue EXCEPT ![s] = Tail(@)]
  /\ owner' = [owner EXCEPT ![s] = (@ \ {c}) \cup {Head(queue[s])}]
  /\ UNCHANGED free

AbstractNext ==
  \E c \in Clients, s \in Semaphores :
    Acquire(c, s) \/ Enqueue(c, s) \/ Release(c, s) \/ HandOver(c, s)

AbstractSpec == AbstractInit /\ [][AbstractNext]_avars
=============================================================================
