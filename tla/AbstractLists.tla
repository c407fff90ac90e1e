--------------------------- MODULE AbstractLists ---------------------------
(***************************************************************************)
(* What the lists of threads promise the code that holds scheduler_lock:   *)
(* first in, first out, a thread that is removed leaves the others in      *)
(* their order, and nobody is ever put on a list while it is on one.       *)
(*                                                                         *)
(* A step is one critical section: one call of a list helper, or the two   *)
(* that thread_wakeup and thread_schedule make before they unlock.         *)
(***************************************************************************)
EXTENDS Naturals, Sequences

CONSTANTS Threads, Lists, NULL

VARIABLES
  lists,                  \* the threads on each list, first come first
  taken                   \* what was taken off a list last

avars == <<lists, taken>>

AbstractInit ==
  /\ lists = [l \in Lists |-> <<>>]
  /\ taken \in Threads \cup {NULL}

OnNone(t) == \A l \in Lists : \A i \in DOMAIN lists[l] : lists[l][i] # t

\* s without what is at its place i.
CutAt(s, i) == [k \in 1..(Len(s) - 1) |-> IF k < i THEN s[k] ELSE s[k + 1]]

Insert(t, l) ==
  /\ OnNone(t)
  /\ lists' = [lists EXCEPT ![l] = Append(@, t)]
  /\ UNCHANGED taken

Take(l) ==
  /\ lists[l] # <<>>
  /\ taken' = Head(lists[l])
  /\ lists' = [lists EXCEPT ![l] = Tail(@)]

TakeNothing(l) ==
  /\ lists[l] = <<>>
  /\ taken' = NULL
  /\ UNCHANGED lists

Remove(i, l) ==
  /\ i \in DOMAIN lists[l]
  /\ lists' = [lists EXCEPT ![l] = CutAt(@, i)]
  /\ UNCHANGED taken

\* A woken thread goes from one list to the end of another.
Move(i, from, to) ==
  /\ i \in DOMAIN lists[from] /\ from # to
  /\ lists' = [lists EXCEPT ![from] = CutAt(@, i), ![to] = Append(@, lists[from][i])]
  /\ UNCHANGED taken

\* The thread taken last goes back, to the list it is taken from or to another, and
\* the first of the others takes its place.
Switch(back, from) ==
  /\ taken \in Threads /\ OnNone(taken)
  /\ lists[from] # <<>>
  /\ taken' = Head(lists[from])
  /\ lists' = [l \in Lists |->
       LET rest == IF l = from THEN Tail(lists[l]) ELSE lists[l]
       IN  IF l = back THEN Append(rest, taken) ELSE rest]

AbstractNext ==
  \/ \E l \in Lists, t \in Threads : Insert(t, l)
  \/ \E l \in Lists : Take(l) \/ TakeNothing(l)
  \/ \E l \in Lists : \E i \in DOMAIN lists[l] : Remove(i, l)
  \/ \E from, to \in Lists : \E i \in DOMAIN lists[from] : Move(i, from, to)
  \/ \E back, from \in Lists : Switch(back, from)

AbstractSpec == AbstractInit /\ [][AbstractNext]_avars
=============================================================================
