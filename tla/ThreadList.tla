----------------------------- MODULE ThreadList -----------------------------
(***************************************************************************)
(* The linked lists behind Scheduler's and Semaphore's sequences: the list *)
(* helpers of src/kernel/thread.c, in which both lists share thread_t.next *)
(* and an append walks to the end, and the queue of waiter_t with its tail *)
(* pointer in semaphore.c.                                                 *)
(*                                                                         *)
(* Every loop iteration is a step.  All of it runs under a spin lock, so   *)
(* one operation is in progress at a time.  "content" and "queue" are      *)
(* history variables: the sequences the callers take the lists for.  As    *)
(* Kernel's ThreadQueues and NoLostWakeup say, a thread is appended only   *)
(* when it is on no list, and queued only when it is not queued.           *)
(***************************************************************************)
EXTENDS Naturals, Sequences

CONSTANTS Threads, NULL

ASSUME ThreadListAssumption == NULL \notin Threads

VARIABLES
  head,             \* ready_list and suspended_list
  next,             \* thread_t.next
  op, list, thread, \* the operation in progress and its arguments
  cursor,           \* list_append's last; list_remove's pp, NULL for the head itself
  popped,           \* what the last pop returned
  whead, wtail,     \* semaphore->head and tail, by the thread of the waiter_t
  wnext,            \* waiter_t.next
  woken,            \* whose waiter_t the last pop of the queue took
  content, queue

threadVars == <<head, next, op, list, thread, cursor, content>>
waiterVars == <<whead, wtail, wnext, woken, queue>>
vars == <<threadVars, popped, waiterVars>>

Lists == {"ready_list", "suspended_list"}
Pointers == Threads \cup {NULL}

TypeOK ==
  /\ head \in [Lists -> Pointers] /\ next \in [Threads -> Pointers]
  /\ op \in {"none", "append", "remove"} /\ list \in Lists
  /\ thread \in Pointers /\ (thread = NULL <=> op = "none")
  /\ cursor \in Pointers /\ popped \in Pointers
  /\ whead \in Pointers /\ wtail \in Pointers /\ wnext \in [Threads -> Pointers]
  /\ woken \in Pointers
  /\ content \in [Lists -> Seq(Threads)] /\ queue \in Seq(Threads)

\* thread0 is current, and nothing is on a list. A new thread_t is not cleared.
Init ==
  /\ head = [l \in Lists |-> NULL] /\ next \in [Threads -> Pointers]
  /\ op = "none" /\ list = "ready_list" /\ thread = NULL /\ cursor = NULL /\ popped = NULL
  /\ whead = NULL /\ wtail = NULL /\ wnext = [t \in Threads |-> NULL] /\ woken = NULL
  /\ content = [l \in Lists |-> <<>>] /\ queue = <<>>

On(s, t) == \E i \in DOMAIN s : s[i] = t
OnNoList(t) == \A l \in Lists : ~On(content[l], t)

\* Scheduler's list_remove.
Without(s, t) ==
  IF ~On(s, t) THEN s
  ELSE LET i == CHOOSE j \in DOMAIN s : s[j] = t /\ \A k \in 1..(j - 1) : s[k] # t
       IN  [k \in 1..(Len(s) - 1) |-> IF k < i THEN s[k] ELSE s[k + 1]]
-----------------------------------------------------------------------------
(***************************************************************************)
(* thread.c                                                                *)
(***************************************************************************)
begin(what, l, t, at) ==
  /\ op' = what /\ list' = l /\ thread' = t /\ cursor' = at
done == op' = "none" /\ thread' = NULL /\ cursor' = NULL /\ UNCHANGED list

list_append(l, t) ==
  /\ op = "none" /\ OnNoList(t)
  /\ next' = [next EXCEPT ![t] = NULL]
  /\ IF head[l] = NULL
       THEN /\ head' = [head EXCEPT ![l] = t]
            /\ content' = [content EXCEPT ![l] = Append(@, t)]
            /\ UNCHANGED <<op, list, thread, cursor>>
       ELSE begin("append", l, t, head[l]) /\ UNCHANGED <<head, content>>
  /\ UNCHANGED <<popped, waiterVars>>

append_walk ==
  /\ op = "append" /\ next[cursor] # NULL
  /\ cursor' = next[cursor]
  /\ UNCHANGED <<head, next, op, list, thread, content, popped, waiterVars>>

append_link ==
  /\ op = "append" /\ next[cursor] = NULL
  /\ next' = [next EXCEPT ![cursor] = thread]
  /\ content' = [content EXCEPT ![list] = Append(@, thread)]
  /\ done
  /\ UNCHANGED <<head, popped, waiterVars>>

list_pop(l) ==
  /\ op = "none"
  /\ popped' = head[l]
  /\ IF head[l] = NULL
       THEN UNCHANGED threadVars
       ELSE /\ head' = [head EXCEPT ![l] = next[head[l]]]
            /\ next' = [next EXCEPT ![head[l]] = NULL]
            /\ content' = [content EXCEPT ![l] = Tail(@)]
            /\ UNCHANGED <<op, list, thread, cursor>>
  /\ UNCHANGED waiterVars

list_remove(l, t) ==
  /\ op = "none" /\ begin("remove", l, t, NULL)
  /\ UNCHANGED <<head, next, content, popped, waiterVars>>

at_pp == IF cursor = NULL THEN head[list] ELSE next[cursor]    \* *pp

remove_walk ==
  /\ op = "remove" /\ at_pp \notin {thread, NULL}
  /\ cursor' = at_pp
  /\ UNCHANGED <<head, next, op, list, thread, content, popped, waiterVars>>

remove_unlink_head ==                                         \* mutant
  /\ op = "remove" /\ at_pp = thread
  /\ head' = [head EXCEPT ![list] = next[thread]]
  /\ content' = [content EXCEPT ![list] = Without(@, thread)]
  /\ done /\ UNCHANGED <<next, popped, waiterVars>>
remove_unlink ==
  /\ op = "remove" /\ at_pp = thread
  /\ IF cursor = NULL
       THEN head' = [head EXCEPT ![list] = next[thread]] /\ UNCHANGED next
       ELSE next' = [next EXCEPT ![cursor] = next[thread]] /\ UNCHANGED head
  /\ content' = [content EXCEPT ![list] = Without(@, thread)]
  /\ done
  /\ UNCHANGED <<popped, waiterVars>>

remove_absent ==
  /\ op = "remove" /\ at_pp = NULL
  /\ content' = [content EXCEPT ![list] = Without(@, thread)]
  /\ done
  /\ UNCHANGED <<head, next, popped, waiterVars>>
-----------------------------------------------------------------------------
(***************************************************************************)
(* semaphore.c                                                             *)
(***************************************************************************)
append_waiter(t) ==
  /\ ~On(queue, t)
  /\ IF wtail = NULL
       THEN whead' = t /\ wnext' = [wnext EXCEPT ![t] = NULL]
       ELSE wnext' = [wnext EXCEPT ![t] = NULL, ![wtail] = t] /\ UNCHANGED whead
  /\ wtail' = t
  /\ queue' = Append(queue, t)
  /\ UNCHANGED <<threadVars, popped, woken>>

pop_waiter_tail ==                                            \* mutant
  /\ whead # NULL /\ woken' = whead /\ whead' = wnext[whead]
  /\ queue' = Tail(queue) /\ UNCHANGED <<threadVars, popped, wtail, wnext>>
pop_waiter ==
  /\ whead # NULL
  /\ woken' = whead
  /\ whead' = wnext[whead]
  /\ wtail' = IF wnext[whead] = NULL THEN NULL ELSE wtail
  /\ queue' = Tail(queue)
  /\ UNCHANGED <<threadVars, popped, wnext>>
-----------------------------------------------------------------------------
Walk ==
  \/ append_walk
  \/ append_link
  \/ remove_walk
  \/ remove_unlink
  \/ remove_absent

ListNext ==
  \/ Walk
  \/ \E l \in Lists, t \in Threads : list_append(l, t) \/ list_remove(l, t)
  \/ \E l \in Lists : list_pop(l)

Next ==
  \/ ListNext
  \/ \E t \in Threads : append_waiter(t)
  \/ pop_waiter

Spec == Init /\ [][Next]_vars
-----------------------------------------------------------------------------
Abstract == INSTANCE AbstractLists WITH lists <- content, taken <- popped
Waiters == INSTANCE AbstractLists WITH
  Lists <- {"queue"}, lists <- [l \in {"queue"} |-> queue], taken <- woken

\* thread.c, semaphore.c: for the code that calls them the linked lists are sequences
\* of threads, and what is popped, by links alone, is the first of its sequence.
ImplementsLists == Abstract!AbstractSpec /\ Waiters!AbstractSpec

\* The links from first on spell the sequence s and end in NULL.
Spells(first, links, s) ==
  /\ first = IF s = <<>> THEN NULL ELSE s[1]
  /\ \A i \in DOMAIN s : links[s[i]] = IF i = Len(s) THEN NULL ELSE s[i + 1]

\* thread.c:54: both lists, which share thread_t.next, are the sequences Scheduler
\* takes them for, whatever next a thread keeps from a list it was removed from, and
\* a walk that looks for the end (thread.c:65) never leaves for the other list.
ListsLinked ==
  /\ \A l \in Lists : Spells(head[l], next, content[l])
  /\ op # "none" /\ cursor # NULL => On(content[list], cursor)

\* semaphore.c:70: the queue of waiters is the sequence Semaphore takes it for, and
\* tail is the last of it, or NULL with an empty queue.
QueueLinked ==
  /\ Spells(whead, wnext, queue)
  /\ wtail = IF queue = <<>> THEN NULL ELSE queue[Len(queue)]
=============================================================================
