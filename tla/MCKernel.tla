------------------------------ MODULE MCKernel ------------------------------
(***************************************************************************)
(* Small instances of Kernel for TLC.                                      *)
(***************************************************************************)
EXTENDS Kernel

CONSTANTS w1, w2, w3, s1, s2

ThreeThreads == {thread0, w1, w2}
FourThreads == {thread0, w1, w2, w3}
TwoWorkers == {w1, w2}
ThreeWorkers == {w1, w2, w3}
OneSem == {s1}
TwoSems == {s1, s2}
OneSemLocks == {scheduler_lock, s1}
TwoSemsLocks == {scheduler_lock, s1, s2}
OnlyThread0 == {thread0}
OnlyW3 == {w3}
None == {}

\* A mutex; two units and, like a semaphore whose event never comes, none.
OneUnit == [s \in Sems |-> 1]
TwoAndNone == [s \in Sems |-> IF s = s1 THEN 2 ELSE 0]
=============================================================================
