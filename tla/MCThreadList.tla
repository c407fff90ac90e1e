---------------------------- MODULE MCThreadList ----------------------------
(***************************************************************************)
(* Instances of ThreadList for TLC.                                        *)
(***************************************************************************)
EXTENDS ThreadList, TLC

ThreadSymmetry == Permutations(Threads)
=============================================================================
