------------------------------- MODULE MCPci -------------------------------
(***************************************************************************)
(* Instances of Pci for TLC.                                               *)
(***************************************************************************)
EXTENDS Pci, TLC

ThreadSymmetry == Permutations(Threads)
=============================================================================
