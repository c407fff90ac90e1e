------------------------------- MODULE MCPmm -------------------------------
(***************************************************************************)
(* Pages for Pmm, handed out by the boot regions in a fixed order.         *)
(***************************************************************************)
EXTENDS Pmm, SequencesExt

Boot == SetToSeq(Pages)
=============================================================================
