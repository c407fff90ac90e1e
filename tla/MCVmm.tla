------------------------------- MODULE MCVmm -------------------------------
(***************************************************************************)
(* Constants of Vmm for TLC.  The frames are interchangeable.              *)
(***************************************************************************)
EXTENDS Vmm, TLC

FrameSymmetry == Permutations(Frames)
=============================================================================
