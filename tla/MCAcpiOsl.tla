----------------------------- MODULE MCAcpiOsl -----------------------------
(***************************************************************************)
(* Instances of AcpiOsl for TLC.                                           *)
(***************************************************************************)
EXTENDS AcpiOsl, TLC
=============================================================================
