---------------------------- MODULE MCBootMemory ----------------------------
(***************************************************************************)
(* Scaled constants for BootMemory: pages of 3 bytes (so that a range can  *)
(* lie strictly inside a page), "1 MB" at 3, a kernel image of a page and  *)
(* a third, "4 GB" at 15 and memory up to 19.                              *)
(***************************************************************************)
EXTENDS BootMemory

Entries == {e \in [base : 0..17, length : 1..19] : e.base + e.length <= 19}

Apart(d, e) == d.base + d.length <= e.base \/ e.base + e.length <= d.base

\* A boot loader reports disjoint ranges, in any order.
Maps == {<<>>} \cup {<<e>> : e \in Entries}
          \cup {m \in Entries \X Entries : Apart(m[1], m[2])}
=============================================================================
