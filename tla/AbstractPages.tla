--------------------------- MODULE AbstractPages ---------------------------
(***************************************************************************)
(* What a physical page allocator promises: every page is free, in use by  *)
(* the one client it was given to, or kept by the allocator for its own    *)
(* page tables, and it only ever gives out free pages.                     *)
(***************************************************************************)
CONSTANT Pages

VARIABLES free, used, kept

AbstractInit == free = Pages /\ used = {} /\ kept = {}

Allocate(p) ==
  /\ p \in free
  /\ free' = free \ {p} /\ used' = used \cup {p} /\ UNCHANGED kept

\* Freeing may cost a free page, one at most, for a table of the allocator's own.
Free(p) ==
  /\ p \in used
  /\ used' = used \ {p}
  /\ \E tables \in SUBSET free :
       /\ \A t, u \in tables : t = u
       /\ free' = (free \ tables) \cup {p}
       /\ kept' = kept \cup tables

AbstractNext == \E p \in Pages : Allocate(p) \/ Free(p)

AbstractSpec == AbstractInit /\ [][AbstractNext]_<<free, used, kept>>
=============================================================================
