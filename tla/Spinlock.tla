------------------------------ MODULE Spinlock ------------------------------
(***************************************************************************)
(* The spin locks of src/kernel/spinlock.c on the one CPU kiznix drives.   *)
(*                                                                         *)
(* On a single CPU a spin lock excludes nobody by spinning: what protects  *)
(* a critical section is that spin_lock clears the interrupt flag and that *)
(* only the outermost spin_unlock may set it again.  Two globals carry     *)
(* that rule: the nesting depth and the flag found by the outermost lock.  *)
(*                                                                         *)
(* spin_lock and spin_unlock are operators that describe the call's whole  *)
(* effect on the variables of this module; the modules that extend it      *)
(* conjoin them with what the caller does in the same step.  Reading the   *)
(* flag and clearing it are one step: an interrupt taken in between        *)
(* returns with iret, which restores the flag that was read.               *)
(***************************************************************************)
EXTENDS Naturals

CONSTANT Locks            \* the spinlock_t objects of the system

VARIABLES
  cpu,                    \* what became of the machine (CpuStates below)
  intr,                   \* the CPU's interrupt flag, EFLAGS.IF
  lock,                   \* the value of each spinlock_t
  g_spinLockCount,
  g_interruptsEnabled

spinVars == <<cpu, intr, lock, g_spinLockCount, g_interruptsEnabled>>

(***************************************************************************)
(* "fatal": fatal() or a failed assert stopped the machine.  "spinning":   *)
(* spin_lock found the lock taken; with interrupts off nobody can release  *)
(* it.  "halted": thread_exit executed cli; hlt.  None of the three ends.  *)
(***************************************************************************)
CpuStates == {"running", "fatal", "spinning", "halted"}

SpinTypeOK ==
  /\ cpu \in CpuStates
  /\ intr \in BOOLEAN
  /\ lock \in [Locks -> {0, 1}]
  /\ g_spinLockCount \in Nat
  /\ g_interruptsEnabled \in BOOLEAN

SpinInit ==
  /\ cpu = "running"
  /\ intr = TRUE
  /\ lock = [l \in Locks |-> 0]
  /\ g_spinLockCount = 0
  /\ g_interruptsEnabled = FALSE

\* spin_lock in a build where it forgets to clear the interrupt flag.
spin_lock_keeps_if(l) ==
  /\ intr' = intr
  /\ g_interruptsEnabled' = IF g_spinLockCount = 0 THEN intr ELSE g_interruptsEnabled
  /\ g_spinLockCount' = g_spinLockCount + 1
  /\ lock' = [lock EXCEPT ![l] = 1]
  /\ cpu' = IF lock[l] = 1 THEN "spinning" ELSE cpu

spin_lock(l) ==
  /\ intr' = FALSE
  /\ g_interruptsEnabled' = IF g_spinLockCount = 0 THEN intr ELSE g_interruptsEnabled
  /\ g_spinLockCount' = g_spinLockCount + 1
  /\ lock' = [lock EXCEPT ![l] = 1]
  /\ cpu' = IF lock[l] = 1 THEN "spinning" ELSE cpu

\* spin_unlock in a build that restores the flag at every nesting level.
spin_unlock_any_depth(l) ==
  IF intr \/ g_spinLockCount = 0
  THEN cpu' = "fatal" /\ UNCHANGED <<intr, lock, g_spinLockCount, g_interruptsEnabled>>
  ELSE /\ lock' = [lock EXCEPT ![l] = 0]
       /\ g_spinLockCount' = g_spinLockCount - 1
       /\ intr' = g_interruptsEnabled
       /\ UNCHANGED <<cpu, g_interruptsEnabled>>

spin_unlock(l) ==
  IF intr \/ g_spinLockCount = 0
  THEN cpu' = "fatal" /\ UNCHANGED <<intr, lock, g_spinLockCount, g_interruptsEnabled>>
  ELSE /\ lock' = [lock EXCEPT ![l] = 0]
       /\ g_spinLockCount' = g_spinLockCount - 1
       /\ intr' = IF g_spinLockCount = 1 THEN g_interruptsEnabled ELSE FALSE
       /\ UNCHANGED <<cpu, g_interruptsEnabled>>
=============================================================================
