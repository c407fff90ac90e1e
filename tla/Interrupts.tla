----------------------------- MODULE Interrupts -----------------------------
(***************************************************************************)
(* The two 8259 interrupt controllers behind src/kernel/x86/pic.c,         *)
(* dispatcher of interrupt.c, drivers that start as timer.c does, and the  *)
(* threads that the timer switches.                                        *)
(*                                                                         *)
(* Devices raise their lines at any moment, and noise makes a controller   *)
(* deliver a spurious interrupt.  The handler of IRQ 0 switches threads    *)
(* (thread_yield), so the rest of interrupt_dispatch, which unmasks IRQ 0, *)
(* runs when its thread does.  Which thread that is, is Scheduler's matter *)
(* and left open here.                                                     *)
(***************************************************************************)
EXTENDS Naturals, FiniteSets

CONSTANTS
  Threads, thread0,
  Lines,            \* the IRQ lines of the instance, within 0..15
  Devices           \* those a driver is started for; 0 is the timer

ASSUME InterruptsAssumption ==
  /\ Lines \subseteq 0..15 /\ {0, 2, 7, 15} \subseteq Lines
  /\ 0 \in Devices /\ Devices \subseteq Lines \ {2}
  /\ thread0 \in Threads

VARIABLES
  mask, irr, isr,   \* the registers of both controllers, as sets of lines
  noise,            \* controllers that will deliver a spurious interrupt
  intr,             \* the CPU's interrupt flag
  handlers,         \* interrupt_handlers, by vector
  current_thread,
  pc,               \* where each thread is
  interrupted,      \* where the interrupt found it
  irq,              \* interrupt_dispatch's irq
  line, read,       \* pic_enable_irq's line, and the mask register as it read it
  cpu               \* "running" or "fatal"

pics == <<mask, irr, isr, noise>>
code == <<current_thread, pc, interrupted, irq, line, read>>
vars == <<pics, intr, handlers, code, cpu>>

PIC_IRQ_OFFSET == 32
Vectors == {PIC_IRQ_OFFSET + l : l \in Lines}

Interruptible == {"run", "entry_read", "entry_write", "init_read", "init_write"}
Dispatching == {"dispatch", "eoi", "handler", "unmask", "iret"}

TypeOK ==
  /\ mask \subseteq Lines /\ irr \subseteq Lines /\ isr \subseteq Lines
  /\ noise \subseteq {"master", "slave"}
  /\ intr \in BOOLEAN
  /\ handlers \in [Vectors -> {"none", "driver", "acpi"}]
  /\ current_thread \in Threads
  /\ pc \in [Threads -> Interruptible \cup Dispatching \cup {"none"}]
  /\ interrupted \in [Threads -> Interruptible]
  /\ irq \in [Threads -> Lines] /\ line \in [Threads -> Lines]
  /\ read \in [Threads -> SUBSET Lines]
  /\ cpu \in {"running", "fatal"}

\* interrupt_init has run: every line masked but the cascade, interrupts on.
pic_init == mask = Lines \ {2} /\ irr = {} /\ isr = {} /\ noise = {}
interrupt_init ==
  /\ pic_init
  /\ handlers = [v \in Vectors |-> "none"]
  /\ intr = TRUE

Init ==
  /\ interrupt_init
  /\ current_thread = thread0
  /\ pc = [t \in Threads |-> IF t = thread0 THEN "run" ELSE "none"]
  /\ interrupted = [t \in Threads |-> "run"]
  /\ irq = [t \in Threads |-> 0] /\ line = [t \in Threads |-> 0]
  /\ read = [t \in Threads |-> {}]
  /\ cpu = "running"
-----------------------------------------------------------------------------
(***************************************************************************)
(* The controllers.                                                        *)
(***************************************************************************)
Chip(l) == {k \in Lines : (k >= 8) = (l >= 8)}
Cascade(l) == IF l >= 8 THEN 2 ELSE l

\* Fully nested mode: a line in service holds back itself and those below it.
HeldBack(l) == \E k \in isr \cap Chip(l) : k <= l

Deliverable ==
  {l \in irr \ mask : ~HeldBack(l) /\ Cascade(l) \notin mask /\ ~HeldBack(Cascade(l))}

Before(k, l) == Cascade(k) < Cascade(l) \/ (Cascade(k) = Cascade(l) /\ k < l)

raise(l) ==
  /\ l \notin irr /\ irr' = irr \cup {l}
  /\ UNCHANGED <<mask, isr, noise, intr, handlers, code, cpu>>

\* A request that is gone before the CPU acknowledges it.
disturb(chip) ==
  /\ chip \notin noise /\ noise' = noise \cup {chip}
  /\ UNCHANGED <<mask, irr, isr, intr, handlers, code, cpu>>

\* The CPU takes an interrupt: interrupt_entry_x pushes the context.
enter(l) ==
  /\ cpu = "running" /\ intr /\ pc[current_thread] \in Interruptible
  /\ intr' = FALSE
  /\ interrupted' = [interrupted EXCEPT ![current_thread] = pc[current_thread]]
  /\ irq' = [irq EXCEPT ![current_thread] = l]
  /\ pc' = [pc EXCEPT ![current_thread] = "dispatch"]
  /\ UNCHANGED <<mask, handlers, current_thread, line, read, cpu>>

acknowledge(l) ==
  /\ l \in Deliverable /\ \A k \in Deliverable \ {l} : Before(l, k)
  /\ irr' = irr \ {l} /\ isr' = isr \cup {l, Cascade(l)}
  /\ enter(l)
  /\ UNCHANGED noise

\* Nothing to deliver: the controller answers with its lowest line and does not
\* put it in service.  The master cannot know that of its slave.
spurious(chip) ==
  /\ chip \in noise /\ Deliverable = {}
  /\ noise' = noise \ {chip}
  /\ IF chip = "slave"
       THEN ~HeldBack(2) /\ isr' = isr \cup {2} /\ enter(15)
       ELSE isr' = isr /\ enter(7)
  /\ UNCHANGED irr

\* What an end-of-interrupt command makes of a controller's line in service.
EndOf(inService, chip) ==
  {l \in inService : l \notin chip \/ \E k \in inService \cap chip : k < l}
-----------------------------------------------------------------------------
(***************************************************************************)
(* pic.c                                                                   *)
(***************************************************************************)
Master == Chip(0)
Slave == Chip(15)

pic_irq_real(l) == l \in {7, 15} => l \in isr

\* The acknowledgement pic_irq_real sends of a spurious IRQ 15.
spurious_eoi_none(l) == isr                                   \* mutant
spurious_eoi(l) == IF l = 15 THEN EndOf(isr, Master) ELSE isr

pic_eoi_master(l) == EndOf(isr, Master)                       \* mutant
pic_eoi(l) == EndOf(IF l >= 8 THEN EndOf(isr, Slave) ELSE isr, Master)

pic_disable_irq(l) == mask \cup {l}

\* pic_enable_irq writes the whole register of the controller: the bits it has
\* read, without that of the line.
pic_enable_irq_masks(l, register) == mask \cup {l}            \* mutant
pic_enable_irq(l, register) == (mask \ Chip(l)) \cup (register \ {l})
-----------------------------------------------------------------------------
(***************************************************************************)
(* interrupt_dispatch, with interrupts off up to the iret.                 *)
(***************************************************************************)
me == current_thread
At(l) == cpu = "running" /\ pc[me] = l
Goto(l) == pc' = [pc EXCEPT ![me] = l]

dispatch_real ==
  /\ At("dispatch")
  /\ IF pic_irq_real(irq[me])
       THEN Goto("eoi") /\ mask' = pic_disable_irq(irq[me]) /\ isr' = isr
       ELSE Goto("iret") /\ isr' = spurious_eoi(irq[me]) /\ mask' = mask
  /\ UNCHANGED <<irr, noise, intr, handlers, current_thread, interrupted, irq,
                 line, read, cpu>>

dispatch_eoi ==
  /\ At("eoi") /\ Goto("handler")
  /\ isr' = pic_eoi(irq[me])
  /\ UNCHANGED <<mask, irr, noise, intr, handlers, current_thread, interrupted,
                 irq, line, read, cpu>>

\* thread_yield out of thread code or out of the timer's handler: whoever is
\* next goes on where it left, a new thread with the interrupt flag as it is.
switch_to(t) ==
  /\ current_thread' = t
  /\ pc'[t] \in {"run", "unmask", "entry_read"}
  /\ intr' = CASE pc'[t] = "run" -> TRUE
               [] pc'[t] = "unmask" -> FALSE
               [] OTHER -> intr

\* The handler of a device returns; the timer's comes back from thread_yield
\* when this thread is next; without a handler the kernel stops.
dispatch_handler ==
  /\ At("handler")
  /\ IF handlers[PIC_IRQ_OFFSET + irq[me]] = "none"
       THEN cpu' = "fatal" /\ UNCHANGED <<pc, intr, current_thread>>
       ELSE /\ Goto("unmask") /\ cpu' = cpu
            /\ IF irq[me] = 0
                 THEN \E t \in Threads : switch_to(t)
                 ELSE UNCHANGED <<intr, current_thread>>
  /\ UNCHANGED <<pics, handlers, interrupted, irq, line, read>>

dispatch_unmask ==
  /\ At("unmask") /\ Goto("iret")
  /\ mask' = pic_enable_irq(irq[me], mask \cap Chip(irq[me]))
  /\ UNCHANGED <<irr, isr, noise, intr, handlers, current_thread, interrupted,
                 irq, line, read, cpu>>

interrupt_exit ==
  /\ At("iret") /\ Goto(interrupted[me])
  /\ intr' = TRUE
  /\ interrupted' = [interrupted EXCEPT ![me] = "run"]   \* dead from here on
  /\ irq' = [irq EXCEPT ![me] = 0]
  /\ UNCHANGED <<pics, handlers, current_thread, line, read, cpu>>
-----------------------------------------------------------------------------
(***************************************************************************)
(* Thread code.                                                            *)
(***************************************************************************)
\* timer_init, which thread_init calls, and the drivers that follow it, before
\* kernel_main creates threads: interrupt_register, then pic_enable_irq with
\* interrupts on between its read and its write.
driver_register(l) ==
  /\ At("run") /\ me = thread0 /\ handlers[PIC_IRQ_OFFSET + l] = "none"
  /\ l # 0 => handlers[PIC_IRQ_OFFSET] # "none"
  /\ \A t \in Threads \ {thread0} : pc[t] = "none"
  /\ handlers' = [handlers EXCEPT ![PIC_IRQ_OFFSET + l] = "driver"]
  /\ line' = [line EXCEPT ![me] = l]
  /\ Goto("init_read")
  /\ UNCHANGED <<pics, intr, current_thread, interrupted, irq, read, cpu>>

enable_read ==
  /\ \/ At("init_read") /\ Goto("init_write")
     \/ At("entry_read") /\ Goto("entry_write")
  /\ read' = [read EXCEPT ![me] = mask \cap Chip(line[me])]
  /\ UNCHANGED <<pics, intr, handlers, current_thread, interrupted, irq, line, cpu>>

\* A new thread goes on through interrupt_exit to its function, interrupts on.
enable_write ==
  /\ At("init_write") \/ At("entry_write")
  /\ Goto("run") /\ intr' = TRUE
  /\ mask' = pic_enable_irq(line[me], read[me])
  /\ read' = [read EXCEPT ![me] = {}]                     \* dead, as line is
  /\ line' = [line EXCEPT ![me] = 0]
  /\ UNCHANGED <<irr, isr, noise, handlers, current_thread, interrupted, irq, cpu>>

thread_create(t) ==
  /\ At("run") /\ me = thread0 /\ handlers[PIC_IRQ_OFFSET] # "none" /\ pc[t] = "none"
  /\ pc' = [pc EXCEPT ![t] = "entry_read"]
  /\ UNCHANGED <<pics, intr, handlers, current_thread, interrupted, irq, line,
                 read, cpu>>

thread_yield ==
  /\ At("run") /\ pc' = pc /\ \E t \in Threads \ {me} : switch_to(t)
  /\ UNCHANGED <<pics, handlers, interrupted, irq, line, read, cpu>>

-----------------------------------------------------------------------------
Dispatch ==
  \/ dispatch_real
  \/ dispatch_eoi
  \/ dispatch_handler
  \/ dispatch_unmask
  \/ interrupt_exit

ThreadCode ==
  \/ \E l \in Devices : driver_register(l)
  \/ enable_read
  \/ enable_write
  \/ \E t \in Threads : thread_create(t)
  \/ thread_yield

Hardware ==
  \/ \E l \in Lines \ {2} : raise(l)
  \/ \E chip \in {"master", "slave"} : disturb(chip)

Next ==
  \/ Hardware
  \/ \E l \in Lines : acknowledge(l)
  \/ \E chip \in {"master", "slave"} : spurious(chip)
  \/ Dispatch
  \/ ThreadCode

Spec == Init /\ [][Next]_vars

\* A dispatch that was entered goes on, and so does pic_enable_irq in thread_entry
\* and in a driver, however often it is interrupted; a request that is the first
\* to be delivered again and again is delivered at last.
Fairness ==
  /\ WF_vars(Dispatch)
  /\ SF_vars(enable_read) /\ SF_vars(enable_write)
  /\ \A l \in Lines : SF_vars(acknowledge(l))

\* The timer and the devices before l leave it time: again and again interrupts are
\* on and no request before l's can be delivered.
Quiet(l) == []<>(intr /\ \A k \in Deliverable : ~Before(k, l))

FairSpec == Spec /\ Fairness
-----------------------------------------------------------------------------
(***************************************************************************)
(* Properties.                                                             *)
(***************************************************************************)
\* interrupt.c:232 "this unblocks other interrupts": whatever is switched out of
\* its handler, no line stays in service once its interrupt is acknowledged,
\* spurious interrupts of the slave included.
ServiceEnds == isr # {} => pc[me] \in {"dispatch", "eoi"}

Starting(l) ==
  /\ line[thread0] = l
  /\ \/ pc[thread0] \in {"init_read", "init_write"}
     \/ pc[thread0] \in Dispatching /\ interrupted[thread0] \in {"init_read", "init_write"}

Started(l) == handlers[PIC_IRQ_OFFSET + l] = "driver" /\ ~Starting(l)

\* pic.c:30 "need locking": a line that a driver has started is masked only
\* while its interrupt is being dispatched, by the current thread, or for the timer
\* by any thread it has switched out. No update of a mask is lost.
MaskOwned ==
  \A l \in Devices \cap mask : Started(l) =>
    \E t \in Threads :
      /\ irq[t] = l /\ pc[t] \in {"eoi", "handler", "unmask"}
      /\ l # 0 => t = me

\* interrupt.c:242: a request of a device whose driver is started reaches the
\* driver's handler, also while the timer stays masked, and however many spurious
\* interrupts come between.
DeviceServed ==
  \A l \in Devices \ {0} :
    Quiet(l) => ((l \in irr /\ Started(l)) ~> (\E t \in Threads : irq[t] = l /\ pc[t] = "handler"))
=============================================================================
