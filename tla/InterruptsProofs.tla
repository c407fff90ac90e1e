--------------------------- MODULE InterruptsProofs ---------------------------
(***************************************************************************)
(* Theorems about Interrupts, for every set of threads, lines and devices: *)
(* no line stays in service behind a handler that is switched out, and no  *)
(* update of a mask register is lost.                                      *)
(***************************************************************************)
EXTENDS Interrupts, TLAPS

\* Where a thread's own code is, whether it is being interrupted or not.
place(t) == IF pc[t] \in Dispatching THEN interrupted[t] ELSE pc[t]

\* What is in service is the interrupt that the current thread has still to end; the
\* controllers put a spurious one of the master nowhere, one of the slave in the cascade.
ServiceInv ==
  CASE pc[me] = "dispatch" -> \/ isr = {irq[me], Cascade(irq[me])}
                              \/ irq[me] = 15 /\ isr = {2}
                              \/ irq[me] = 7 /\ isr = {}
    [] pc[me] = "eoi" -> isr = {irq[me], Cascade(irq[me])}
    [] OTHER -> isr = {}

\* Drivers are started by the first thread, alone; new threads enable the timer.
PlaceInv ==
  /\ pc[thread0] # "none" /\ pc[me] # "none"
  /\ place(thread0) \notin {"entry_read", "entry_write"}
  /\ place(thread0) \in {"init_read", "init_write"} =>
       \A t \in Threads \ {thread0} : pc[t] = "none"
  /\ \A t \in Threads \ {thread0} :
       line[t] = 0 /\ place(t) \notin {"init_read", "init_write"}

\* What a thread will write back to a mask register masks no line that has been started.
ReadInv ==
  \A t \in Threads : place(t) \in {"init_write", "entry_write"} =>
    \A l \in Devices \cap read[t] : Started(l) => l = line[t]

IInv == TypeOK /\ ServiceInv /\ PlaceInv /\ ReadInv /\ MaskOwned
-----------------------------------------------------------------------------
(***************************************************************************)
(* The end-of-interrupt commands and the mask registers of pic.c.          *)
(***************************************************************************)
LEMMA CascadeIsLine == \A l \in Lines : Cascade(l) \in Lines /\ 2 \in Lines
  BY InterruptsAssumption DEF Cascade

\* An interrupt that is acknowledged at both controllers leaves nothing in service.
LEMMA EoiEnds ==
  ASSUME NEW l \in Lines, isr = {l, Cascade(l)} PROVE pic_eoi(l) = {}
<1>0. l \in 0..15 /\ 2 \in Lines
  BY InterruptsAssumption
<1>1. CASE l >= 8
  <2>1. isr = {l, 2} /\ l \in Slave /\ 2 \in Master /\ 2 \notin Slave /\ l \notin Master
    BY <1>0, <1>1 DEF Cascade, Slave, Master, Chip
  <2>2. EndOf(isr, Slave) = {2}
    BY <1>0, <2>1 DEF EndOf
  <2>3. EndOf({2}, Master) = {}
    BY <2>1 DEF EndOf
  <2>4. QED
    BY <1>1, <2>2, <2>3 DEF pic_eoi
<1>2. CASE ~(l >= 8)
  <2>1. isr = {l} /\ l \in Master
    BY <1>0, <1>2 DEF Cascade, Master, Chip
  <2>2. EndOf({l}, Master) = {}
    BY <1>0, <2>1 DEF EndOf
  <2>3. QED
    BY <1>2, <2>1, <2>2 DEF pic_eoi
<1>3. QED
  BY <1>1, <1>2

\* The acknowledgement of a spurious IRQ 15 ends the cascade's service.
LEMMA SpuriousEnds ==
  /\ isr = {2} => spurious_eoi(15) = {}
  /\ isr = {} => spurious_eoi(7) = {}
<1>1. 2 \in Master
  BY InterruptsAssumption DEF Master, Chip
<1>2. QED
  BY <1>1 DEF spurious_eoi, EndOf

\* A mask register written back as it is loses one line.
LEMMA EnableUnmasks ==
  ASSUME mask \subseteq Lines, NEW l \in Lines
  PROVE  pic_enable_irq(l, mask \cap Chip(l)) = mask \ {l}
  BY DEF pic_enable_irq, Chip
-----------------------------------------------------------------------------
LEMMA InitIInv == Init => IInv
<1> SUFFICES ASSUME Init PROVE IInv
  OBVIOUS
<1> USE InterruptsAssumption DEF Init, interrupt_init, pic_init
<1>1. TypeOK
  BY DEF TypeOK, Interruptible, Dispatching
<1>2. ServiceInv
  BY DEF ServiceInv, me
<1>3. PlaceInv
  BY DEF PlaceInv, place, me, Dispatching
<1>4. ReadInv
  BY DEF ReadInv
<1>5. MaskOwned
  <2>1. \A l \in Devices : PIC_IRQ_OFFSET + l \in Vectors
    BY DEF Vectors
  <2>2. QED
    BY <2>1 DEF MaskOwned, Started
<1>6. QED
  BY <1>1, <1>2, <1>3, <1>4, <1>5 DEF IInv

LEMMA HardwareIInv == ASSUME IInv, Hardware PROVE IInv'
<1>1. irr' \subseteq Lines /\ noise' \subseteq {"master", "slave"}
  BY DEF IInv, TypeOK, Hardware, raise, disturb
<1>2. UNCHANGED <<mask, isr, intr, handlers, code, cpu>>
  BY DEF Hardware, raise, disturb
<1>3. QED
  BY <1>1, <1>2 DEF IInv, TypeOK, ServiceInv, PlaceInv, ReadInv, MaskOwned, Started,
     Starting, place, me, code

\* An interrupt leaves every thread at its place.
LEMMA EnterKeeps ==
  ASSUME IInv, NEW l \in Lines, enter(l)
  PROVE  /\ PlaceInv' /\ ReadInv' /\ MaskOwned' /\ isr = {}
         /\ pc'[me'] = "dispatch" /\ irq'[me'] = l
         /\ (isr' \subseteq Lines /\ irr' \subseteq Lines
              /\ noise' \subseteq {"master", "slave"}) => TypeOK'
<1> USE DEF enter, me
<1>1. current_thread \in Threads /\ pc[me] \in Interruptible
  BY DEF IInv, TypeOK
<1>2. isr = {}
  BY <1>1 DEF IInv, ServiceInv, Interruptible
<1>3. \A t \in Threads : place(t)' = place(t)
  BY <1>1 DEF IInv, TypeOK, place, Dispatching, Interruptible
<1>4. PlaceInv'
  BY <1>1, <1>3, InterruptsAssumption DEF IInv, TypeOK, PlaceInv, Interruptible
<1>5. \A k \in Lines : Started(k)' <=> Started(k)
  BY <1>1, InterruptsAssumption
     DEF IInv, TypeOK, Started, Starting, Dispatching, Interruptible
<1>6. Devices \subseteq Lines
  BY InterruptsAssumption
<1>7. ReadInv'
  BY <1>3, <1>5, <1>6 DEF IInv, ReadInv
<1>8. MaskOwned'
  BY <1>1, <1>5, <1>6 DEF IInv, TypeOK, MaskOwned, Interruptible
<1>9. pc'[me'] = "dispatch" /\ irq'[me'] = l
  BY <1>1 DEF IInv, TypeOK
<1>10. (isr' \subseteq Lines /\ irr' \subseteq Lines
         /\ noise' \subseteq {"master", "slave"}) => TypeOK'
  BY <1>1 DEF IInv, TypeOK, Dispatching
<1>11. QED
  BY <1>2, <1>4, <1>7, <1>8, <1>9, <1>10

LEMMA AcknowledgeIInv == ASSUME IInv, NEW l \in Lines, acknowledge(l) PROVE IInv'
<1>1. /\ enter(l) /\ isr' = isr \cup {l, Cascade(l)}
      /\ irr' = irr \ {l} /\ noise' = noise
  BY DEF acknowledge
<1>2. ServiceInv'
  BY <1>1, EnterKeeps DEF ServiceInv
<1>3. TypeOK'
  BY <1>1, EnterKeeps, CascadeIsLine DEF IInv, TypeOK
<1>4. QED
  BY <1>1, <1>2, <1>3, EnterKeeps DEF IInv

LEMMA SpuriousIInv ==
  ASSUME IInv, NEW chip \in {"master", "slave"}, spurious(chip) PROVE IInv'
<1>0. 7 \in Lines /\ 15 \in Lines /\ 2 \in Lines
  BY InterruptsAssumption
<1>1. irr' = irr /\ noise' = noise \ {chip}
  BY DEF spurious
<1>2. CASE chip = "slave"
  <2>1. enter(15) /\ isr' = isr \cup {2}
    BY <1>2 DEF spurious
  <2>2. ServiceInv'
    BY <1>0, <2>1, EnterKeeps DEF ServiceInv
  <2>3. QED
    BY <1>0, <1>1, <2>1, <2>2, EnterKeeps DEF IInv, TypeOK
<1>3. CASE chip = "master"
  <2>1. enter(7) /\ isr' = isr
    BY <1>3 DEF spurious
  <2>2. ServiceInv'
    BY <1>0, <2>1, EnterKeeps DEF ServiceInv
  <2>3. QED
    BY <1>0, <1>1, <2>1, <2>2, EnterKeeps DEF IInv, TypeOK
<1>4. QED
  BY <1>2, <1>3
-----------------------------------------------------------------------------
(***************************************************************************)
(* interrupt_dispatch.                                                     *)
(***************************************************************************)
\* Going on within interrupt_dispatch leaves every thread at its place.
LEMMA DispatchKeepsPlace ==
  ASSUME IInv, NEW l \in Dispatching, pc[me] \in Dispatching,
         pc' = [pc EXCEPT ![me] = l], UNCHANGED <<interrupted, line, handlers>>
  PROVE  /\ \A t \in Threads : place(t)' = place(t) /\ (pc'[t] = "none" <=> pc[t] = "none")
         /\ \A k \in Lines : Started(k)' <=> Started(k)
<1> USE DEF IInv, TypeOK, me
<1>1. \A t \in Threads : place(t)' = place(t) /\ (pc'[t] = "none" <=> pc[t] = "none")
  BY DEF place, Dispatching
<1>2. \A k \in Lines : Started(k)' <=> Started(k)
  BY InterruptsAssumption DEF Started, Starting, Dispatching
<1>3. QED
  BY <1>1, <1>2

LEMMA DispatchRealIInv == ASSUME IInv, dispatch_real PROVE IInv'
<1> USE DEF dispatch_real, At, Goto
<1>0. me \in Threads /\ irq[me] \in Lines /\ pc[me] = "dispatch" /\ UNCHANGED current_thread
  BY DEF IInv, TypeOK, me
<1>1. PICK l \in {"eoi", "iret"} : pc' = [pc EXCEPT ![me] = l]
  OBVIOUS
<1>2. /\ \A t \in Threads : place(t)' = place(t) /\ (pc'[t] = "none" <=> pc[t] = "none")
      /\ \A k \in Lines : Started(k)' <=> Started(k)
  BY <1>0, <1>1, DispatchKeepsPlace DEF Dispatching
<1>3. CASE pic_irq_real(irq[me])
  <2>1. pc' = [pc EXCEPT ![me] = "eoi"] /\ mask' = mask \cup {irq[me]} /\ isr' = isr
    BY <1>3 DEF pic_disable_irq
  <2>2. TypeOK'
    BY <1>0, <2>1 DEF IInv, TypeOK, Dispatching
  <2>3. ServiceInv'
    \* A line in service is not the spurious one that its number may be.
    <3>1. isr = {irq[me], Cascade(irq[me])}
      BY <1>0, <1>3 DEF IInv, ServiceInv, pic_irq_real
    <3>2. QED
      BY <1>0, <2>1, <3>1 DEF ServiceInv, me, IInv, TypeOK
  <2>4. MaskOwned'
    BY <1>0, <1>2, <2>1, InterruptsAssumption DEF IInv, TypeOK, MaskOwned, me
  <2>5. QED
    BY <1>0, <1>2, <2>2, <2>3, <2>4, InterruptsAssumption
       DEF IInv, TypeOK, PlaceInv, ReadInv, me
<1>4. CASE ~pic_irq_real(irq[me])
  <2>1. pc' = [pc EXCEPT ![me] = "iret"] /\ mask' = mask /\ isr' = spurious_eoi(irq[me])
    BY <1>4
  <2>2. isr' = {}
    <3>1. irq[me] \in {7, 15} /\ irq[me] \notin isr
      BY <1>4 DEF pic_irq_real
    <3>2. (irq[me] = 15 /\ isr = {2}) \/ (irq[me] = 7 /\ isr = {})
      BY <1>0, <3>1 DEF IInv, ServiceInv
    <3>3. QED
      BY <2>1, <3>2, SpuriousEnds
  <2>3. TypeOK'
    BY <1>0, <2>1, <2>2 DEF IInv, TypeOK, Dispatching
  <2>4. ServiceInv'
    BY <1>0, <2>1, <2>2 DEF ServiceInv, me, IInv, TypeOK
  <2>5. MaskOwned'
    BY <1>0, <1>2, <2>1, InterruptsAssumption DEF IInv, TypeOK, MaskOwned, me
  <2>6. QED
    BY <1>0, <1>2, <2>1, <2>3, <2>4, <2>5, InterruptsAssumption
       DEF IInv, TypeOK, PlaceInv, ReadInv, me
<1>5. QED
  BY <1>3, <1>4

LEMMA DispatchEoiIInv == ASSUME IInv, dispatch_eoi PROVE IInv'
<1>0. /\ me \in Threads /\ irq[me] \in Lines /\ pc[me] = "eoi" /\ current_thread' = me
      /\ pc' = [pc EXCEPT ![me] = "handler"] /\ mask' = mask
  BY DEF IInv, TypeOK, me, dispatch_eoi, At, Goto
<1>1. /\ \A t \in Threads : place(t)' = place(t) /\ (pc'[t] = "none" <=> pc[t] = "none")
      /\ \A k \in Lines : Started(k)' <=> Started(k)
  BY <1>0, DispatchKeepsPlace DEF Dispatching, dispatch_eoi
<1>2. isr' = {}
  <2>1. isr = {irq[me], Cascade(irq[me])}
    BY <1>0 DEF IInv, ServiceInv
  <2>2. QED
    BY <1>0, <2>1, EoiEnds DEF dispatch_eoi
<1>3. TypeOK'
  BY <1>0, <1>2 DEF IInv, TypeOK, Dispatching, dispatch_eoi
<1>4. ServiceInv'
  BY <1>0, <1>2 DEF ServiceInv, me, IInv, TypeOK
<1>5. MaskOwned'
  BY <1>0, <1>1, InterruptsAssumption DEF IInv, TypeOK, MaskOwned, me, dispatch_eoi
<1>6. QED
  BY <1>0, <1>1, <1>3, <1>4, <1>5, InterruptsAssumption
     DEF IInv, TypeOK, PlaceInv, ReadInv, me, dispatch_eoi

\* The thread that the timer's handler switches out keeps its line masked; no other
\* handler switches.
LEMMA DispatchHandlerIInv == ASSUME IInv, dispatch_handler PROVE IInv'
<1>0. me \in Threads /\ irq[me] \in Lines /\ pc[me] = "handler"
  BY DEF IInv, TypeOK, me, dispatch_handler, At
<1>1. UNCHANGED <<pics, handlers, interrupted, irq, line, read>>
  BY DEF dispatch_handler
<1>2. isr = {}
  BY <1>0 DEF IInv, ServiceInv
<1>3. CASE UNCHANGED <<pc, intr, current_thread>> /\ cpu' = "fatal"
  <2>1. TypeOK'
    BY <1>1, <1>3 DEF IInv, TypeOK, pics
  <2>2. (ServiceInv /\ PlaceInv /\ ReadInv /\ MaskOwned)'
    BY <1>1, <1>3 DEF IInv, ServiceInv, PlaceInv, ReadInv, MaskOwned, Started,
       Starting, place, me, pics
  <2>3. QED
    BY <2>1, <2>2 DEF IInv
<1>4. ASSUME pc' = [pc EXCEPT ![me] = "unmask"], cpu' = cpu,
             \/ irq[me] = 0 /\ \E t \in Threads : switch_to(t)
             \/ irq[me] # 0 /\ UNCHANGED <<intr, current_thread>>
      PROVE IInv'
  <2>1. /\ \A t \in Threads : place(t)' = place(t) /\ (pc'[t] = "none" <=> pc[t] = "none")
        /\ \A k \in Lines : Started(k)' <=> Started(k)
    BY <1>0, <1>1, <1>4, DispatchKeepsPlace DEF Dispatching
  <2>2. /\ current_thread' \in Threads /\ intr' \in BOOLEAN
        /\ pc'[current_thread'] \in {"run", "unmask", "entry_read"}
        /\ irq[me] # 0 => current_thread' = me
    BY <1>0, <1>4 DEF switch_to, IInv, TypeOK, me
  <2>3. TypeOK'
    BY <1>0, <1>1, <1>4, <2>2 DEF IInv, TypeOK, Dispatching, pics
  <2>4. ServiceInv'
    BY <1>1, <1>2, <2>2 DEF ServiceInv, me, pics
  <2>5. MaskOwned'
    BY <1>0, <1>1, <1>4, <2>1, <2>2, InterruptsAssumption
       DEF IInv, TypeOK, MaskOwned, me, pics
  <2>6. PlaceInv' /\ ReadInv'
    BY <1>0, <1>1, <2>1, <2>2, InterruptsAssumption
       DEF IInv, TypeOK, PlaceInv, ReadInv, me
  <2>7. QED
    BY <2>3, <2>4, <2>5, <2>6 DEF IInv
<1>5. QED
  BY <1>0, <1>3, <1>4 DEF dispatch_handler, Goto

LEMMA DispatchUnmaskIInv == ASSUME IInv, dispatch_unmask PROVE IInv'
<1>0. /\ me \in Threads /\ irq[me] \in Lines /\ pc[me] = "unmask" /\ current_thread' = me
      /\ pc' = [pc EXCEPT ![me] = "iret"]
      /\ UNCHANGED <<irr, isr, noise, intr, handlers, interrupted, irq, line, read, cpu>>
  BY DEF IInv, TypeOK, me, dispatch_unmask, At, Goto
<1>1. /\ \A t \in Threads : place(t)' = place(t) /\ (pc'[t] = "none" <=> pc[t] = "none")
      /\ \A k \in Lines : Started(k)' <=> Started(k)
  BY <1>0, DispatchKeepsPlace DEF Dispatching, dispatch_unmask
<1>2. mask' = mask \ {irq[me]}
  BY <1>0, EnableUnmasks DEF dispatch_unmask, IInv, TypeOK
<1>3. TypeOK'
  BY <1>0, <1>2 DEF IInv, TypeOK, Dispatching
<1>4. ServiceInv'
  <2>1. isr = {} /\ isr' = isr
    BY <1>0 DEF IInv, ServiceInv, dispatch_unmask
  <2>2. QED
    BY <1>0, <2>1 DEF ServiceInv, me, IInv, TypeOK
<1>5. MaskOwned'
  BY <1>0, <1>1, <1>2, InterruptsAssumption
     DEF IInv, TypeOK, MaskOwned, me
<1>6. QED
  BY <1>0, <1>1, <1>3, <1>4, <1>5, InterruptsAssumption
     DEF IInv, TypeOK, PlaceInv, ReadInv, me

LEMMA ExitIInv == ASSUME IInv, interrupt_exit PROVE IInv'
<1>0. /\ me \in Threads /\ pc[me] = "iret" /\ current_thread' = me
      /\ interrupted[me] \in Interruptible
      /\ pc' = [pc EXCEPT ![me] = interrupted[me]]
      /\ interrupted' = [interrupted EXCEPT ![me] = "run"]
      /\ irq' = [irq EXCEPT ![me] = 0]
      /\ UNCHANGED <<pics, handlers, line, read, cpu>> /\ intr' = TRUE
  BY DEF IInv, TypeOK, me, interrupt_exit, At, Goto
<1>1. \A t \in Threads : place(t)' = place(t) /\ (pc'[t] = "none" <=> pc[t] = "none")
  BY <1>0 DEF IInv, TypeOK, place, Dispatching, Interruptible
<1>2. \A k \in Lines : Started(k)' <=> Started(k)
  BY <1>0, InterruptsAssumption
     DEF IInv, TypeOK, Started, Starting, Dispatching, Interruptible
<1>3. TypeOK'
  BY <1>0, InterruptsAssumption DEF IInv, TypeOK, Interruptible, pics
<1>4. ServiceInv'
  BY <1>0 DEF IInv, TypeOK, ServiceInv, me, Interruptible, pics
<1>5. MaskOwned'
  BY <1>0, <1>2, InterruptsAssumption DEF IInv, TypeOK, MaskOwned, me, pics
<1>6. PlaceInv' /\ ReadInv'
  BY <1>0, <1>1, <1>2, InterruptsAssumption DEF IInv, TypeOK, PlaceInv, ReadInv, me
<1>7. QED
  BY <1>3, <1>4, <1>5, <1>6 DEF IInv
-----------------------------------------------------------------------------
(***************************************************************************)
(* Thread code.                                                            *)
(***************************************************************************)
LEMMA RegisterIInv ==
  ASSUME IInv, NEW l \in Devices, driver_register(l) PROVE IInv'
<1> USE InterruptsAssumption
<1>0. /\ me = thread0 /\ current_thread' = me /\ pc[me] = "run" /\ l \in Lines
      /\ \A t \in Threads \ {thread0} : pc[t] = "none"
      /\ handlers' = [handlers EXCEPT ![PIC_IRQ_OFFSET + l] = "driver"]
      /\ handlers[PIC_IRQ_OFFSET + l] = "none"
      /\ line' = [line EXCEPT ![me] = l]
      /\ pc' = [pc EXCEPT ![me] = "init_read"]
      /\ UNCHANGED <<pics, intr, interrupted, irq, read, cpu>>
  BY DEF driver_register, At, Goto, me
<1>1. TypeOK'
  BY <1>0 DEF IInv, TypeOK, Interruptible, pics
<1>2. ServiceInv'
  BY <1>0 DEF IInv, TypeOK, ServiceInv, me, pics
<1>3. PlaceInv'
  BY <1>0 DEF IInv, TypeOK, PlaceInv, place, me, Dispatching
<1>4. \A k \in Devices : Started(k)' => Started(k) /\ k # l
  <2>1. \A k \in Devices : PIC_IRQ_OFFSET + k \in Vectors
    BY DEF Vectors
  <2>2. ASSUME NEW k \in Devices, Started(k)' PROVE k # l
    BY <1>0, <2>2 DEF IInv, TypeOK, Started, Starting
  <2>3. ASSUME NEW k \in Devices, Started(k)', k # l PROVE Started(k)
    <3>1. PIC_IRQ_OFFSET + k # PIC_IRQ_OFFSET + l
      BY <1>0, <2>3 DEF PIC_IRQ_OFFSET
    <3>2. handlers[PIC_IRQ_OFFSET + k] = "driver"
      BY <1>0, <2>1, <2>3, <3>1 DEF IInv, TypeOK, Started
    <3>3. QED
      BY <1>0, <3>2 DEF Started, Starting, Dispatching
  <2>4. QED
    BY <2>2, <2>3
<1>5. ReadInv'
  BY <1>0 DEF ReadInv, place, Dispatching, IInv, TypeOK
<1>6. MaskOwned'
  BY <1>0, <1>4 DEF IInv, TypeOK, MaskOwned, me, pics
<1>7. QED
  BY <1>1, <1>2, <1>3, <1>5, <1>6 DEF IInv

LEMMA EnableReadIInv == ASSUME IInv, enable_read PROVE IInv'
<1> USE InterruptsAssumption
<1>0. /\ me \in Threads /\ line[me] \in Lines /\ current_thread' = me
      /\ \/ pc[me] = "init_read" /\ pc' = [pc EXCEPT ![me] = "init_write"]
         \/ pc[me] = "entry_read" /\ pc' = [pc EXCEPT ![me] = "entry_write"]
      /\ read' = [read EXCEPT ![me] = mask \cap Chip(line[me])]
      /\ UNCHANGED <<pics, intr, handlers, interrupted, irq, line, cpu>>
  BY DEF IInv, TypeOK, me, enable_read, At, Goto
<1>1. TypeOK'
  BY <1>0 DEF IInv, TypeOK, Interruptible, pics
<1>2. ServiceInv'
  BY <1>0 DEF IInv, TypeOK, ServiceInv, me, pics
<1>3. PlaceInv'
  BY <1>0 DEF IInv, TypeOK, PlaceInv, place, me, Dispatching
<1>4. \A k \in Lines : Started(k)' <=> Started(k)
  BY <1>0 DEF IInv, TypeOK, Started, Starting, Dispatching
\* A line that is started and masked here is the timer's, behind a new thread.
<1>5. ASSUME NEW k \in Devices \cap mask, Started(k) PROVE k = line[me]
  <2>1. PICK t \in Threads :
           /\ irq[t] = k /\ pc[t] \in {"eoi", "handler", "unmask"}
           /\ k # 0 => t = me
    BY <1>5 DEF IInv, MaskOwned
  <2>2. t # me /\ k = 0
    BY <1>0, <2>1
  <2>3. pc[me] = "entry_read" /\ me # thread0
    BY <1>0, <2>1, <2>2 DEF IInv, PlaceInv, place, Dispatching
  <2>4. QED
    BY <1>0, <2>2, <2>3 DEF IInv, PlaceInv
<1>6. ReadInv'
  <2> SUFFICES ASSUME NEW t \in Threads, place(t)' \in {"init_write", "entry_write"},
                      NEW k \in Devices \cap read'[t], Started(k)'
               PROVE  k = line'[t]
    BY DEF ReadInv
  <2>1. CASE t = me
    BY <1>0, <1>4, <1>5, <2>1 DEF IInv, TypeOK
  <2>2. CASE t # me
    BY <1>0, <1>4, <2>2 DEF IInv, TypeOK, ReadInv, place
  <2>3. QED
    BY <2>1, <2>2
<1>7. MaskOwned'
  BY <1>0, <1>4 DEF IInv, TypeOK, MaskOwned, me, pics
<1>8. QED
  BY <1>1, <1>2, <1>3, <1>6, <1>7 DEF IInv

LEMMA EnableWriteIInv == ASSUME IInv, enable_write PROVE IInv'
<1> USE InterruptsAssumption
<1>0. /\ me \in Threads /\ line[me] \in Lines /\ current_thread' = me
      /\ pc[me] \in {"init_write", "entry_write"}
      /\ pc' = [pc EXCEPT ![me] = "run"]
      /\ mask' = (mask \ Chip(line[me])) \cup (read[me] \ {line[me]})
      /\ read' = [read EXCEPT ![me] = {}]
      /\ line' = [line EXCEPT ![me] = 0]
      /\ UNCHANGED <<irr, isr, noise, handlers, interrupted, irq, cpu>> /\ intr' = TRUE
  BY DEF IInv, TypeOK, me, enable_write, At, Goto, pic_enable_irq
<1>1. TypeOK'
  BY <1>0 DEF IInv, TypeOK, Interruptible
<1>2. ServiceInv'
  BY <1>0 DEF IInv, TypeOK, ServiceInv, me
<1>3. PlaceInv'
  BY <1>0 DEF IInv, TypeOK, PlaceInv, place, me, Dispatching
<1>4. place(me) = pc[me]
  BY <1>0 DEF place, Dispatching
<1>5. \A k \in Lines : Started(k)' /\ ~Started(k) => k = line[me] /\ me = thread0
  BY <1>0 DEF IInv, TypeOK, Started, Starting, Dispatching
<1>6. ReadInv'
  <2> SUFFICES ASSUME NEW t \in Threads, place(t)' \in {"init_write", "entry_write"},
                      NEW k \in Devices \cap read'[t], Started(k)'
               PROVE  k = line'[t]
    BY DEF ReadInv
  <2>1. t # me
    BY <1>0 DEF IInv, TypeOK, place, Dispatching
  <2>2. place(t) \in {"init_write", "entry_write"} /\ line'[t] = line[t]
    BY <1>0, <2>1 DEF IInv, TypeOK, place
  <2>3. me = thread0 => pc[t] = "none"
    BY <1>0, <1>4, <2>1 DEF IInv, PlaceInv
  <2>4. Started(k)
    BY <1>5, <2>2, <2>3 DEF place, Dispatching
  <2>5. QED
    BY <1>0, <2>1, <2>2, <2>4 DEF IInv, TypeOK, ReadInv
<1>7. MaskOwned'
  <2> SUFFICES ASSUME NEW k \in Devices \cap mask', Started(k)'
               PROVE  \E t \in Threads :
                        /\ irq[t] = k /\ pc'[t] \in {"eoi", "handler", "unmask"}
                        /\ k # 0 => t = me
    BY <1>0 DEF MaskOwned, me
  <2>1. k # line[me]
    BY <1>0 DEF Chip
  <2>2. Started(k)
    BY <1>5, <2>1
  <2>3. k \in mask
    BY <1>0, <1>4, <2>1, <2>2 DEF IInv, ReadInv
  <2>4. PICK t \in Threads :
           /\ irq[t] = k /\ pc[t] \in {"eoi", "handler", "unmask"}
           /\ k # 0 => t = me
    BY <2>2, <2>3 DEF IInv, MaskOwned
  <2>5. t # me
    BY <1>0, <2>4
  <2>6. QED
    BY <1>0, <2>4, <2>5 DEF IInv, TypeOK
<1>8. QED
  BY <1>1, <1>2, <1>3, <1>6, <1>7 DEF IInv

LEMMA CreateIInv ==
  ASSUME IInv, NEW t \in Threads, thread_create(t) PROVE IInv'
<1> USE InterruptsAssumption
<1>0. /\ me = thread0 /\ current_thread' = me /\ pc[me] = "run" /\ pc[t] = "none"
      /\ pc' = [pc EXCEPT ![t] = "entry_read"]
      /\ UNCHANGED <<pics, intr, handlers, interrupted, irq, line, read, cpu>>
  BY DEF thread_create, At, me
<1>1. TypeOK'
  BY <1>0 DEF IInv, TypeOK, Interruptible, pics
<1>2. ServiceInv'
  BY <1>0 DEF IInv, TypeOK, ServiceInv, me, pics
<1>3. PlaceInv'
  BY <1>0 DEF IInv, TypeOK, PlaceInv, place, me, Dispatching
<1>4. \A k \in Lines : Started(k)' <=> Started(k)
  BY <1>0 DEF IInv, TypeOK, Started, Starting
<1>5. ReadInv'
  BY <1>0, <1>4 DEF IInv, TypeOK, ReadInv, place, Dispatching
<1>6. MaskOwned'
  BY <1>0, <1>4 DEF IInv, TypeOK, MaskOwned, me, pics
<1>7. QED
  BY <1>1, <1>2, <1>3, <1>5, <1>6 DEF IInv

LEMMA YieldIInv == ASSUME IInv, thread_yield PROVE IInv'
<1> USE InterruptsAssumption
<1>0. /\ pc[me] = "run" /\ pc' = pc
      /\ UNCHANGED <<pics, handlers, interrupted, irq, line, read, cpu>>
      /\ current_thread' \in Threads /\ intr' \in BOOLEAN
      /\ pc[current_thread'] \in {"run", "unmask", "entry_read"}
  BY DEF IInv, TypeOK, thread_yield, At, me, switch_to
<1>1. TypeOK'
  BY <1>0 DEF IInv, TypeOK, pics
<1>2. ServiceInv'
  BY <1>0 DEF IInv, ServiceInv, me, pics
<1>3. PlaceInv'
  BY <1>0 DEF IInv, PlaceInv, place, me
<1>4. \A k \in Lines : Started(k)' <=> Started(k)
  BY <1>0 DEF Started, Starting
<1>5. ReadInv'
  BY <1>0, <1>4 DEF IInv, ReadInv, place
<1>6. MaskOwned'
  BY <1>0, <1>4 DEF IInv, MaskOwned, me, pics
<1>7. QED
  BY <1>1, <1>2, <1>3, <1>5, <1>6 DEF IInv
-----------------------------------------------------------------------------
LEMMA NextIInv == IInv /\ [Next]_vars => IInv'
<1>1. ASSUME IInv, Dispatch PROVE IInv'
  BY <1>1, DispatchRealIInv, DispatchEoiIInv, DispatchHandlerIInv, DispatchUnmaskIInv,
     ExitIInv DEF Dispatch
<1>2. ASSUME IInv, ThreadCode PROVE IInv'
  BY <1>2, RegisterIInv, EnableReadIInv, EnableWriteIInv, CreateIInv, YieldIInv
     DEF ThreadCode
<1>3. ASSUME IInv, UNCHANGED vars PROVE IInv'
  <2>1. TypeOK'
    BY <1>3 DEF IInv, TypeOK, vars, pics, code
  <2>2. (ServiceInv /\ PlaceInv /\ ReadInv /\ MaskOwned)'
    BY <1>3 DEF IInv, ServiceInv, PlaceInv, ReadInv, MaskOwned, Started, Starting,
       place, me, vars, pics, code
  <2>3. QED
    BY <2>1, <2>2 DEF IInv
<1>4. QED
  BY <1>1, <1>2, <1>3, HardwareIInv, AcknowledgeIInv, SpuriousIInv DEF Next

\* The inductive invariant of interrupt.c and pic.c.
THEOREM Inductive == Spec => []IInv
  BY InitIInv, NextIInv, PTL DEF Spec

\* interrupt.c:232 "this unblocks other interrupts": whatever is switched out of its
\* handler, and whatever spurious interrupt the controllers make up, no line stays in
\* service once its interrupt is acknowledged.
THEOREM ServiceEndsHolds == Spec => []ServiceEnds
<1>1. IInv => ServiceEnds
  BY DEF IInv, ServiceInv, ServiceEnds
<1>2. QED
  BY <1>1, Inductive, PTL

\* pic.c:30 "need locking": a line that a driver has started is masked only while its
\* interrupt is being dispatched, although pic_enable_irq reads and writes the mask
\* register in two steps with interrupts on.
THEOREM MaskOwnedHolds == Spec => []MaskOwned
<1>1. IInv => MaskOwned
  BY DEF IInv
<1>2. QED
  BY <1>1, Inductive, PTL
===============================================================================
