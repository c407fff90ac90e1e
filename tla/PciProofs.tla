----------------------------- MODULE PciProofs -----------------------------
(***************************************************************************)
(* Theorems about Pci, for every set of threads, devices and offsets: the  *)
(* two port accesses of a read stay together because both are made within  *)
(* the interpreter mutex.                                                  *)
(***************************************************************************)
EXTENDS Pci, Integers, TLAPS

\* The set-up of a region reads outside the interpreter mutex.
unlocked(t) ==
  request[t].setup /\ pc[t] \in {"address", "next_address", "data", "return", "reenter"}
inInterpreter(t) ==
  pc[t] \in {"method", "address", "next_address", "data", "return"} /\ ~unlocked(t)
aimed(t) == config_address = <<request[t].device, request[t].offset>>
own(t) == <<request[t].device, request[t].offset>>

ExclusionInv == \A t \in Threads : inInterpreter(t) => interpreter = t
AddressInv == \A t \in Threads :
  pc[t] = "data" /\ ~request[t].setup => aimed(t) \/ disturbed(t)
ResultInv == \A t \in Threads :
  pc[t] = "return" /\ ~request[t].setup => result[t][1] = own(t) \/ disturbed(t)
OutsideInv ==
  \A t \in Threads : pc[t] \in {"next_address", "reenter"} => request[t].setup
IInv == TypeOK /\ ExclusionInv /\ AddressInv /\ ResultInv /\ OutsideInv
-----------------------------------------------------------------------------
\* A read of a set-up is an access that the code may make.
SetupRegisters ==
  {PCI_CFG_HEADER_TYPE_REG, PCI_CFG_PRIMARY_BUS_NUMBER_REG, PCI_CFG_SECONDARY_BUS_NUMBER_REG}

LEMMA DeriveIsRequest ==
  ASSUME NEW d \in Devices, NEW o \in SetupRegisters
  PROVE  derive(d, o) \in Requests /\ derive(d, o).setup
<1> DEFINE r == derive(d, o)
<1>1. o \in Offsets /\ o \in Nat
  BY PciAssumption DEF SetupRegisters, PCI_CFG_HEADER_TYPE_REG,
     PCI_CFG_PRIMARY_BUS_NUMBER_REG, PCI_CFG_SECONDARY_BUS_NUMBER_REG
<1>2. o % 1 = 0 /\ \A k \in 0..(1 - 1) : o + k = o
  BY <1>1
<1>3. r \in [device : Devices, offset : Offsets, width : Widths, setup : BOOLEAN]
  BY <1>1, PciAssumption DEF derive
<1>4. r.offset = o /\ r.width = 1 /\ r.setup
  BY DEF derive
<1> HIDE DEF r
<1>5. r \in Requests
  BY <1>1, <1>2, <1>3, <1>4 DEF Requests
<1>6. QED
  BY <1>4, <1>5 DEF r

\* An access is aligned, and no wider than a double word.
LEMMA AlignedAccess ==
  ASSUME NEW r \in Requests
  PROVE  r.offset \in 0..255 /\ r.width \in {1, 2, 4} /\ r.offset % r.width = 0
<1>1. /\ r \in [device : Devices, offset : Offsets, width : Widths, setup : BOOLEAN]
      /\ r.offset % r.width = 0
  BY DEF Requests
<1>2. QED
  BY <1>1, PciAssumption

\* An aligned access reads the register it was aimed at: the device ignores the lowest
\* two bits, and & 3, & 2 and 0 select the rest on the data port.
LEMMA PortInDoubleWord ==
  ASSUME NEW r \in Requests
  PROVE  (r.offset % 4) - (r.offset % r.width) \in 0..3
  BY AlignedAccess

LEMMA PortSelects ==
  ASSUME NEW r \in Requests
  PROVE  (r.offset - (r.offset % 4)) + ((r.offset % 4) - (r.offset % r.width)) = r.offset
  BY AlignedAccess
-----------------------------------------------------------------------------
LEMMA InitIInv == Init => IInv
<1>1. ASSUME Init PROVE TypeOK
  <2>1. config_address \in Devices \X Offsets
    BY <1>1, PciAssumption DEF Init
  <2>2. PICK d \in Devices : request = [t \in Threads |-> derive(d, PCI_CFG_HEADER_TYPE_REG)]
    BY <1>1 DEF Init
  <2>3. derive(d, PCI_CFG_HEADER_TYPE_REG) \in Requests
    BY DeriveIsRequest DEF SetupRegisters
  <2>4. request \in [Threads -> Requests]
    BY <2>2, <2>3
  <2>5. <<ZERO>> \in Seq(Bytes) /\ Len(<<ZERO>>) = 1
    BY DEF Bytes
  <2>6. QED
    BY <1>1, <2>1, <2>4, <2>5, PciAssumption DEF Init, TypeOK
<1>2. ASSUME Init PROVE ExclusionInv /\ AddressInv /\ ResultInv /\ OutsideInv
  BY <1>2 DEF Init, ExclusionInv, AddressInv, ResultInv, OutsideInv, inInterpreter
<1>3. QED
  BY <1>1, <1>2 DEF IInv

LEMMA EnterIInv ==
  ASSUME IInv, NEW t \in Threads, AcpiExEnterInterpreter(t) PROVE IInv'
<1> USE DEF AcpiExEnterInterpreter, Goto
<1>1. TypeOK'
  BY DEF IInv, TypeOK
<1>2. ExclusionInv'
  BY PciAssumption DEF IInv, TypeOK, ExclusionInv, inInterpreter, unlocked
<1>3. (AddressInv /\ ResultInv)'
  \* The thread that enters waited for the mutex: nobody within it was reading.
  <2>1. \A u \in Threads : ~inInterpreter(u)
    BY PciAssumption DEF IInv, ExclusionInv
  <2>2. QED
    BY <2>1 DEF IInv, TypeOK, AddressInv, ResultInv, inInterpreter, unlocked
<1>4. OutsideInv'
  BY DEF IInv, TypeOK, OutsideInv
<1>5. QED
  BY <1>1, <1>2, <1>3, <1>4 DEF IInv

LEMMA ExitIInv ==
  ASSUME IInv, NEW t \in Threads, AcpiExExitInterpreter(t) PROVE IInv'
<1> USE DEF AcpiExExitInterpreter, Goto
<1>1. TypeOK'
  BY DEF IInv, TypeOK
<1>2. ExclusionInv'
  BY DEF IInv, TypeOK, ExclusionInv, inInterpreter, unlocked
<1>3. (AddressInv /\ ResultInv)'
  BY DEF IInv, TypeOK, AddressInv, ResultInv, aimed, disturbed, own
<1>4. OutsideInv'
  BY DEF IInv, TypeOK, OutsideInv
<1>5. QED
  BY <1>1, <1>2, <1>3, <1>4 DEF IInv

LEMMA RegionReadIInv ==
  ASSUME IInv, NEW t \in Threads, region_read(t) PROVE IInv'
<1> PICK r \in {q \in Requests : ~q.setup} : request' = [request EXCEPT ![t] = r]
  BY DEF region_read
<1> USE DEF region_read, Goto
<1>1. TypeOK'
  BY DEF IInv, TypeOK
<1>2. ExclusionInv'
  BY DEF IInv, TypeOK, ExclusionInv, inInterpreter, unlocked
<1>3. \A u \in Threads : disturbed(u) => disturbed(u)'
  BY DEF IInv, TypeOK, disturbed
<1>4. (AddressInv /\ ResultInv)'
  BY <1>3 DEF IInv, TypeOK, AddressInv, ResultInv, aimed, own
<1>5. OutsideInv'
  BY DEF IInv, TypeOK, OutsideInv
<1>6. QED
  BY <1>1, <1>2, <1>4, <1>5 DEF IInv

LEMMA RegionSetupIInv ==
  ASSUME IInv, NEW t \in Threads, region_setup(t) PROVE IInv'
<1>0. PICK r \in Requests : r.setup /\ request' = [request EXCEPT ![t] = r]
  BY DeriveIsRequest DEF region_setup, SetupRegisters
<1> USE DEF region_setup, Goto
<1>1. TypeOK'
  BY <1>0 DEF IInv, TypeOK
<1>2. ExclusionInv'
  BY <1>0 DEF IInv, TypeOK, ExclusionInv, inInterpreter, unlocked
<1>3. \A u \in Threads : disturbed(u) => disturbed(u)'
  BY <1>0 DEF IInv, TypeOK, disturbed
<1>4. (AddressInv /\ ResultInv)'
  BY <1>0, <1>3 DEF IInv, TypeOK, AddressInv, ResultInv, aimed, own
<1>5. OutsideInv'
  BY <1>0 DEF IInv, TypeOK, OutsideInv
<1>6. QED
  BY <1>1, <1>2, <1>4, <1>5 DEF IInv

LEMMA NextReadIInv ==
  ASSUME IInv, NEW t \in Threads, next_read(t) PROVE IInv'
<1>0. PICK r \in Requests : r.setup /\ request' = [request EXCEPT ![t] = r]
  <2>1. request[t].device \in Devices
    BY DEF IInv, TypeOK, Requests
  <2>2. QED
    BY <2>1, DeriveIsRequest DEF next_read, SetupRegisters
<1> USE DEF Goto
<1>1. pc[t] = "return" /\ request[t].setup /\ Goto(t, "next_address")
      /\ UNCHANGED <<config_address, interpreter, result>>
  BY DEF next_read
<1>2. TypeOK'
  BY <1>0, <1>1 DEF IInv, TypeOK
<1>3. ExclusionInv'
  BY <1>0, <1>1 DEF IInv, TypeOK, ExclusionInv, inInterpreter, unlocked
<1>4. \A u \in Threads : disturbed(u) => disturbed(u)'
  BY <1>0, <1>1 DEF IInv, TypeOK, disturbed
<1>5. (AddressInv /\ ResultInv)'
  BY <1>0, <1>1, <1>4 DEF IInv, TypeOK, AddressInv, ResultInv, aimed, own
<1>6. OutsideInv'
  BY <1>0, <1>1 DEF IInv, TypeOK, OutsideInv
<1>7. QED
  BY <1>2, <1>3, <1>5, <1>6 DEF IInv

LEMMA SetupDoneIInv ==
  ASSUME IInv, NEW t \in Threads, setup_done(t) PROVE IInv'
<1> USE DEF setup_done, Goto
<1>1. TypeOK'
  BY DEF IInv, TypeOK
<1>2. ExclusionInv'
  BY DEF IInv, TypeOK, ExclusionInv, inInterpreter, unlocked
<1>3. \A u \in Threads : disturbed(u) => disturbed(u)'
  BY DEF IInv, TypeOK, disturbed
<1>4. (AddressInv /\ ResultInv)'
  BY <1>3 DEF IInv, TypeOK, AddressInv, ResultInv, aimed, own
<1>5. OutsideInv'
  BY DEF IInv, TypeOK, OutsideInv
<1>6. QED
  BY <1>1, <1>2, <1>4, <1>5 DEF IInv

LEMMA OutAddressIInv ==
  ASSUME IInv, NEW t \in Threads, io_out_address(t) PROVE IInv'
<1> USE DEF io_out_address, Goto
<1>1. TypeOK'
  BY DEF IInv, TypeOK, Requests
<1>2. ExclusionInv'
  BY DEF IInv, TypeOK, ExclusionInv, inInterpreter, unlocked
<1>3. AddressInv'
  <2> SUFFICES ASSUME NEW u \in Threads, pc'[u] = "data", ~request'[u].setup, u # t
               PROVE  disturbed(u)'
    BY DEF AddressInv, aimed, IInv, TypeOK
  \* Two threads within the interpreter mutex would be one: the other sets up a region.
  <2>1. request[t].setup
    BY DEF IInv, TypeOK, ExclusionInv, inInterpreter, unlocked
  <2>2. QED
    BY <2>1 DEF IInv, TypeOK, disturbed
<1>4. \A u \in Threads : disturbed(u) => disturbed(u)'
  BY DEF IInv, TypeOK, disturbed
<1>5. ResultInv'
  BY <1>4 DEF IInv, TypeOK, ResultInv, own
<1>6. OutsideInv'
  BY DEF IInv, TypeOK, OutsideInv
<1>7. QED
  BY <1>1, <1>2, <1>3, <1>5, <1>6 DEF IInv

LEMMA InDataIInv ==
  ASSUME IInv, NEW t \in Threads, io_in_data(t) PROVE IInv'
<1> DEFINE w == request[t].width
           o == (config_address[2] - (config_address[2] % 4))
                + ((request[t].offset % 4) - (request[t].offset % w))
           bytes == [k \in 1..w |-> IF k = 1 THEN <<config_address[1], o>> ELSE ZERO]
<1>1. result' = [result EXCEPT ![t] = bytes]
  BY DEF io_in_data
<1>2. request[t] \in Requests /\ w \in {1, 2, 4} /\ w \in Widths
  BY PciAssumption DEF IInv, TypeOK, Requests
<1>3. Len(bytes) = w
  BY <1>2
<1>4. aimed(t) => bytes[1] = own(t)
  <2>1. ASSUME aimed(t) PROVE o = request[t].offset
    BY <2>1, <1>2, PortSelects DEF aimed
  <2>2. QED
    BY <2>1, <1>2 DEF aimed, own
<1>5. bytes \in Seq(Bytes)
  <2>1. config_address[1] \in Devices /\ config_address[2] \in Offsets
    BY DEF IInv, TypeOK
  <2>2. (request[t].offset % 4) - (request[t].offset % w) \in 0..3
    BY <1>2, PortInDoubleWord
  <2>3. o \in Offsets
    BY <2>1, <2>2, PciAssumption
  <2>4. \A k \in 1..w : (IF k = 1 THEN <<config_address[1], o>> ELSE ZERO) \in Bytes
    BY <2>1, <2>3 DEF Bytes
  <2>5. w \in Nat
    BY <1>2
  <2>6. QED
    BY <2>4, <2>5
<1> HIDE DEF w, o, bytes
<1> USE DEF io_in_data, Goto
<1>6. TypeOK'
  <2>1. result' \in [Threads -> Seq(Bytes)]
    BY <1>1, <1>5 DEF IInv, TypeOK
  <2>2. \A u \in Threads : Len(result'[u]) \in Widths
    BY <1>1, <1>2, <1>3 DEF IInv, TypeOK
  <2>3. pc' \in [Threads -> {"idle", "method", "address", "next_address", "data", "return", "reenter"}]
    BY DEF IInv, TypeOK
  <2>4. QED
    BY <2>1, <2>2, <2>3 DEF IInv, TypeOK
<1>7. ExclusionInv'
  BY DEF IInv, TypeOK, ExclusionInv, inInterpreter, unlocked
<1>8. \A u \in Threads : disturbed(u) => disturbed(u)'
  BY DEF IInv, TypeOK, disturbed
<1>9. AddressInv'
  BY <1>8 DEF IInv, TypeOK, AddressInv, aimed
<1>10. ResultInv'
  <2> SUFFICES ASSUME NEW u \in Threads, pc'[u] = "return", ~request'[u].setup
               PROVE  result'[u][1] = own(u)' \/ disturbed(u)'
    BY DEF ResultInv
  <2>1. own(u)' = own(u)
    BY DEF own
  <2>2. CASE u = t
    BY <1>1, <1>4, <1>8, <2>1, <2>2 DEF IInv, TypeOK, AddressInv
  <2>3. CASE u # t
    BY <1>1, <1>8, <2>1, <2>3 DEF IInv, TypeOK, ResultInv
  <2>4. QED
    BY <2>2, <2>3
<1>11. OutsideInv'
  BY DEF IInv, TypeOK, OutsideInv
<1>12. QED
  BY <1>6, <1>7, <1>9, <1>10, <1>11 DEF IInv

LEMMA ReturnIInv ==
  ASSUME IInv, NEW t \in Threads, pci_return(t) PROVE IInv'
<1> USE DEF pci_return, Goto
<1>1. TypeOK'
  BY DEF IInv, TypeOK
<1>2. ExclusionInv'
  BY DEF IInv, TypeOK, ExclusionInv, inInterpreter, unlocked
<1>3. \A u \in Threads : disturbed(u) => disturbed(u)'
  BY DEF IInv, TypeOK, disturbed
<1>4. (AddressInv /\ ResultInv)'
  BY <1>3 DEF IInv, TypeOK, AddressInv, ResultInv, aimed, own
<1>5. OutsideInv'
  BY DEF IInv, TypeOK, OutsideInv
<1>6. QED
  BY <1>1, <1>2, <1>4, <1>5 DEF IInv
LEMMA NextIInv == IInv /\ [Next]_vars => IInv'
<1>1. ASSUME IInv, Next PROVE IInv'
  BY <1>1, EnterIInv, ExitIInv, RegionReadIInv, RegionSetupIInv, NextReadIInv,
     SetupDoneIInv, OutAddressIInv, InDataIInv, ReturnIInv DEF Next
<1>2. ASSUME IInv, UNCHANGED vars PROVE IInv'
  BY <1>2 DEF vars, IInv, TypeOK, ExclusionInv, AddressInv, ResultInv, OutsideInv,
     inInterpreter, unlocked, aimed, disturbed, own
<1>3. QED
  BY <1>1, <1>2

\* The inductive invariant of pci.c under ACPICA's interpreter mutex.
THEOREM Inductive == Spec => []IInv
  BY InitIInv, NextIInv, PTL DEF Spec

\* pci.c:42-95: a read within the interpreter mutex, of any width, reaches the register
\* it was asked for, unless a thread that sets up a region, outside the mutex, stands
\* between the address port of its first read and the mutex it waits for.
THEOREM ReadsRegisterHolds == Spec => []ReadsRegister
<1>1. IInv => ReadsRegister
  BY DEF IInv, ResultInv, ReadsRegister, own
<1>2. QED
  BY <1>1, Inductive, PTL

\* The two halves of an access are never made by two threads within the interpreter:
\* acpi.c and pci.c hold no lock of their own.
THEOREM OneInInterpreter ==
  Spec => [](\A t, u \in Threads : inInterpreter(t) /\ inInterpreter(u) => t = u)
<1>1. IInv => \A t, u \in Threads : inInterpreter(t) /\ inInterpreter(u) => t = u
  BY DEF IInv, ExclusionInv
<1>2. QED
  BY <1>1, Inductive, PTL
=============================================================================
