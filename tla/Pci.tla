-------------------------------- MODULE Pci --------------------------------
(***************************************************************************)
(* PCI configuration space: src/kernel/x86/pci.c, the ACPI services over   *)
(* it in acpi.c, and their callers in ACPICA.  A read is an output to the  *)
(* address port followed by an input from the data port; the interpreter   *)
(* mutex is all that keeps two threads apart.                              *)
(*                                                                         *)
(* A value is the sequence of its bytes, the lowest first.  The byte in a  *)
(* register is the device and the offset it belongs to.                    *)
(***************************************************************************)
EXTENDS Naturals, Sequences

\* Registers of the configuration space that hwpci.c reads by name.
PCI_CFG_HEADER_TYPE_REG == 14
PCI_CFG_PRIMARY_BUS_NUMBER_REG == 24
PCI_CFG_SECONDARY_BUS_NUMBER_REG == 25

CONSTANTS
  Threads, NOBODY,
  Devices,          \* bus, device and function numbers
  Offsets,          \* offsets in the configuration space
  Widths,           \* of the accesses, in bytes
  Setups            \* threads that meet a PCI_Config region for the first time

ASSUME PciAssumption ==
  /\ NOBODY \notin Threads /\ Setups \subseteq Threads
  /\ Offsets \subseteq 0..255
  /\ {PCI_CFG_HEADER_TYPE_REG, PCI_CFG_PRIMARY_BUS_NUMBER_REG,
      PCI_CFG_SECONDARY_BUS_NUMBER_REG} \subseteq Offsets
  /\ \A o \in Offsets : \A k \in 0..3 : o - (o % 4) + k \in Offsets     \* double words
  /\ Widths \subseteq {1, 2, 4} /\ 1 \in Widths

VARIABLES
  config_address,   \* what was last sent to port 0xCF8
  interpreter,      \* owner of ACPICA's interpreter mutex
  pc, request,      \* of each thread, and the access it makes
  result

vars == <<config_address, interpreter, pc, request, result>>

ZERO == <<>>
Bytes == (Devices \X Offsets) \cup {ZERO}
\* The code asserts that an offset is aligned to the width.
Requests == {r \in [device : Devices, offset : Offsets, width : Widths, setup : BOOLEAN] :
               /\ r.offset % r.width = 0
               /\ \A k \in 0..(r.width - 1) : r.offset + k \in Offsets}
\* A read of a set-up, 8 bits wide.
derive(d, o) == [device |-> d, offset |-> o, width |-> 1, setup |-> TRUE]

TypeOK ==
  /\ config_address \in Devices \X Offsets
  /\ interpreter \in Threads \cup {NOBODY}
  /\ pc \in [Threads -> {"idle", "method", "address", "next_address", "data", "return", "reenter"}]
  /\ request \in [Threads -> Requests]
  /\ result \in [Threads -> Seq(Bytes)] /\ \A t \in Threads : Len(result[t]) \in Widths

Init ==
  /\ config_address \in Devices \X {PCI_CFG_HEADER_TYPE_REG}
  /\ interpreter = NOBODY
  /\ pc = [t \in Threads |-> "idle"]
  /\ \E d \in Devices : request = [t \in Threads |-> derive(d, PCI_CFG_HEADER_TYPE_REG)]
  /\ result = [t \in Threads |-> <<ZERO>>]

Goto(t, label) == pc' = [pc EXCEPT ![t] = label]
-----------------------------------------------------------------------------
(***************************************************************************)
(* ACPICA: a method accesses a region within the interpreter mutex, which  *)
(* the default handler keeps; the set-up of a region gives it back.        *)
(***************************************************************************)
AcpiExEnterInterpreter_free(t) ==                             \* mutant
  /\ pc[t] = "idle" /\ interpreter' = t /\ Goto(t, "method")
  /\ UNCHANGED <<config_address, request, result>>
AcpiExEnterInterpreter(t) ==
  /\ pc[t] \in {"idle", "reenter"} /\ interpreter = NOBODY
  /\ interpreter' = t /\ Goto(t, "method")
  /\ UNCHANGED <<config_address, request, result>>

AcpiExExitInterpreter(t) ==
  /\ pc[t] = "method" /\ interpreter' = NOBODY /\ Goto(t, "idle")
  /\ UNCHANGED <<config_address, request, result>>

\* AcpiExPciConfigSpaceHandler, ACPI_READ.
region_read(t) ==
  /\ pc[t] = "method" /\ Goto(t, "address")
  /\ \E r \in {r \in Requests : ~r.setup} : request' = [request EXCEPT ![t] = r]
  /\ UNCHANGED <<config_address, interpreter, result>>

\* AcpiEvPciConfigRegionSetup: AcpiHwDerivePciId reads the header type of every device
\* on the way from the root, and of a bridge the two bus numbers.
region_setup(t) ==
  /\ pc[t] = "method" /\ t \in Setups
  /\ interpreter' = NOBODY
  /\ \E d \in Devices : request' = [request EXCEPT ![t] = derive(d, PCI_CFG_HEADER_TYPE_REG)]
  /\ Goto(t, "address")
  /\ UNCHANGED <<config_address, result>>

\* AcpiHwGetPciDeviceInfo: the read that follows another one of a set-up.
next_read(t) ==
  /\ pc[t] = "return" /\ request[t].setup
  /\ LET d == request[t].device
     IN  \/ /\ request[t].offset = PCI_CFG_HEADER_TYPE_REG             \* a bridge
           /\ request' = [request EXCEPT ![t] = derive(d, PCI_CFG_PRIMARY_BUS_NUMBER_REG)]
        \/ /\ request[t].offset = PCI_CFG_PRIMARY_BUS_NUMBER_REG
           /\ request' = [request EXCEPT ![t] = derive(d, PCI_CFG_SECONDARY_BUS_NUMBER_REG)]
        \/ /\ request[t].offset # PCI_CFG_PRIMARY_BUS_NUMBER_REG       \* the next device
           /\ \E e \in Devices :
                request' = [request EXCEPT ![t] = derive(e, PCI_CFG_HEADER_TYPE_REG)]
  /\ Goto(t, "next_address")
  /\ UNCHANGED <<config_address, interpreter, result>>

\* The set-up has all it wants to know, and waits for the interpreter mutex.
setup_done(t) ==
  /\ pc[t] = "return" /\ request[t].setup
  /\ request[t].offset # PCI_CFG_PRIMARY_BUS_NUMBER_REG
  /\ Goto(t, "reenter")
  /\ UNCHANGED <<config_address, interpreter, request, result>>
-----------------------------------------------------------------------------
(***************************************************************************)
(* pci.c.  pci_read_config_16 and _32 keep the result in a uint8_t.        *)
(***************************************************************************)
io_out_address(t) ==
  /\ pc[t] \in {"address", "next_address"} /\ Goto(t, "data")
  /\ config_address' = <<request[t].device, request[t].offset>>
  /\ UNCHANGED <<interpreter, request, result>>

\* The device ignores the lowest two bits of the address; the data port selects.
io_in_data(t) ==
  /\ pc[t] = "data" /\ Goto(t, "return")
  /\ LET w == request[t].width
         port == (request[t].offset % 4) - (request[t].offset % w)     \* & 3, & 2, 0
         o == config_address[2] - (config_address[2] % 4) + port
     IN  result' = [result EXCEPT ![t] =
           [k \in 1..w |-> IF k = 1 THEN <<config_address[1], o>> ELSE ZERO]]
  /\ UNCHANGED <<config_address, interpreter, request>>

pci_return(t) ==
  /\ pc[t] = "return" /\ ~request[t].setup
  /\ Goto(t, "method")
  /\ UNCHANGED <<config_address, interpreter, request, result>>

Next ==
  \E t \in Threads :
    \/ AcpiExEnterInterpreter(t)
    \/ AcpiExExitInterpreter(t)
    \/ region_read(t)
    \/ region_setup(t)
    \/ next_read(t)
    \/ setup_done(t)
    \/ io_out_address(t)
    \/ io_in_data(t)
    \/ pci_return(t)

Spec == Init /\ [][Next]_vars
-----------------------------------------------------------------------------
\* The set-up of a region by another thread has redirected the address port since its
\* thread gave the interpreter mutex back, and may do so again.
disturbed(t) ==
  \E u \in Threads \ {t} :
    request[u].setup /\ pc[u] \in {"next_address", "data", "return", "reenter"}

\* pci.c:42-95: a read within the interpreter mutex reaches the register it was asked
\* for, whatever its width and whatever other threads read meanwhile: the lowest byte it
\* returns is that register's.  Only the set-up of a region, which gives the mutex back,
\* comes between its two port accesses.
ReadsRegister ==
  \A t \in Threads :
    pc[t] = "return" /\ ~request[t].setup
      => result[t][1] = <<request[t].device, request[t].offset>> \/ disturbed(t)

\* exregion.c:375 "Field width in bits (8, 16, or 32)" and the return types of
\* pci.h:33-35: a read returns every byte of the field it was asked for.
FullWidth ==
  \A t \in Threads :
    LET r == request[t]
        field == [k \in 1..r.width |-> <<r.device, r.offset + (k - 1)>>]
    IN  pc[t] = "return" /\ ~r.setup => result[t] = field \/ disturbed(t)
=============================================================================
