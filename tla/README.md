# kiznix: a specification of its kernel

kiznix is a small x86 kernel (plain, PAE and x86_64 builds) in C: a preemptive
round-robin scheduler, spin locks, semaphores and mutexes, a physical and a
virtual memory manager, the legacy PIC and PIT, a text console, and an OS layer
for the vendored ACPICA. All of it drives one CPU. This directory holds TLA+
modules for its components, the TLC configurations that check them on small instances,
and proofs checked by TLAPS.

Paths below are relative to `src/src/kernel/` unless they start with `src/`.

## Inventory

| component | state | operations | properties that make it correct |
|---|---|---|---|
| Spin locks (`spinlock.c`) | the lock words, `g_spinLockCount`, `g_interruptsEnabled`, the CPU's IF | `spin_lock`, `spin_unlock` | a lock is never waited for; the count counts; IF is off while a lock is held and back on after the last one |
| Scheduler (`thread.c`, `x86/thread_*.asm`) | `current_thread`, `ready_list`, `suspended_list`, each `thread_t` and its stack | `thread_create`, `thread_yield`, `thread_wakeup`, `thread_schedule`, `thread_entry`, `thread_exit`, `timer_callback` | every thread on exactly the list its state says; no check is fatal; a ready thread runs |
| Semaphores, mutexes (`semaphore.c`, `mutex.c`) | `count`, the queue of `waiter_t` on the waiters' stacks | `init`, `lock`, `try_lock`, `unlock` | units conserved, first come first served, no lost wake-up |
| Interrupt dispatch (`x86/interrupt.c`, `interrupt_*.asm`) | `interrupt_handlers`, the masked IRQ during a handler | `interrupt_register`, `interrupt_dispatch`, `interrupt_exit` | handlers do not nest; a masked IRQ is unmasked again |
| PIC (`x86/pic.c`) | the mask and in-service registers | `pic_init`, `pic_irq_real`, `pic_eoi`, `pic_enable_irq`, `pic_disable_irq` | no lost mask update; spurious IRQ 7 and 15 acknowledged as the hardware wants |
| Physical memory (`x86/pmm.c`) | the boot regions, a stack of free pages that grows into the pages it is given | `pmm_init`, `pmm_alloc_page`, `pmm_free_page` | no page handed out twice; kernel and low memory never handed out |
| Virtual memory (`x86/vmm.c`, `src/src/libc/posix/mman.c`) | page tables, `next_alloc` | `vmm_map_page`, `vmm_unmap_page`, `vmm_alloc`, `vmm_map`, `vmm_unmap`, page fault handler, `mmap` | regions disjoint and inside the heap; a lazy page backed once; no stale translation |
| ACPI OS layer (`acpi.c`) | handles of mutexes and semaphores; ACPICA's one interrupt handler | mutex, semaphore, lock and interrupt services, PCI configuration | a waiter gets its mutex; a read returns its own register |
| Console (`console.c`) | cursor row and column | `console_putchar`, `console_scroll` | the cursor stays on the screen with several writers |
| PCI access (`x86/pci.c`) | the address port | `pci_read_config_8/16/32` | a read returns the register asked for, at full width |
| ACPICA (`src/src/acpica`), where it meets the services | mutex owners, readers, region handlers | enter and exit the interpreter, namespace walks, methods, table unload | nobody waits inside the interpreter; no unload during a walk |
| Main program (`kernel.c`) | - | `kernel_main`, `thread1..3`, `fatal` | a client of the above |

The rest (CPU and boot set-up, BIOS calls through the vendored emulator, most of the C
library and of ACPICA) is listed in `PROJECT.json` with the reason it is left out.

How they interact: threads call semaphores; `semaphore_lock` marks the current
thread suspended, and `semaphore_unlock` calls `thread_wakeup` with its own
spin lock held (the only nesting of spin locks). The timer's IRQ 0 masks itself
at the PIC and calls `thread_yield` from inside its handler; the preempted thread
finishes the handler, and unmasks IRQ 0, only when it is scheduled again. One
thread takes `scheduler_lock` and another, after `thread_switch`, releases it.
`g_interruptsEnabled` is one global for all stacks.

Memory: `vmm_alloc` only reserves pages, and the first write to one faults;
the page fault handler, behind an interrupt gate, takes a frame from `pmm_alloc_page`.
The stack of free pages lies in virtual memory too, in the very pages it holds, so
`pmm_free_page` calls `vmm_map_page`, which calls `pmm_alloc_page` when it needs a page
table. `malloc` calls `mmap`, `mmap` and `thread_create` call `vmm_alloc`. ACPICA's threads
share mutexes made of kernel semaphores, map tables with `vmm_map`, read PCI registers and
register a handler for their interrupt. Whoever prints shares the console.

Hard behaviours: preemption at any instruction with IF on; the window in
`semaphore_lock` between `spin_unlock` and `thread_yield`, where a thread is suspended and
still running, may be preempted and may already have been woken; restoring the interrupt
flag across a switch; the first instructions of a new thread, which use another
thread's flag; IRQ 0, whose mask has a different owner after every switch; spurious
interrupts; allocation that allocates for itself; translations the CPU remembers;
ACPICA's nest of interpreter, reader and writer mutexes; unlocked shared state (`next_alloc`,
the PIC masks, the console's cursor, the PCI ports). `PROJECT.json` lists the hazards by
line with the properties about each.

## The modules

| module | models |
|---|---|
| `Spinlock` | `spinlock.c`: one operator per function, conjoined by its callers |
| `Scheduler` | `thread.c`, and IRQ 0's way through `interrupt.c` and `pic.c` |
| `Semaphore` | `semaphore.c`, and `mutex.c` as semaphores with one unit |
| `Kernel` | the composition: which thread calls what, `Next`, fairness, the properties |
| `AbstractSemaphore` | what a semaphore promises: `free`, `queue`, `owner`, every operation one step |
| `AbstractLists` | what the thread lists promise: first in first out, a thread on one list at most; a critical section of `thread.c` is one step |
| `ThreadList` | the linked lists behind the sequences of `Scheduler` and `Semaphore`, pointer by pointer |
| `BootMemory` | `pmm_init` and the region part of `pmm_alloc_page` |
| `Pmm` | the stack of free pages in `pmm.c`, with the mapping functions under it |
| `AbstractPages` | what a page allocator promises: each page free, in use, or kept for tables |
| `Vmm` | the kernel heap of `vmm.c` under preemption, `mman.c`, the stacks of `thread_create` |
| `Interrupts` | both PICs, `pic.c`, `interrupt.c`, drivers and threads around the timer |
| `AcpiOsl` | the mutex and semaphore services of `acpi.c` under ACPICA's locks |
| `Pci` | `x86/pci.c` and its callers in `acpi.c` and ACPICA |
| `Console` | `console.c` and the threads that print |
| `MC*` | constants for TLC |
| `KernelProofs` | the inductive invariant of the locks and the interrupt flag; on top of it that of the lists, waiters and units; the theorems on locks, scheduling and semaphores |
| `ThreadListProofs`, `BootMemoryProofs`, `PmmProofs`, `VmmProofs`, `InterruptsProofs`, `AcpiOslProofs`, `PciProofs` | the inductive invariant and the theorems of the module they are named after |

**How code becomes steps in `Kernel`.** Only `current_thread` executes. `pc[t]` is the
instruction a thread executes or resumes at. A call up to and including its
`spin_lock` is a step, each critical section is one or more steps, and its
`spin_unlock` is a step. That a critical section is atomic is *not* assumed: the timer
may strike at every label whenever `intr` holds and IRQ 0 is unmasked, and it is
`spin_lock`'s clearing of IF that keeps it away. What is merged into one step is
code with IF off that touches nothing an interrupt could see, and reading and
clearing IF in `spin_lock`, where an interrupt between the two restores the
flag that was read.

**A thread's stack** is four variables: `ret` (where a thread-level `thread_yield`
returns), `intd` (the label the timer interrupted, "none" outside the handler),
`thread` (the argument of `thread_wakeup` / the new thread of `thread_create`), `saved`
(the local `interruptsEnabled` of `thread_schedule`). The frames `thread_create`
builds amount to: start at `thread_entry`, return through `interrupt_exit` into the
thread function with IF on, return from that into `thread_exit`.

**The ends of the machine.** `cpu` is "fatal" after `fatal()`, a failed assert or the
null pointer `thread_schedule` would follow when nobody is left to run; "spinning"
if `spin_lock` found the lock taken (with one CPU and IF off nobody can release
it); "halted" after `thread_exit`. None of them has a successor.

**The lists** are sequences here, and pointers in `ThreadList`. `list_remove` is written in closed form (drop the first
occurrence). The waiters' queue is a sequence of threads; that a `waiter_t` lies on
the stack of a thread still inside `semaphore_lock` is part of `NoLostWakeup`.

**The clients.** `kernel.c` defines `thread1..3` as endless lock/print/unlock
loops. At this commit the lines of `kernel_main` that would start them are
commented out and only its `thread_yield` loop runs; the model takes both, thread0
creating the others, calling `thread_yield`, and in `semaphores` locking like `thread1()`
called from `kernel_main`. `TryLockers` and `Exiters` stand for the
other two things the API lets a thread do. A client unlocks what it locked, once.

**External.** In `Kernel` nothing outside the repository is modelled, apart from the CPU and
PIC behaviour the code relies on: interrupts enter with IF clear, `iret` restores it, a
request at a masked line stays latched (so the timer can strike as soon as the line is
unmasked, and no "pending" variable is needed).

**`ThreadList`** makes every iteration of `list_append`'s and `list_remove`'s loops a step. The
variables `content` and `queue` record the sequence the callers take a list for, and
`ListsLinked` says that the pointers spell it. A thread is appended only when it is on no
list and queued only when it is not queued; `KernelProofs` proves that of `Kernel`
(`ThreadQueues`, `NoLostWakeup`). `list_remove` keeps the stale `next` of what it unlinks, so
the two lists, which share the field, could grow together: `list_append`'s first line is
what prevents it.

`AbstractLists` lies between the two. `ThreadList` implements it (`ListsRefinement`), twice: with the two thread
lists, `popped` being what was taken, and with the queue of waiters. `Kernel` implements it too, with
its sequences as the lists and `current_thread` as what was taken last (`SchedulerRefinement`): so what
`ThreadList` asks of its callers, that nobody is appended who is on a list, is what `Kernel` does, and
what `Kernel` takes from a list is what the pointers give.

**`BootMemory`** runs `pmm_init` over memory maps with ranges anywhere around the three
boundaries the code knows (1 MB, named `MEM_1_GB` in the source, the kernel's end, 4 GB), in
both widths of `physaddr_t`, and hands pages out until there are none. The expectation is
written independently: the set of whole pages inside an available range, outside the
kernel and below the limit.

**`Pmm`** is sequential: `TablesFirst` of `Vmm` shows that in the running kernel
`pmm_alloc_page` is entered by the page fault handler only, with interrupts off. One record `m`
holds memory and allocator, since `pmm_free_page`, `vmm_map_page` and `pmm_alloc_page` call each
other: each function is an operator from `m` to `m`, and an action applies one of them. A page table
is one of the lowest level; in the x86_64 build the first free may allocate two more above it, which
are not modelled. A stack entry is read through the TLB if it has a translation; `TlbFill` and `TlbEvict` are the
CPU's. `ImplementsPages` maps it to `AbstractPages`.

**`Vmm`** has a step per access to shared state: `vmm_alloc` reads `next_alloc` once at the
start and three times in every turn of its loop, for the index of the entry (`index`), for `invlpg`
(`invalidate`) and to advance it; the entry is written in between (`mark`). `vmm_map` and `vmm_unmap` take
a page in two steps, the entry (`map_page`, `unmap_page`) and the TLB (`map_invalidate`,
`unmap_invalidate`, which does nothing where `InvlpgOnUnmap` is FALSE: PAE and x86_64). Reading
`page_mappings_2`, allocating the table and writing the entry in `vmm_map_page` are one step:
`TablesFirst` shows that there is no table to allocate, and nobody else writes an entry of a region
that was only just returned (`AloneInv`). Virtual addresses are page numbers from `KERNEL_HEAP_BEGIN`;
the upper levels of the page tables are one level. A thread writes only to memory that
`mmap` returned and reads nothing it did not write. A thread in `vmm_page_fault_handler` is
not preempted (interrupt gate).

**`Interrupts`** keeps the request, in-service and mask registers of both controllers as sets
of lines, and leaves to a nondeterministic choice which thread the timer's handler switches
to: `Kernel` has the scheduler in full. A new thread begins in `thread_entry`; a thread that is
switched out in the handler resumes in it.

**`AcpiOsl`** takes one operation of a mutex as a step, those of `AbstractSemaphore`, which
`Kernel`'s semaphores implement (`SemaphoreRefinement`); a waiter becomes the owner when the
unit is handed over. What ACPICA does between those calls (owner notes, the reader count) are
steps of their own. A thread is walking until it asks for the release of the read lock. `ACPI_MTX_NAMESPACE`,
which a walk holds between two callbacks (`nsxfeval.c:656`), and `ACPI_MTX_TABLES`, which an unload gives back
before it waits for the write lock (`tbdata.c:656`), are left out. Control methods are a loop of the things that touch these locks: sleep,
acquire and release an AML mutex, wait for an event, unload a table.

**`Console`** has a step per statement, `console_scroll` one per cell. `Position` and `Shown`
say independently what a terminal of that size shows after the text `printed`.

**`Pci`** has the port accesses as steps. A byte of configuration space is the device and the
offset it belongs to, so that a wrong or mixed read is visible; a value is the sequence of its
bytes, and `pci_read_config_16` and `_32` return one byte and zeros, as they keep the result in a
`uint8_t`. The set-up of a region is the one caller that has given the interpreter mutex back: it reads
the header type of each device on the way from the root (`region_setup`, `next_read`), and of a bridge the primary
and the secondary bus number as well. `ReadsRegister` is about where a read goes, its lowest byte; `FullWidth`
about what it returns.

## What TLC checks

| run | instance | properties |
|---|---|---|
| `mutex` (`MCMutex.cfg`) | 3 threads that lock one mutex, thread0 yields; fairness | `TypeOK`, `NeverSpins`, `NoFailure`, `SpinDiscipline`, `InterruptFlag`, `ThreadQueues`, `NoLostWakeup`, `MutualExclusion`, `MaskHasOwner`, `HandOff`, `WaiterServed`, `ReadyRuns` |
| `semaphores` (`MCSemaphores.cfg`) | 4 lockers of a semaphore with two units and of one with none, 2 of them also try-lock, one may end | `UnitsConserved`, `OnlyDeadlockIsFatal`, `ImplementsSemaphore` |
| `timer_lost` (`MCTimerLost.cfg`) | 2 lockers and thread0, fairness | violates `TimerReenabled` |
| `thread_lists` (`MCThreadList.cfg`) | 3 threads on two lists and in the queue | `ListsLinked`, `QueueLinked` |
| `boot_memory` (`MCBootMemory.cfg`) | all maps of up to 2 disjoint ranges over 6 pages of 3 bytes | `OnlyUsableOnce`, `NothingForgotten`, `FreeMemoryExact` |
| `page_stack` (`MCPmm.cfg`) | 6 pages, 2 entries to a stack page, 1 table | `PagesAccounted`, `StoredInFreePages`, `NoStaleTranslation`, `FatalOnlyWhenEmpty`, `ImplementsPages` |
| `heap` (`MCVmm.cfg`) | one thread allocates, maps and creates the other, both write; 4 frames, 5 pages, 2 tables; no invalidation on unmapping | `FramesAccounted`, `ReadsBack`, `FatalOnlyExhausted`, `TablesFirst`, `StaleIsNobodys` |
| `heap_overlap` (`MCVmmOverlap.cfg`) | two threads allocate | violates `RegionsDisjoint` |
| `interrupts` (`MCInterrupts.cfg`) | 2 threads, lines 0, 2, 7, 9, 15, spurious requests, fairness | `ServiceEnds`, `MaskOwned`, `DeviceServed` |
| `acpi_locks` (`MCAcpiOsl.cfg`) | 2 walkers whose methods take an AML mutex, a method that unloads a table or waits, fairness | `OwnerNoted`, `WalksUndisturbed`, `ReadersCounted`, `WalkEnds`, `WaiterGetsMutex` |
| `console` (`MCConsole.cfg`) | 2 threads under the semaphore, a screen of 2 by 2, 6 characters | `ShowsText` |
| `pci_reads` (`MCPci.cfg`) | 2 threads, 2 devices, 8 registers, every width, set-ups | `ReadsRegister` |

Each module states its types in `TypeOK`. Of these only `Kernel`'s is listed in a run; the
others document the variables and are where a proof about the module starts.

**Bounds.** In `Kernel` the state spaces are finite without artificial bounds: counts are
bounded by the units, lists by the threads. Four threads are enough for the cases that matter:
one thread owning, one woken but not yet run, one queued, one preempted in the gap, with a
nested lock held by the current one. Four lockers make two units both contended and shared,
and the semaphore without units collects sleepers until nobody is left. `MCSemaphores.cfg`
switches the deadlock check off because the machine really stops there, after `thread_exit` and
when nobody is left to run; where a memory run switches it off the machine stops for lack of
memory, in `acpi_locks` for an assert. In all other runs the absence of deadlock is part of
what is checked.

`ThreadList`: with three threads a list has a head, a middle and an end, or the two lists
share a stale tail. `BootMemory`: pages of three bytes let a range begin and end on every
residue, and six pages put whole pages and fragments on both sides of each boundary; two
ranges suffice because entries are processed one by one. `Pmm`: six pages fill three stack
pages of two entries, so the stack grows and shrinks over a page boundary and is read
across it. `Vmm`: a region that crosses a page table, one that crosses the end of the heap,
and fewer frames than pages; the guards marked *bound* in `vmm_alloc` and where its loop reads `next_alloc`
keep regions below `END_OF_MEMORY`. `heap` has the build that does not invalidate, the harder one: a
translation outlives its page. `Interrupts`: a line of either controller that can be spurious (7, 15), one that
nobody drives (9), the cascade and the timer. `AcpiOsl`: two readers for the first-in, last-out
protocol, plus a writer and methods inside and outside a walk; the walkers alone take the AML
mutex (a method that unloads a table with an AML mutex held, which a method of a walk waits for,
blocks that walk, whatever the services do). `Console`: `MaxPrinted` 6
characters wrap, end lines at the last column and scroll three times on a 2 by 2 screen.
`Pci`: two double words of two devices show every wrong selection, and hold the
three registers a set-up reads.

`NoFailure` is a property of clients that release what they take while thread0
stays runnable: there is no idle thread, and if the last runnable thread
blocks, `thread_schedule` pops a null pointer (`thread.c:190`; `schedule_refuses` has
the case). `OnlyDeadlockIsFatal` drops that condition on the clients: whenever the
machine stops with an error, all threads that exist are asleep.

`ReadyRuns` supposes that IRQ 0 is unmasked again and again, by whoever: without that it is
false in this kernel, which is what `timer_lost` is about. `FatalOnlyExhausted` counts a stack
that grows past its one backed page as a known stop (see below), and `WalkEnds` and
`WaiterGetsMutex` one of `acpi.c`'s asserts on a timeout.

`ImplementsSemaphore` is refinement: `count`, `waiters` and the set of owners computed
from where each thread stands behave as `AbstractSemaphore`. A waiter becomes an owner
in the step that pops it, so `HandOver` is atomic although the woken thread runs much
later. Every other step, switches and interrupts included, stutters.

**Fairness** (`FairSpec`): the CPU keeps executing (`WF` of a step); the timer is
programmed for 1000 Hz and the PIC latches it, so a tick that can be taken again
and again is taken (`SF` of `Tick`); code that gets the CPU with IF on again and again executes an
instruction at last, as a tick is a millisecond and comes once per unmasking (`SF` of each
thread's own step: without it a tick could land before every single instruction). No fairness
is assumed about whom the scheduler picks: that is the round robin in the code.

`Interrupts`: the handler runs on (`WF(Dispatch)`; IF is off, nothing else can), a
driver's start-up gets its two instructions between interrupts at last, and the controller
delivers a line that is deliverable again and again (`SF`). `DeviceServed` additionally supposes
`Quiet(l)`: again and again interrupts are on while no request of higher priority is there. That is a
property of the devices, not of the code: a line of higher priority that never rests starves the
rest by the PIC's design. `AcpiOsl`: a thread outside "idle" goes on (the kernel's `ReadyRuns` and
`WaiterServed` are behind that), and a method and a walk end at last, so do not sleep or visit
for ever (`SF` of `return`, of `release` and of the walk's end). `WaiterGetsMutex` leaves writers out:
`utlock.c` says itself that overlapping readers may starve them.

### Findings

- **The timer can stay masked for ever** (`timer_lost`). `interrupt.c` masks IRQ 0,
  calls the handler, and unmasks after "Done handling the interrupt, re-enable it".
  But the handler switches threads. If the next thread was switched out by a
  voluntary `thread_yield` it resumes with IRQ 0 masked. If it then never yields
  (`thread1`'s loop on a free mutex), no tick ever comes, and the preempted thread, the one
  that would unmask, starves on `ready_list`. `WaiterServed` holds all the same
  (a contended unlock hands over, and a thread that must wait yields), and so does
  `MaskHasOwner`: some thread always has the unmasking still to do.
- **`vmm_alloc` can give one page to two callers** (`heap_overlap`) when it is preempted between
  the read of `next_alloc` and the end of its loop. The same lack of a lock can cost a frame: a thread
  preempted between the index and the write of an entry (`vmm.c:505`, `510`) marks it after another thread
  has allocated, returned and written that page, so the frame and what it held are lost. TLC shows that
  with `FramesAccounted` on the constants of `MCVmmOverlap.cfg`.

Some modules also state a promise that the code does not keep, for which the project has no
run; TLC refutes each when it is added to the module's configuration with the constant named:

| property | constants | what happens |
|---|---|---|
| `BootMemory.UnavailableIsPart` | as in `MCBootMemory.cfg` | a range inside one page above 4 GB makes the counter of unusable memory wrap |
| `Pmm.NothingThereYet` | 7 pages, `TABLES` 2, `TABLE_SPAN` 2 | when the stack needs a second page table (PAE and x86_64, 1 GB free) the table is popped off the stack itself, and a page stays mapped above the top; the next time, mapping there is fatal |
| `Vmm.FramesAccounted`, with two threads that allocate | as in `MCVmmOverlap.cfg` | the frame lost as told above |
| `Vmm.UnmappedIsGone` | as in `MCVmm.cfg` (PAE and x86_64) | `vmm_unmap_page` clears the entry and not the TLB, so the page stays reachable, against `vmm.h:64`; the i386 one invalidates. `StaleIsNobodys` says what holds instead |
| `Pci.FullWidth` | as in `MCPci.cfg` | a read of 16 or 32 bits returns 8, kept in a `uint8_t`, against its return type (`pci.h:34`) and `exregion.c:375` |
| `Vmm.InsideHeap` | as in `MCVmmOverlap.cfg` | `vmm_alloc` never returns NULL |
| `Vmm.StackUsable` | as in `MCVmm.cfg` | a page fault on the running stack has no stack to run on: one page of four is usable |
| `AcpiOsl.MethodReturns` | a walker among the `Unloaders` | it waits for the write lock its own walk keeps from writers |
| `AcpiOsl.EveryTimeoutAccepted` | as in `MCAcpiOsl.cfg` | a finite timeout, or any AML event wait, ends in an assert |
| `Console.RowComesBack` | both threads in `Unlocked` | the row passes the screen for good |

## What is proved

`KernelProofs` proves, for every set of threads and semaphores, every choice
of clients and all initial counts (from `SchedulerAssumption`, `SemaphoreAssumption` and
`KernelAssumption`, which only say that thread0 is a thread, that a semaphore's lock
is not `scheduler_lock` and that counts are naturals):

- `TypeCorrect`: `Spec => []TypeOK`;
- `SpinFree`: `Spec => []NeverSpins`;
- `SpinDisciplined`: `Spec => []SpinDiscipline`;
- `FlagPreserved`: `Spec => []InterruptFlag`.

None of these is inductive: whether the timer can strike in a critical section
depends on the flag its `spin_unlock` will restore, hence on what every switched-out
thread saved. `IInv` adds: which locks are held and how deep at each label of the current
thread (`LocksInv`); at which labels IF may be on, and that `g_interruptsEnabled` says
"on" exactly outside the timer's handler wherever the outermost `spin_unlock` still has to
read it (`FlagInv`); that a thread which is not current waits in `thread_switch` or has not
started, with a saved flag that agrees with whether it was preempted (`StackInv`); that
lists, waiters and arguments name threads that exist (`ExistInv`); that a thread inside a
semaphore operation keeps its semaphore (`SemInv`). There is one lemma per action,
and in it one step per conjunct; `NextInv` collects them. The flag at `thread_entry` is
deliberately not in `FlagInv`: a new thread uses the flag of whoever was switched
out, and the proof shows that either value is harmless.

Its second half proves, from the same assumptions:

- `ListsRight`, `UnitsKept`, `Exclusion`, `NothingLost`, `MaskOwned`: `Spec => []P` for
  `ThreadQueues`, `UnitsConserved`, `MutualExclusion`, `NoLostWakeup`, `MaskHasOwner`;
- `FatalOnlyAsleep`: `Spec => []OnlyDeadlockIsFatal`;
- `HandedOff`: `Spec => HandOff`;
- `SemaphoreRefinement`: `Spec => ImplementsSemaphore`;
- `SchedulerRefinement`: `Spec => ImplementsLists`.

That units are conserved is again not inductive. A waiter owns a unit once it is popped and
enters its critical section whenever it next runs, so it must never run while it is queued. It
does not because a queued thread is SUSPENDED (`WaiterInv`), because a thread that is not
current runs only off `ready_list`, where everybody is READY and listed once
(`ListInv`), and because the current thread is SUSPENDED only between the line of
`semaphore_lock` that says so and the switch, the gap and a timer interrupt in the gap included
(`CurrentInv`). Lists change by an append, a pop or a `list_remove`, and `AppendOnce`,
`TailOnce` and `RemoveOnce` say what each does to a list without repetitions. One lemma per
action shows that it keeps these parts and `UnitsInv`, and which operation of
`AbstractSemaphore` it is: `lock_got` and `try_got` acquire, `lock_block` queues, `unlock_count`
releases, `unlock_wakeup` hands over, and every other step leaves units and queues alone
(`UnitsStay`). `NextQ` collects them; the refinement, `HandOff` and the invariants
follow from it. `FatalOnlyAsleep` goes through the checks of `spinlock.c` and `thread.c` one
by one: each is excluded by the two invariants, except the empty `ready_list`.

`SchedulerRefinement` needs no new invariant. Three steps touch a list: `create_body` inserts, `wakeup_body` moves
a thread (`RemoveCuts` gives the place it is taken from) and `yield_body` switches. By `ListInv` the thread
each of them appends is on no list, and `HeadTailAppend` that the thread appended by a switch is not the one popped.

`NeverStuck` drops the exception where every semaphore starts with a unit, as mutexes do:
`Spec => []NoFailure`, for all clients. It takes all parts of the invariant at once. A machine that
stopped has an empty `ready_list` (`DeadInv`), so by `ListInv` every thread that exists sleeps; by
`WaiterInv` each is queued at one semaphore, whose count is 0, so by `UnitsInv` somebody owns a unit of
it; and an owner is in its critical section, which is not where threads sleep.

The other proof modules have one invariant `IInv` each, checked by TLC on the module's instance
before it was proved, a theorem `Inductive` (`Spec => []IInv`), one lemma per action or kind of action, and
a theorem for each property, for every value of the constants that the module's named assumption
allows: any number of threads, lines, devices, frames, pages.

- **`ThreadListProofs`** (`ListsLinkedHolds`, `QueueLinkedHolds`, `ListsRefinement`) closes the gap between the pointers of the
  code and the sequences of the proofs above. Besides the type, the invariant says that a list's
  links spell its sequence, with or without the element being appended or removed, at each line of
  `list_append` and `list_remove`; that a walk's pointer is at an element of its own list and
  everything it has passed is in front of it (`OpInv`); that no thread is on both lists, although both
  use the one `next` and a removed thread keeps its stale link (`DistinctInv`); and that the queue's
  `tail` is its last element (`QueueInv`). The refinement of `AbstractLists` follows: a pop returns `head`,
  which `Spells` makes the first of the sequence (`PopTakes`), and an operation takes effect in the step
  that ends it.
- **`BootMemoryProofs`** (`OnlyUsableOnceHolds`, `NothingForgottenHolds`, `FreeMemoryExactHolds`), under
  `DisjointMaps`: the ranges of a boot map do not overlap (the code takes it from the boot loader, nothing
  checks it, and an overlap would be handed out twice). The sizes are real: any page size, any kernel image
  between 1 MB and 4 GB, any map whose ranges end below 2^64. `UsableEntry` shows that the cascade of
  tests in `pmm_init` leaves exactly an entry's usable pages; `NewRegion` and `TakePage` that a region stands
  for them also where `physaddr_t` turns its end, 4 GB, into 0, which is why `pmm_alloc_page`
  compares with `!=`. The invariant (`BootInvariance`): regions and pages handed out are the usable pages of the
  entries read so far, in no two places (`OnceInv`); regions in front of `s_free_memory_current` are drained
  (`RegionInv`); the counter is the size of what is left (`CountInv`), where `MappedSize` shows that
  it never wraps.
- **`PmmProofs`**. `Stored` says which page each stack page is mapped
  to: the one its own first entry records. `Apart` says that no page is in two places, and `Counted`
  counts. They need each other: an entry can be read only through the page that stores it, and a write
  to that page, by its owner or to the stack, must not change another entry, which holds since the pages
  of the stack are entries of the stack and so nobody's. One lemma each for a page popped (`PopStep`),
  taken from the boot regions (`BootStep`), written to the top of the stack (`PushStep`), with a new
  stack page (`MapStep`), with the first page table (`TableStep`) and with the second
  (`SecondTableStep`). They also say what becomes of the sets of `AbstractPages`.
  For any number of pages and tables: `PagesAccountedHolds`, `NoStaleTranslationHolds`, `PagesRefinement`
  (`Spec => ImplementsPages`), `StackInFreePagesHolds` (an entry is never stored in a caller's page) and
  `StopsAtTheEndsHolds`. The last one rests on a fact that is easy to miss in the code: the stack never outgrows its
  first table. The second one is popped off the stack that is being extended, so the push goes to the last
  stack page of the first table, and the page that was mapped for it stays mapped, unused
  (`TABLE_SPAN` in `Stored`); the next push there is fatal (`FreeAtEnd`). How many pages there are decides which of the two
  ends is reached. Up to `SLOTS * TABLE_SPAN + 1` (`OneTable`; in the i386 build one table maps 4 GB worth of entries)
  there is no second table and nothing is mapped above the top, `StoredInFreePagesHolds`; up to one more,
  no such stop, `FatalOnlyWhenEmptyHolds`; with the next, TLC reaches the stop, so neither bound can
  be raised.
- **`VmmProofs`** has two invariants, proved together (`Inductive`) if one thread only calls `vmm_alloc`, be it in
  `mmap`, `thread_create` or `vmm_map` (`OneAllocates`; as many threads as you like write to the result and
  fault). That hypothesis is what the finding `heap_overlap` is about: with two, regions overlap, and
  since an entry is marked some time after its index was computed, `FramesAccounted` fails as well. `IInv` has the bounds of
  calls in progress (`CallOK`) and regions (`RegionOK`), a fault at a page that is not there for a write that may
  cause one (`FaultOK`), translations that are true or of a page that is gone (`PagesInv`), and the frames.
  `AloneInv` says that the page in front of a running call is untouched, so what it marks and maps is
  its own, that regions and a call in progress are apart, and that a page that is being unmapped is in no region.
  `FramesAccountedHolds`, `StaleIsNobodysHolds`, `ReadsBackHolds`, `FatalOnlyExhaustedHolds`, `TablesFirstHolds` and
  `RegionsDisjointHolds` follow, for either value of `InvlpgOnUnmap`.
- **`InterruptsProofs`** (`ServiceEndsHolds`, `MaskOwnedHolds`): a line in service is that of the interrupt
  before its EOI (`ServiceInv`), drivers are started by the first thread before any other thread
  exists, and new threads only enable the timer (`PlaceInv`), and what a thread has read of a mask
  register masks no line started by then, but its own (`ReadInv`): no line started meanwhile is
  masked again by the write back. A started line is masked by an owner (`MaskOwned`), the current thread or,
  for the timer, one it switched out, that restores it.
- **`AcpiOslProofs`** (`OwnerNotedHolds`, `WalksUndisturbedHolds`, `ReadersCountedHolds`): each mutex has one
  holder, counting the waiter a unit was handed to; it is the noted owner from its note to the
  moment it erases it, which it does before the release; the writers' mutex is held on behalf of all readers from the
  first to the last, whoever of them took it; and the reader count is the number of walks, plus
  or minus the reader that is between its two steps.
- **`PciProofs`** (`ReadsRegisterHolds`, `OneInInterpreter`): the interpreter mutex excludes, hence the
  address port holds a reader's own address at its data access, except after a set-up of a region, and the
  lowest byte of what is read, of whatever width, is that of the register asked for.

Only model-checked: `Console`'s `ShowsText`, which refers to a recursive function of the text
(induction over data), and all liveness (fairness and ENABLED): both are out of the proof system's reach
here.

## Not modelled

In the modelled components: the text that is printed, `timer_tick` (nothing reads it), frame
layouts and register contents, the PIT's divisor, colours, and failing allocations, which
`thread_create` does not check. `vmm_init` and `interrupt_init` are the initial states of
`Vmm` and `Interrupts`. Widths of virtual addresses: no wrap-around of `next_alloc` (the heap
ends long before) and no PAE truncation in `vmm_map`; both are under hazards. In `acpi.c`: port and
memory accesses, printing, stubs that return a constant, and `AE_NO_MEMORY` paths. ACPICA's
interrupt handler: `AcpiOsInstallInterruptHandler` passes the FADT's line number to
`interrupt_register` as a vector and nothing unmasks the line, so no system control interrupt
ever arrives and there is no behaviour to model. `AcpiOsWritePciConfiguration` changes nothing
and reports success.

`bios.c` and libx86emu: an instruction interpreter whose only state is the emulated machine.
ACPICA: vendored, more than 200 000 lines with its tools (disassembler, compiler, dump
utilities); only what shares state with kiznix's services is modelled, so the share of all lines that
the map covers stays small. Most of what is left there is a function of its input
(AML and table decoding, formatting). `cpu.c` and the boot code run once, straight through,
before anything else. `string.c` and `printf.c` keep no state; dlmalloc is vendored; its
lock spins without a yield and so relies on the timer, whose mask is `timer_lost`'s subject.

## Plan

1. Done: all modules above and the proofs listed.
2. The two refinements of `AbstractLists` are proved and, with the constants of `MCMutex.cfg`, `MCSemaphores.cfg` and
   `MCThreadList.cfg` (without its symmetry), were checked with TLC first; no run lists them.
3. Model-checked only, for good: all liveness, and `Console`'s `ShowsText`.
4. To model next: the upper levels of the page tables under `Pmm`'s stack.
