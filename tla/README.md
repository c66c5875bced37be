# A TLA+ verification of Barevisor

Barevisor is a small hypervisor for Intel (VMX) and AMD (SVM) processors, built
as a UEFI driver and as a Windows driver around one core crate, `hvcore`. It
moves a running system into a virtual machine, one logical processor after the
other, and on Windows moves it out again. This directory models its core logic,
model-checks it with TLC and proves its safety properties with TLAPS.

Paths below are relative to `src/hvcore/src/hypervisor/` of the repository
unless they start with `uefi/` or `windows/`.

## The system

| component | state | operations | interacts with |
|---|---|---|---|
| AP startup on AMD (`amd/guest.rs`) | one activity byte per processor, the local APIC page's entry in the shared nested page tables | nested page fault, #SX (INIT), busy loop for SIPI | all processors race on the bytes and share the tables |
| allocator (`allocator.rs`) | two bitmaps under one spin lock | alloc, dealloc | every other part allocates from it |
| life cycle (`mod.rs`, `host.rs`, `hypercall.rs`, `intel/vmx.rs`, `amd/svm.rs`, the drivers) | per processor: VMX or SVM state, system registers, guest and host state areas; `APIC_ID_MAP` | virtualize_system, devirtualize_system and their steps | the platform runs the callbacks |
| one virtual processor (`host.rs`, `*/guest.rs`, `*/run_guest.S`) | `struct Registers`, VMCS or VMCB, clean bits, activity state | run, CPUID, RDMSR, WRMSR, XSETBV, VMCALL, INIT, SIPI, nested page fault | the guest, the interprocessor interrupts |
| MTRRs and EPT (`intel/mtrr.rs`, `intel/epts.rs`) | ranges read from the MSRs, the tables | Mtrr::new, find, build_identity | the processor uses tables and registers together |
| page tables (`paging_structures.rs`, `amd/npts.rs`) | host and nested page tables | build_identity, split_apic_page, intercept_apic_write | nested page faults of AP startup |
| becoming a guest (`segment.rs`, `gdt_tss.rs`, `*/guest.rs`, `host.rs`) | GDT and TSS, VMX controls, guest and host state as VM entry checks it | update the GDT, initialize_control, initialize_guest, initialize_host, INIT, SIPI | copies a processor that is running, with interrupts on |
| logging and host exceptions (`serial_logger.rs`, `interrupt_handlers.rs`, `panic.rs`) | one UART under a spin lock, RFLAGS.IF | log, handle_host_exception, panic_impl | guest, VM exits and panics of all processors share the lock |
| wrappers, tools, relocation table, VMCS dump | | | not modelled, see the end |

What is hard here: a startup protocol in which the interrupt that matters (SIPI)
is not interceptable, so it is emulated through a page fault, a
compare-and-exchange and a spin loop; a snapshot of the registers that returns
twice; registers that live in three places at once; page tables and memory types
that must agree with the hardware's own rules for every configuration; and the
way back out. The full list is `hazards` in `PROJECT.json`, each at its line.

## Modules

| module | models | proved in |
|---|---|---|
| `ApStartup` | abstract: what INIT and SIPI mean to an operating system | |
| `SvmSipi`, `MCSvmSipi` | AP startup on AMD in the UEFI build; implements `ApStartup` | `SvmSipiProofs` |
| `Allocator` | the global allocator | `AllocatorProofs` |
| `Lifecycle`, `MCLifecycle` | virtualization and devirtualization of all processors, both vendors, both platforms | `LifecycleProofs` |
| `Vcpu` | one virtual processor, both vendors; implements `ApStartup` | `VcpuProofs` |
| `Mtrr` | memory type range registers: the code's view and the processor's | `EptsProofs` |
| `Epts`, `MCEpts` | the extended page tables, built from `Mtrr` | `EptsProofs` |
| `PageTables` | host and nested page tables | `PageTablesProofs` |
| `GuestSetup`, `MCGuestSetup` | GDT and TSS, VMX controls, the state a processor enters its guest with, on both vendors and platforms | `GuestSetupProofs` |
| `SerialLog` | the UEFI driver's logger, its interrupt guard and the host's panics | `SerialLogProofs` |

Definitions keep the names of the functions they model; `map` in `PROJECT.json`
gives the lines. Operators with names such as `split_2mb_incrementing_first` or
`PostVectorAsAddress` stand before the definition they vary: each is a plausible
mistake that the properties are shown to detect (`mutants`).

### SvmSipi

`pc` is where each processor is: in the guest, in `handle_nested_page_fault`
("npf", "emulate"), in `handle_security_exception` ("sx", "wait", "fetch",
"sipi"). An action is the code between two accesses to shared state. The load
that ends the loop of `wait_for_sipi` and the swap after it are two steps, as
are the change of the nested page tables at the head of the fault handler and
the emulation of the store at its end. `tlb` is what a processor may have
cached of the local APIC page's entry; a store goes by the cached entry or, as
an entry may be evicted at any time, by the tables. The guest's operating system
is external: it stores the destination to ICR high and the command to ICR low,
INIT then two SIPIs, on the bootstrap processor. `Guests` is the set of
operating systems; the one that runs is chosen in the initial state: `orderly`
(the last processor is woken last and once, and processors leave their local
APIC alone while parked), `late` (the second SIPI comes after the target took
its #SX), `unsupported` (any of its stores to the local APIC may be one that the
handler panics at: with an instruction it does not decode, or a SIPI that its
assertions refuse), `rounds` (how often it wakes a processor). The atomic accesses are `Relaxed`,
but each processor has one byte and synchronizes through nothing else, so
interleaving of the accesses to that byte is all there is. On #VMEXIT GIF is
clear, which is why an INIT is taken only in the guest.

### Allocator

One action per iteration of `find_empty_blocks`, so that a run of free blocks is
found bit by bit. Marking is one step, since the lock is held. Alignment is left
out, as in the code.

### Lifecycle

System registers are six classes which code and hardware treat alike within a
class (see the module's comment). A value is the number of the write that made
it, `Own` for what the hypervisor made or nobody wrote, or `Adjusted` for what
`enable()` makes of the bits of CR0 and CR4 that VMX fixes. `mine` is what the
system itself wrote: the reference. `Expected` is what a guest has of it: in VMX
operation the fixed bits are `Adjusted` (firmware may have left CR0.NE clear, for
instance), all else is `mine`. `flags` is the machine's virtualization
state. `machine`, chosen in the initial state, is the vendor, the platform, what
the firmware left in IA32_FEATURE_CONTROL and the local APIC ids; the vendor decides which of the
alternatives of `mod.rs` and `host.rs` run, the platform whether the host has
tables of its own. An instruction that the processor would reject leads to
"fault": VMXON does on a machine whose firmware has locked
IA32_FEATURE_CONTROL with VMX off (`VmxLockedOut`), which `enable()` cannot
change, and nothing else may. The assertion of `apic_id::init()` leads to
"panic", for two processors whose ids agree in 8 bits (`DuplicateIds`) only.
After unloading, `TablesSurvive` and `RegistersSurvive` leave out the fixed bits,
which `disable()` does not give back. Windows
visits the processors in order; UEFI runs the callback on the bootstrap
processor and then, with `single_thread` set, on the others one at a time.

### Vcpu

Registers are in the processor (`cpu`), in `registers` and in `vmcs`, which is
the VMCS or the VMCB, with `cached` and `clean` for AMD's clean bits. A value
is a double word of two halves, so that masking and joining of EDX:EAX is the
arithmetic of the code, with base 16 instead of 2^32. `expect` is the reference:
what the architecture says of the instructions executed. The two vendors differ
in what `run()` copies and in `handle_init_signal`; `vendor` and `bsp` are chosen
in the initial state. `StaleAfterInit` names the registers that INIT does not
reach on an AMD application processor: `GuestSeesItsOwnState` leaves out exactly
those, and the run `vcpu_init` shows that it has to.

### Mtrr and Epts

Addresses are page numbers. `HardwareTypes` is the architecture's rule for one
page (external); `update_combined_ranges`, `bit_scan_forward` and `find` are the
code's. `Epts` runs the loops of `Mtrr::new` register by register, or byte by
byte, and those of `build_identity` entry by entry; the type of each page found
by a page walk is then compared with `HardwareTypes`. `raw` is chosen in the
initial state: every configuration of the registers in `RawMtrrs`.

What the construction relies on is said in two places. `RawAssumption` is about
all machines: bases are below the end of the tables (2^48 bytes), and no valid
register has a mask of zero, for which BSF has no result. `Supported` is the
condition of `TypesAgreeAboveFixed` alone: registers in use are among those
that are read, their masks have no holes, and their ranges neither begin nor
end inside of a 2MB page but the first, or of a 1GB page above 512GB, as the
comments of `build_identity` suppose. `BuildSucceeds` needs that no range ends
above 512GB (`BelowSlot`) and no more, the other invariants nothing.

### PageTables

The loops of `build_identity_internal` for host and nested tables (`npt`, chosen
in the initial state), the split, and the write protection. `Leaf`, `Translate`
and `Writable` are the processor's page walk (external); a page is writable if
the entries of both levels allow it. Sizes are constants, so that the theorems hold at 512
entries although the runs use a few. `PfnStep` is what the code adds to a page
frame number per entry of the split page (4096).

### GuestSetup

One processor, from the UEFI driver's new GDT to the guest, and through INIT and
SIPI back to 64-bit mode. `machine` facts (vendor, platform, GDT, selectors,
capability MSRs, interrupts on or off) are the record `m`, chosen in the initial
state. `cpu` is the registers in the processor, `vmcs` what `initialize_guest()`
and the exits left in the VMCS or VMCB, `expect` what the architecture says the
guest should have. As interrupts stay on while the state is copied, each group
of register reads (selectors, limits, rights, bases) is an action and an
interrupt may come between any two. A segment is its selector, what its access
rights say it is, and its limit; control words, CR0 and CR4 are sets of named
bits, so that `adjust_vmx_control` and `get_adjusted_cr0` are unions and
intersections with what the capability MSRs fix. `gdtr.limit + 1` keeps its
width: it wraps at `Word`. `EntryOk` is the processor's check at VM entry
(external), as far as it looks at what is modelled. A panic is a state of its own
for each of its reasons (`Panics`): the set-up ("panic"), a VM entry that the
processor refuses, an exit that `run()` does not handle, an interrupt that the
host takes. `PanicsOnlyFor` says that VM entry never fails and for each of the
others on which machines it may happen. `Lost` and `CanBeReset` name the cases in
which the guest loses a segment or cannot be in real mode, and nothing more.

### SerialLog

A processor is a stack of frames: its own code ("setup", "entering", "guest"), a
VM exit on top of the guest, a panic on top of code that runs on the host's IDT.
A frame has its RFLAGS.IF and its place in `log()`: the interrupt guard, CPUID
for the APIC id (which exits if a guest asks), the lock, each byte of the
record, the release of the lock, the release of the guard. An AMD host has the
RFLAGS of its VMRUN but runs with GIF clear, an Intel host starts with RFLAGS
cleared. The processors are set up one at a time, as `run_on_all_processors`
does. An INIT that meets a guest inside of `log()` is not modelled: the
operating system sends INIT to processors that it has parked.

## Runs

| run | question | answer |
|---|---|---|
| `svm_sipi` | Does startup work, for a guest that boots in the order the code has in mind, and what is left for others? | If the guest is orderly, no SIPI bypasses the hypervisor; if its SIPI is late as well, every wait ends. For all guests: the assertions, freshness of start vectors, and `ApStartup`. |
| `svm_sipi_disorder` | Does interception last as long as it is needed? | No: finding 1. |
| `allocator` | Two processors, both pools, sizes around every limit: do allocations stay apart? | Disjoint, exact, first fit, lock released. |
| `lifecycle` | Load on UEFI, load and unload on Windows, both vendors: is the system still itself? | No instruction out of order, guest registers kept (but for the bits VMX fixes), the guest never runs with the host's tables and finds its own after devirtualization, all processors or none, completion. |
| `lifecycle_registers` | Are all system registers given back? | No: finding 2. |
| `epts` | Do the tables agree with the MTRRs, for every configuration? | Built without panic if the registers are below 512GB; an identity mapping, fixed ranges a partition, types right from 1MB on if the registers are `Supported`. |
| `epts_fixed_bytes` | And below 1MB? | No: finding 3. |
| `page_tables` | Identity, null page, confinement of protection | Hold outside of the split page; protection is confined everywhere. |
| `vcpu` | Does the guest always find its own registers? | Yes, but for RSP, RFLAGS and SS after INIT on AMD. |
| `vcpu_init` | And those? | No: finding 4. |
| `guest_setup` | Does the processor accept what the code gives it, and is the guest still what it was? | Every VM entry succeeds, other panics are those `PanicsOnlyFor` names; segments, mode and instructions are the guest's own; its TSS is found. |
| `serial_log` | May guest, exits and panics of all processors share one lock? | Lines stay whole, no processor waits for itself unless an NMI hit the holder, interrupts do not interrupt a record, every record gets its turn. |

### Bounds, and why they are enough

* `SvmSipi`: three processors are the least with a processor that is neither the
  bootstrap nor the last one. Two vectors, 0 among them since it equals the byte
  `Active`; two rounds, so that a processor is woken again. `BootingGuests` are
  three of the eight kinds: the one the code expects, the one as orderly
  that hurries and makes unsupported stores, and a disorderly one, which has one
  round only, since its orders multiply. The theorems cover every guest and any
  number of rounds. `SvmSipiDisorder` has one vector, which is enough for its
  counterexample.
* `Allocator`: three and four blocks, with sizes of one to three blocks, one that
  never fits, and both sides of 4096. Each pool fills up and fragments.
* `Lifecycle`: two processors and two register writes, one before and one
  after any step of either. `AllMachines` has both vendors on both platforms; the
  Intel machines differ in IA32_FEATURE_CONTROL too, so that both branches of
  its adjustment run, and one is locked with VMX off. One AMD machine has equal
  local APIC ids. The bound caps the history of writes, not the exits.
* `Vcpu`: four exits hold INIT, SIPI and two instructions around them; two writes
  of either half. All code between two exits is straight line. `MaxExits` is
  below `Half`, so that RIP, which grows by one per exit, does not wrap around;
  the theorems hold for any such bound.
* `MCEpts`: `Configurations` is every use of the variable registers with the
  fixed ones alike, and every use of the fixed registers, MTRRs on or off. Three
  registers over eight aligned blocks give every way to overlap, adjoin in
  either order and nest. `HighConfigurations` has registers of 1GB granularity
  above 512GB, next to ones that end there: some builds panic, some succeed.
  `UnsupportedConfigurations` adds registers that `Supported` leaves out; of
  four, the last is not read. Types are UC, WT and WB where the code's
  precedence rules tell types apart. 1MB, 2MB, 1GB and 512GB keep their order
  and their divisibility.
* `PageTables`: the theorems have no bounds; the runs cover an APIC page at the
  beginning, middle and end of a large page, in the first, middle and last.

* `GuestSetup`: 64, 4 and 2 stand for 2^16, 4GB and the size of a page. GDTs of
  three to eight entries end well below the limit, just below it, so that the
  appended TSS does and does not fit, and at it. The TSS is below and above 4GB.
  Processors with and without TRUE capability MSRs, unrestricted guest and user
  wait and pause; null and other stack segments; any number of interrupts and
  exits.
* `SerialLog`: two processors, records of two bytes (one may come between), two
  records of guests, one exit and one NMI besides those that `log()` makes by
  itself, shared by the processors. A third processor would only wait for the
  same lock.

Runs say `CHECK_DEADLOCK FALSE` where a panic, the end of the build, the end of
the bounded history or an unloaded driver has no next step. The allocator never
stops and is checked for deadlock.

### Fairness

* A processor goes on executing its own code: weak fairness of handlers
  (`SvmSipi`, `Lifecycle`, `Vcpu`) and of a lock holder (`Allocator`), which
  runs with interrupts off or at raised IRQL. Nothing is assumed about who gets
  the lock next.
* INIT is delivered: strong fairness of `TakeInit`, as the target leaves and
  re-enters the guest.
* The guest's wake-up procedure goes on between the bootstrap processor's other
  stores: strong fairness of its two later steps, none of its first.
* The platform calls each callback and some day unloads the driver: strong
  fairness in `Lifecycle`, since exits interrupt the guest that gets there.
* `SerialLog`: weak fairness of each processor's own steps, not of interrupts,
  NMIs or the guest's wish to log. The spin lock is unfair; every wait ends since
  the others' records are bounded. With unbounded logging elsewhere a processor
  may starve.
* `WaitEnds` further needs a `late` guest: a comment in the source says "It is fine,
  as SIPI will be sent twice, and almost certain that 2nd SIPI is late enough".
  Without it the wait may last for ever; that is an assumption about the guest
  and no theorem.

## Proofs

Most theorems have the form `Spec => []P`, from an inductive invariant `Inv` with
`Init => Inv`, `Inv /\ [Next]_vars => Inv'` (one lemma per action or group of
actions) and `Inv => P`. Two show a refinement: `Spec => Startup!ASafety`, where
every initial state maps to one of `ApStartup` and every step to a step or a
stutter. Constants are arbitrary within the named assumptions of each module.
The inductive invariants hold in the runs' instances too.

**SvmSipiProofs** (`TypeCorrect`, `AssertionsHold`, `StartVectorsAreFresh`,
`ImplementsApStartup`, `OrderlyBootWorks`). The
properties are not inductive by themselves. `ActivityInv` ties the byte to the
program counter: outside of the wait loop it is `Active` (so the swap's
assertion holds), between the last load and the swap it is not `WaitForSipi`
(so nobody replaces it), and a vector in it was sent since the last INIT.
`TargetInv` follows the destination through two stores, either of which may be
in a fault handler, to show that no INIT is aimed at the bootstrap processor;
`BspInv` draws the conclusion. For the refinement, `ModeOf` and `VectorOf` map
byte, place and local variable to the abstract wait: the swap to `WaitForSipi`
is the reset, the compare-and-exchange the release, the write of CS the start,
and the last load and swap are stutters that lose no vector. For orderly guests,
`AimInv` says that a command goes to the processor the guest means and that one
INIT is under way at most; `LastInv` that the page becomes writable, in the
tables or in the bootstrap processor's TLB, only after the last processor has
started, when nobody is left to be woken.

**AllocatorProofs** (`TypeCorrect`, `AllocationsAreDisjoint`, `NothingLeaks`,
`FirstFit`, `AssertionsHold`). `LockInv`: who is inside a call holds the lock.
`ScanInv` is the loop invariant of `find_empty_blocks`: the current run is free
and is preceded by a used block, and no run that is long enough ends before.
`LiveInv`: each live allocation is its own set of used blocks, and there are no
others. `Division`, `RoundUp` and `StartOfAddress` are the arithmetic that
takes a pointer back to its block; `Extent` and `Separate` turn disjoint blocks
into disjoint bytes, across the two pools too.

**LifecycleProofs** (`TypeCorrect`, `NothingFaults`, `RegistersAreKept`,
`TablesAreGivenBack`, `SystemIsWhole`). `VisitedInv`: the processors that are
done are the first ones, so that whose turn it is (`TurnIs`) and which id it
gets (`Advance`, by the cardinality of an interval) are known. `Place`: only the
processor whose turn it is enters or leaves the hypervisor. `FlagsOf`: VMX or SVM
is on from `enable()` to `disable()`, a VMCS or host save area in use from
`activate()` to `deactivate()`. `ValuesOf` says where the system's values are:
in the registers, in the save area, or split between the two; and that the bits
VMX fixes are `Adjusted` from `enable()` on, wherever they are (`ExpectedStays`,
`ExpectedValues`).

**VcpuProofs** (`TypeCorrect`, `GuestIsUndisturbed`, `ImplementsApStartup`).
`HeldInv` says for every place of the exit loop where each of the guest's
registers is: in the processor, in `struct Registers`, in the VMCS or VMCB, or,
as far as the clean bits allow it, in the processor's copy of the VMCB.
`NextValue` is what an exiting instruction leaves in a register, so that a
handler is compared with the architecture register by register. `RipInv` keeps
RIP from wrapping around. INIT and SIPI map to `ApStartup` through `Mode`.

**EptsProofs** (`TypeCorrect`, `IdentityMapping`, `FixedRangesPartition`,
`TypesAgree`, `BuildNeverPanics`, `BuildReducesToFind`). Four layers of one
invariant:

* `Inv`, the loops of `build_identity`: the address at which one stops is the
  one at which the next must begin for the page walk to find an identity mapping
  (`LoopInv`, `PtInv`, `PdInv`, `PdptInv`, with `SizesAgree`, `IndexInRow` and
  `Division` for the arithmetic). It leaves two ways to panic: MTRRs that are
  disabled, and an address for which `find()` has no type.
* `MtrrInv`, the loops of `Mtrr::new`. `Tiles`: the fixed ranges so far follow each
  other without gap or overlap up to the sub-range that is next. `Collects`: a
  page is in a variable range of some type exactly if it is in the range of a
  register of that type that has been read, and every combined range begins
  where one register's does and ends where one's does, so that a boundary of
  registers is a boundary of ranges. `Update`, `UpdateTiles`, `UpdateUnion` and
  `UpdateCollects` show that `update_combined_ranges` keeps both, in all three of
  its branches.
* `TableInv`: every entry has a type and an address in range.
* `AgreeInv`: entries written so far have a type the processor allows, for each
  page they map. `FindWhole` is the heart: where no range begins or ends inside
  of the pages asked for, `find_from_variable` answers with a type that `Resolve`
  allows for the types of the matching registers. `FindPage` and
  `FindLargePage` apply it to 4KB and 2MB pages. A 1GB page is looked up for
  512GB, inside of which a range may begin or end: `NotInside` and `FindHugePage`
  show that an answer, if there is one, is right for the 1GB. `FindSlot` is for
  `BuildNeverPanics`: with all registers below 512GB there is always an answer.

`BlockIsRange` connects the two views of one register: the processor compares
bits of a page number under the mask, the code takes a base and a length. It
rests on `SameUpperBits`, which argues by the least bit that differs
(`LeastElement`, from the well-foundedness of the natural numbers) instead of by
induction. The provers do not know exponentiation; `PowersOfTwo` states the
two equations of it that are used, and TLC evaluates it.

**PageTablesProofs** (`TypeCorrect`, `IdentityMapping`, `NullPointersFault`,
`InterceptionIsConfined`, `ApicStaysInPlace`). `LoopInv` says where a loop is and
which address it
has come to, `PdInv` and `PtInv` what the entries before that are, `ApicInv`
what the split left. `Monotone`, `Division` and `NextMultiple` are the facts on
multiplication and division that the solvers need step by step.

**GuestSetupProofs** (`TypeCorrect`, `FewPanics`, `GuestContinues`, `TssFound`).
`MachineAssumption` is what 64-bit code in ring 0 may rely on: selectors lead
into the GDT to descriptors of their kind, TR to a busy TSS, CR0 and CR4 have
protection and paging on. Any GDT, any selectors and any capability MSRs that
satisfy it are covered. `GdtInv` and `HostGdtInv`: tables only grow, and a
selector keeps its descriptor (`Prolonged`, `AppendedTss`). `CopyInv` says how
far the copy into the VMCS or VMCB has come, and that it agrees with what the
processor has loaded, but for SS after an interrupt; `Copies` shows that
LAR and LSL on Intel and the reading of descriptors on AMD give the same as
loading the segment. `CtlInv` is the adjusted control words. `ModeOk` is what VM
entry checks and `Follows` the relation to what the bare processor would have:
both hold of the registers that the next VM entry loads and survive mode changes,
INIT and SIPI.

**SerialLogProofs** (`TypeCorrect`, `RecordsDoNotMix`, `InterruptsStayOut`,
`NoSelfDeadlock`). `Sound` says what a frame by itself guarantees: interrupts are
off inside of `log()`, in a panic and in an Intel host, and the guard's copy of IF
is not made up. `LockInv` is mutual exclusion in both directions, with the
reason for `NoReentry`: only an NMI gets on top of a frame that holds the lock.
`LineInv`: the unfinished line is the holder's.

Only model-checked is liveness: `WaitEnds`, `LockIsReleased`,
`VirtualizationCompletes`, `EveryRecordIsWritten`, and the fairness of `ApStartup`
in `ImplementsWaitForSipi`. Temporal reasoning under fairness needs ENABLED,
which is out of the prover's reach. What the runs show there holds for their
instances.

## Findings

Each is a run with expected violation and is described, with the line it
contradicts, in `PROJECT.json`.

1. `svm_sipi_disorder`: the processor with the last id ends SIPI interception for
   everybody (`amd/guest.rs:334`).
2. `lifecycle_registers`: devirtualization on Intel does not give back the
   SYSENTER MSRs and data selectors (`intel/guest.rs:154`); on AMD it restores an
   old EFER and leaves the host's VMLOAD registers (`amd/svm.rs:24`). TLC stops
   at the first counterexample; with the machine of one vendor alone in
   `Machines` it finds that vendor's.
3. `epts_fixed_bytes`: byte order of fixed range MTRRs (`intel/mtrr.rs:125`).
4. `vcpu_init`: after INIT on AMD, RSP, RFLAGS and SS are stale
   (`amd/guest.rs:225,269`).

Noted without a run:

* The split of a large page adds 4096 to a page frame number (`amd/npts.rs:60`),
  although `amd/guest.rs:417` relies on "GPA is same as PA in our NTPs". At the
  local APIC's default address, the first page of its 2MB, this goes unnoticed:
  `ApicIsWhereItIs` is about that address only, where the step does not matter,
  and `IsIdentity` leaves out the whole split page.
* Interrupts are not disabled between the snapshot and the first VM entry: the
  line that would is commented out (`host.rs:37`), the comment above it
  (`host.rs:20`) says they are. On AMD under UEFI an interrupt after the host's
  IDT is loaded panics; before, it may return with another SS than the snapshot
  has. `PanicsOnlyFor`, `GuestGoesOn` and `InterruptedOnlyBetweenRecords` make
  an exception of this.
* `append_tss` pushes 0 for the upper half of a TSS descriptor
  (`gdt_tss.rs:79`), and `gdtr.limit + 1` wraps for the largest GDT
  (`segment.rs:42`): exceptions in `TssIsFound` and `PanicsOnlyFor`.
* An LDT in use is lost on Intel: LDTR becomes unusable.
* On a processor without TRUE capability MSRs MOV to CR3 exits, which `run()`
  does not handle: an exception in `PanicsOnlyFor`.
* Without unrestricted guest, PE and PG stay on after INIT
  (`intel/guest.rs:739`): VM entry succeeds (`PanicsOnlyFor`), but the guest is
  not in real mode, an exception in `GuestGoesOn` (`CanBeReset`).
* A bit called "VMCALL exiting" (18 of the primary controls) is requested; no
  processor has it and the adjustment drops it.
* The read shadows of CR0 and CR4 are written without masks, so the guest sees
  what VMX fixes. INIT takes CD and NW from the host's CR0 on AMD and clears
  them on Intel. IA32_EFER of the guest is written at INIT
  (`intel/guest.rs:624`) without the control that loads it.
* The host's GDTs of application processors are copies of the bootstrap
  processor's.
* An NMI in an Intel host panics the processor; if that held the UART's lock,
  everybody waits from then on. `NoReentry` and `EveryRecordIsWritten` make an
  exception of this.
* The entry stubs of `interrupt_handlers.S` do not expect the error codes of #VC
  and #SX.
* The bits that VMX fixes, CR4.VMXE among them, stay as `enable()` set them after
  VMXOFF: `disable()` (`intel/vmx.rs:49`) does not use the CR4 that `enable()`
  saved, which the comment at line 24 says it does, and CR0 is not saved. `TablesSurvive` and
  `RegistersSurvive` leave them out (class "fixed").
* `apic_id::init()` panics if two local APIC ids agree in their lowest 8 bits
  (`apic_id.rs:24`): an exception in `NoFault`.
* `find_from_variable` overlooks a range that begins inside of the 2MB page asked
  for (`intel/mtrr.rs:70`): `Supported` in `TypesAgreeAboveFixed`.
* The type of each 1GB page is looked up for the 512GB that begin with it (`intel/epts.rs:101`),
  so a variable range above 512GB that ends within those makes the build panic,
  although it is of the 1GB granularity that the comment at `intel/epts.rs:88`
  assumes: `BelowSlot` in `BuildSucceeds`. A build that succeeds has the right
  types: `TypesAgreeAboveFixed`.
* `intel/mtrr.rs:92` says the last matching register counts, the code keeps the
  first; the architecture leaves those overlaps undefined.
* The table in `intel/guest.rs:461-469` calls a set "allowed 0" bit flexible, the
  code (correctly) treats it as fixed to 1.

## Not modelled

* Invalid MSR and XCR values, which fault in the host by the code's own account.
  XSETBV's setting of the host's CR4.OSXSAVE, which the next exit undoes.
* The Windows driver's logger: a spin lock without an interrupt guard around a
  call into the system, whose behaviour is outside of this repository.
* The initialization of the UART, the relocation table, VMCS dumps, the stack
  switch, the instruction wrappers, the developer tools: straight-line code with
  no state of its own to get wrong in an order of steps.
* Bit positions of control words and access rights: bits have names.
* The lock of IA32_FEATURE_CONTROL, which `disable()` leaves behind: no later step
  of the code depends on it. The alignment that a caller asks the allocator for,
  which the code ignores (`allocator.rs:39`): no caller in the repository asks for
  more than its block has.
* The guest's memory, and the time anything takes.

## Plan

Done: all modules of the table above with runs, and proofs of every safety
property of a passing run. Left: a composition of `SvmSipi` and `PageTables`, with
nested page faults through the split tables instead of one bit.

The runs are kept few, one for each question: a new module brings one passing
run, and a run whose question a theorem answers for all constants is retired.
