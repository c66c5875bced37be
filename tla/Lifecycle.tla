----------------------------- MODULE Lifecycle -----------------------------
(***************************************************************************)
(* virtualize_system() and devirtualize_system(): every processor in turn  *)
(* snapshots its registers, enters the hypervisor, is resumed from the     *)
(* snapshot as a guest, runs, and is finally taken out again by a          *)
(* hypercall.  Both vendors, with the platform's own or the hypervisor's   *)
(* page tables and descriptor tables.                                      *)
(*                                                                         *)
(* The system registers are six classes that the two vendors and the code  *)
(* treat alike within a class:                                             *)
(*   cr        CR3, and the bits of CR0 and CR4 that VMX leaves free       *)
(*   fixed     the bits of CR0 and CR4 that VMX fixes, CR4.VMXE among them *)
(*   dtr       GDTR, IDTR and the FS and GS bases                          *)
(*   efer      EFER (but for EFER.SVME)                                    *)
(*   sysenter  IA32_SYSENTER_CS, ESP and EIP, and the DS, ES, FS and GS    *)
(*             selectors, which the host has without RPL on Intel          *)
(*   kgs       KernelGsBase, STAR, LSTAR and the other registers that only *)
(*             AMD moves, with VMLOAD and VMSAVE                           *)
(***************************************************************************)
EXTENDS Integers, FiniteSets

CONSTANTS ProcessorCount,  \* apic_id::PROCESSOR_COUNT, once all are counted
          Machines,        \* inputs: the machines it is loaded on
          MaxWrites        \* bound: register writes by the guest

ASSUME CountAssumption == ProcessorCount \in Nat \ {0}

(* In the order run_on_all_processors() visits them.                       *)
Processors == 1 .. ProcessorCount

(* The vendor, the platform (which gives the host SharedHostData of its    *)
(* own, or not), IA32_FEATURE_CONTROL as the firmware left it, and the     *)
(* local APIC ids as CPUID reports them, in 8 bits.                        *)
ASSUME MachineAssumption ==
    Machines \subseteq [vendor : {"intel", "amd"}, platform : {"uefi", "windows"},
                        featureControl : {"unlocked", "on", "off"},
                        apicIds : [Processors -> 0 .. 255]]
ASSUME WritesAssumption == MaxWrites \in Nat

Regs == {"cr", "fixed", "dtr", "efer", "sysenter", "kgs"}
Own == -1                       \* of the hypervisor's making, or never written
Adjusted == -2                  \* what IA32_VMX_CR0_FIXED0 and the like ask for
Values == (0 .. MaxWrites) \cup {Own, Adjusted}

VARIABLES
    machine,   \* the machine; it does not change
    pc,        \* where each processor is
    phys,      \* its system registers
    save,      \* the guest's values in its VMCS or VMCB
    host,      \* the host's values in its VMCS, its host save area and VMCB
    flags,     \* the machine's virtualization state
    saved,     \* what Vmx or Svm remembers from enable()
    ids,       \* APIC_ID_MAP
    phase,     \* how far the platform is with the system
    visited,   \* processors run_on_all_processors() is done with in this phase
    mine,      \* history: the values the guest or the native system gave the registers
    writes     \* how many of those there were

vars == <<machine, pc, phys, save, host, flags, saved, ids, phase, visited, mine, writes>>

Vendor == machine.vendor
OwnHostData == machine.platform = "uefi"

(* The classes that a VM exit saves for the guest and loads for the host.  *)
Switched == IF Vendor = "intel" THEN {"cr", "fixed", "dtr", "sysenter"} ELSE Regs

Flags ==
    [vmxon : BOOLEAN, vmcs : BOOLEAN,
     svme : BOOLEAN, hsave : BOOLEAN, rinit : BOOLEAN, gif : BOOLEAN]

Untouched ==
    [vmxon |-> FALSE, vmcs |-> FALSE,
     svme |-> FALSE, hsave |-> FALSE, rinit |-> FALSE, gif |-> TRUE]

Pcs == {"native", "captured", "main", "enabled", "created", "activated", "initialized",
        "guest", "recheck", "exit", "leave", "loaded", "inactive", "disabled", "fault",
        "panic"}

TypeOK ==
    /\ machine \in Machines
    /\ pc \in [Processors -> Pcs]
    /\ phys \in [Processors -> [Regs -> Values]]
    /\ save \in [Processors -> [Regs -> Values]]
    /\ host \in [Processors -> [Regs -> Values]]
    /\ flags \in [Processors -> Flags]
    /\ saved \in [Processors -> [fixed : Values, efer : Values]]
    /\ ids \in [Processors -> 0 .. ProcessorCount]
    /\ phase \in {"loaded", "virtualizing", "running", "devirtualizing", "unloaded"}
    /\ visited \subseteq Processors
    /\ mine \in [Processors -> [Regs -> Values]]
    /\ writes \in 0 .. MaxWrites

Filled(v) == [p \in Processors |-> [r \in Regs |-> v]]

Init ==
    /\ machine \in Machines
    /\ pc = [p \in Processors |-> "native"]
    /\ phys = Filled(0) /\ mine = Filled(0)
    /\ save = Filled(Own) /\ host = Filled(Own)
    /\ flags = [p \in Processors |-> Untouched]
    /\ saved = [p \in Processors |-> [fixed |-> Own, efer |-> Own]]
    /\ ids = [p \in Processors |-> 0]
    /\ phase = "loaded"
    /\ visited = {}
    /\ writes = 0

NoId == 0

-----------------------------------------------------------------------------
(* The platform runs a callback on one processor after the other.          *)

Current == CHOOSE p \in Processors \ visited : \A q \in Processors \ visited : p <= q

Turn(p) == visited # Processors /\ p = Current

Goto(p, l) == pc' = [pc EXCEPT ![p] = l]
SetFlags(p, f) == flags' = [flags EXCEPT ![p] = f]

(* An instruction that the processor or an unwrap() rejects.               *)
Fault(p) ==
    /\ Goto(p, "fault")
    /\ UNCHANGED <<machine, phys, save, host, flags, saved, ids, phase, visited, mine, writes>>

apic_id_init_skipping(p) ==
    /\ phase = "loaded"
    /\ Turn(p) /\ pc[p] = "native"
    /\ ids' = [ids EXCEPT ![p] = Cardinality(visited) + 2]
    /\ visited' = visited \cup {p}
    /\ UNCHANGED <<machine, pc, phys, save, host, flags, saved, phase, mine, writes>>

apic_id_init_not_counting(p) ==
    /\ phase = "loaded"
    /\ Turn(p) /\ pc[p] = "native"
    /\ ids' = [ids EXCEPT ![p] = 1]
    /\ visited' = visited \cup {p}
    /\ UNCHANGED <<machine, pc, phys, save, host, flags, saved, phase, mine, writes>>

apic_id_init_bsp_only(p) ==
    /\ phase = "loaded"
    /\ Turn(p) /\ pc[p] = "native"
    /\ ids' = [ids EXCEPT ![1] = 1]
    /\ visited' = visited \cup {p}
    /\ UNCHANGED <<machine, pc, phys, save, host, flags, saved, phase, mine, writes>>

(* apic_id::init(): numbers from PROCESSOR_COUNT, here counted from 1; it  *)
(* was 0 when the driver was loaded.  An id that is in the map already     *)
(* fails the assertion, with the map locked for ever.                      *)
apic_id_init(p) ==
    /\ phase = "loaded"
    /\ Turn(p) /\ pc[p] = "native"
    /\ IF \E q \in visited : machine.apicIds[q] = machine.apicIds[p]
         THEN Goto(p, "panic") /\ UNCHANGED <<ids, visited>>
         ELSE /\ ids' = [ids EXCEPT ![p] = Cardinality(visited) + 1]
              /\ visited' = visited \cup {p}
              /\ UNCHANGED pc
    /\ UNCHANGED <<machine, phys, save, host, flags, saved, phase, mine, writes>>

NextPhase(from, to) ==
    /\ phase = from
    /\ visited = Processors
    /\ phase' = to
    /\ visited' = {}
    /\ UNCHANGED <<machine, pc, phys, save, host, flags, saved, ids, mine, writes>>

-----------------------------------------------------------------------------
(* virtualize_system(): the callback.                                      *)

capture_current(p) ==
    /\ phase = "virtualizing"
    /\ Turn(p)
    /\ pc[p] = "native"
    /\ Goto(p, "captured")
    /\ UNCHANGED <<machine, phys, save, host, flags, saved, ids, phase, visited, mine, writes>>

HypervisorHidden(p) == FALSE

(* CPUID traps to the hypervisor exactly in a guest.                       *)
is_our_hypervisor_present(p) == pc[p] \in {"guest", "recheck"}

(* The first return from capture_current() enters the hypervisor on a new  *)
(* stack, the second one, as a guest, ends the callback.                   *)
EnterOrReturn(p) ==
    /\ phase = "virtualizing"
    /\ pc[p] \in {"captured", "recheck"}
    /\ IF is_our_hypervisor_present(p)
         THEN Goto(p, "guest") /\ visited' = visited \cup {p}
         ELSE Goto(p, "main") /\ UNCHANGED visited
    /\ UNCHANGED <<machine, phys, save, host, flags, saved, ids, phase, mine, writes>>

(* An unlocked IA32_FEATURE_CONTROL is set as VMXON needs it, and locked.  *)
update_feature_control_msr ==
    IF machine.featureControl = "unlocked" THEN "on" ELSE machine.featureControl

(* Vmx::enable(): CR0 and CR4 get the bits that VMX fixes before VMXON.    *)
vmx_enable(p) ==
    /\ pc[p] = "main" /\ Vendor = "intel"
    /\ saved' = [saved EXCEPT ![p].fixed = phys[p]["fixed"]]
    /\ phys' = [phys EXCEPT ![p]["fixed"] = Adjusted]
    /\ IF update_feature_control_msr = "off" \/ flags[p].vmxon
         THEN Goto(p, "fault") /\ UNCHANGED flags
         ELSE Goto(p, "enabled") /\ SetFlags(p, [flags[p] EXCEPT !.vmxon = TRUE])
    /\ UNCHANGED <<machine, save, host, ids, phase, visited, mine, writes>>

svm_enable(p) ==
    /\ pc[p] = "main" /\ Vendor = "amd"
    /\ saved' = [saved EXCEPT ![p].efer = phys[p]["efer"]]
    /\ SetFlags(p, [flags[p] EXCEPT !.svme = TRUE])
    /\ Goto(p, "enabled")
    /\ UNCHANGED <<machine, phys, save, host, ids, phase, visited, mine, writes>>

(* main() looks the processor up in the map; Guest::new(), with VMCLEAR on *)
(* Intel.                                                                  *)
new_guest(p) ==
    /\ pc[p] = "enabled"
    /\ IF ids[p] = NoId \/ (Vendor = "intel" /\ ~flags[p].vmxon)
         THEN Fault(p)
         ELSE /\ Goto(p, "created")
              /\ UNCHANGED <<machine, phys, save, host, flags, saved, ids, phase, visited, mine, writes>>

vmx_activate(f) == [f EXCEPT !.vmcs = TRUE]
svm_activate(f) == [f EXCEPT !.hsave = TRUE]

activate(p) ==
    /\ pc[p] = "created"
    /\ SetFlags(p, IF Vendor = "intel" THEN vmx_activate(flags[p]) ELSE svm_activate(flags[p]))
    /\ Goto(p, "activated")
    /\ UNCHANGED <<machine, phys, save, host, saved, ids, phase, visited, mine, writes>>

Load(values, classes, into) == [r \in Regs |-> IF r \in classes THEN values[r] ELSE into[r]]

(* The guest's state as initialize_guest() writes it: the current values,  *)
(* into the fields there are.                                              *)
vmx_initialize_guest(current, fields) ==
    Load(current, {"cr", "fixed", "dtr", "sysenter"}, fields)
svm_initialize_guest(current, fields) == current

(* The host's state: the current values, or tables of its own.             *)
WithOwnTables(f) == [r \in Regs |-> IF OwnHostData /\ r \in {"cr", "dtr"} THEN Own ELSE f[r]]

vmx_initialize_host(current, fields) ==
    Load(WithOwnTables(current), {"cr", "fixed", "dtr"}, fields)
svm_initialize_host(current) == WithOwnTables(current)

(* R_INIT turns INIT into #SX.                                             *)
svm_initialize_control(f) == [f EXCEPT !.rinit = TRUE]

vmx_initialize(p) ==
    /\ pc[p] = "activated" /\ Vendor = "intel"
    /\ IF ~flags[p].vmcs
         THEN Fault(p)
         ELSE /\ save' = [save EXCEPT ![p] = vmx_initialize_guest(phys[p], @)]
              /\ host' = [host EXCEPT ![p] = vmx_initialize_host(phys[p], @)]
              /\ Goto(p, "initialized")
              /\ UNCHANGED <<machine, phys, flags, saved, ids, phase, visited, mine, writes>>

svm_initialize_host_first(p) ==
    /\ pc[p] = "activated" /\ Vendor = "amd"
    /\ SetFlags(p, svm_initialize_control(flags[p]))
    /\ phys' = [phys EXCEPT ![p] = svm_initialize_host(@)]
    /\ host' = [host EXCEPT ![p] = phys'[p]]
    /\ save' = [save EXCEPT ![p] = svm_initialize_guest(phys'[p], @)]
    /\ Goto(p, "initialized")
    /\ UNCHANGED <<machine, saved, ids, phase, visited, mine, writes>>

(* On AMD the host's tables are loaded here: VMRUN saves what is current.  *)
svm_initialize(p) ==
    /\ pc[p] = "activated" /\ Vendor = "amd"
    /\ SetFlags(p, svm_initialize_control(flags[p]))
    /\ save' = [save EXCEPT ![p] = svm_initialize_guest(phys[p], @)]
    /\ phys' = [phys EXCEPT ![p] = svm_initialize_host(@)]
    /\ host' = [host EXCEPT ![p] = phys'[p]]
    /\ Goto(p, "initialized")
    /\ UNCHANGED <<machine, saved, ids, phase, visited, mine, writes>>

-----------------------------------------------------------------------------
(* The loop of virtualize_core().                                          *)

EntryOk(f) == IF Vendor = "intel" THEN f.vmxon /\ f.vmcs ELSE f.svme /\ f.hsave

(* Guest::run(), up to the guest's first instruction: that after the       *)
(* snapshot, or that after the exit.                                       *)
VmEntry(p) ==
    /\ pc[p] \in {"initialized", "exit"}
    /\ IF ~EntryOk(flags[p])
         THEN Fault(p)
         ELSE /\ phys' = [phys EXCEPT ![p] = Load(save[p], Switched, @)]
              /\ SetFlags(p, [flags[p] EXCEPT !.gif = TRUE])
              /\ Goto(p, IF pc[p] = "initialized" THEN "recheck" ELSE "guest")
              /\ UNCHANGED <<machine, save, host, saved, ids, phase, visited, mine, writes>>

VmExitWithoutSave(p, l) ==
    /\ phys' = [phys EXCEPT ![p] = Load(host[p], Switched, @)]
    /\ SetFlags(p, [flags[p] EXCEPT !.gif = Vendor = "intel"])
    /\ Goto(p, l)
    /\ UNCHANGED <<machine, save, host, saved, ids, phase, visited, mine, writes>>

(* Saved on a VM exit; AMD clears the global interrupt flag.               *)
VmExit(p, l) ==
    /\ save' = [save EXCEPT ![p] = Load(phys[p], Switched, @)]
    /\ phys' = [phys EXCEPT ![p] = Load(host[p], Switched, @)]
    /\ SetFlags(p, [flags[p] EXCEPT !.gif = Vendor = "intel"])
    /\ Goto(p, l)
    /\ UNCHANGED <<machine, host, saved, ids, phase, visited, mine, writes>>

(* CPUID, RDMSR, WRMSR, XSETBV, an unknown hypercall...: the handlers      *)
(* leave these registers alone and the guest is run again.  INIT, which    *)
(* resets them, is module Vcpu's subject.                                  *)
OtherExit(p) == pc[p] = "guest" /\ VmExit(p, "exit")

(* The guest's own business.  In VMX operation the processor refuses to    *)
(* change the bits that VMX fixes.                                         *)
SystemWrites(p, r) ==
    /\ pc[p] \in {"guest", "native"}
    /\ r = "fixed" => ~flags[p].vmxon
    /\ phase \in {"loaded", "running", "unloaded"} \/ (visited # Processors /\ ~Turn(p))
    /\ writes < MaxWrites
    /\ writes' = writes + 1
    /\ phys' = [phys EXCEPT ![p][r] = writes + 1]
    /\ mine' = [mine EXCEPT ![p][r] = writes + 1]
    /\ UNCHANGED <<machine, pc, save, host, flags, saved, ids, phase, visited>>

-----------------------------------------------------------------------------
(* devirtualize_system(): presence is tested on one processor only.  Its   *)
(* caller is the Windows driver's unload routine; UEFI never takes the     *)
(* hypervisor out.                                                         *)

devirtualize_system ==
    /\ phase = "running"
    /\ ~OwnHostData
    /\ pc[Current] \in {"guest", "native"}
    /\ phase' = IF is_our_hypervisor_present(Current) THEN "devirtualizing" ELSE "unloaded"
    /\ UNCHANGED <<machine, pc, phys, save, host, flags, saved, ids, visited, mine, writes>>

(* The hypercall: outside a guest the instruction is undefined.            *)
hypercall_devirtualize(p) ==
    /\ phase = "devirtualizing"
    /\ Turn(p)
    /\ pc[p] \in {"guest", "native"}
    /\ IF pc[p] = "guest" THEN VmExit(p, "leave") ELSE Fault(p)

vmx_load_without_tables == {"cr", "fixed"}

(* What load_guest_cpu_state() loads from the VMCS or VMCB; on AMD it      *)
(* clears EFER.SVME, too.                                                  *)
vmx_load == {"cr", "fixed", "dtr"}
svm_load == {"cr", "fixed", "dtr", "efer"}

load_guest_cpu_state(p) ==
    /\ pc[p] = "leave"
    /\ phys' = [phys EXCEPT ![p] =
                   Load(save[p], IF Vendor = "intel" THEN vmx_load ELSE svm_load, @)]
    /\ SetFlags(p, [flags[p] EXCEPT !.svme = FALSE])
    /\ Goto(p, "loaded")
    /\ UNCHANGED <<machine, save, host, saved, ids, phase, visited, mine, writes>>

(* VMCLEAR needs VMX operation.                                            *)
vmx_deactivate(p) ==
    /\ pc[p] = "loaded" /\ Vendor = "intel"
    /\ IF ~flags[p].vmxon
         THEN Fault(p)
         ELSE /\ SetFlags(p, [flags[p] EXCEPT !.vmcs = FALSE])
              /\ Goto(p, "inactive")
              /\ UNCHANGED <<machine, phys, save, host, saved, ids, phase, visited, mine, writes>>

svm_deactivate(p) ==
    /\ pc[p] = "loaded" /\ Vendor = "amd"
    /\ SetFlags(p, [flags[p] EXCEPT !.hsave = FALSE])
    /\ Goto(p, "inactive")
    /\ UNCHANGED <<machine, phys, save, host, saved, ids, phase, visited, mine, writes>>

(* VMXOFF, and no more: CR0 and CR4 stay as load_guest_cpu_state() left    *)
(* them, with the bits that enable() set.                                  *)
vmx_disable(p) ==
    /\ pc[p] = "inactive" /\ Vendor = "intel"
    /\ IF ~flags[p].vmxon
         THEN Fault(p)
         ELSE /\ SetFlags(p, [flags[p] EXCEPT !.vmxon = FALSE])
              /\ Goto(p, "disabled")
              /\ UNCHANGED <<machine, phys, save, host, saved, ids, phase, visited, mine, writes>>

(* EFER is what enable() found, not what the guest has made of it since.   *)
svm_disable(p) ==
    /\ pc[p] = "inactive" /\ Vendor = "amd"
    /\ SetFlags(p, [flags[p] EXCEPT !.svme = FALSE])
    /\ phys' = [phys EXCEPT ![p]["efer"] = saved[p].efer]
    /\ Goto(p, "disabled")
    /\ UNCHANGED <<machine, save, host, saved, ids, phase, visited, mine, writes>>

(* Registers::restore(): the guest's context goes on, no longer a guest.   *)
restore(p) ==
    /\ pc[p] = "disabled"
    /\ Goto(p, "native")
    /\ visited' = visited \cup {p}
    /\ UNCHANGED <<machine, phys, save, host, flags, saved, ids, phase, mine, writes>>

-----------------------------------------------------------------------------
Hypervisor(p) ==
    \/ EnterOrReturn(p)
    \/ vmx_enable(p) \/ svm_enable(p)
    \/ new_guest(p)
    \/ activate(p)
    \/ vmx_initialize(p) \/ svm_initialize(p)
    \/ VmEntry(p)
    \/ load_guest_cpu_state(p)
    \/ vmx_deactivate(p) \/ svm_deactivate(p)
    \/ vmx_disable(p) \/ svm_disable(p)
    \/ restore(p)

Callback(p) == apic_id_init(p) \/ capture_current(p) \/ hypercall_devirtualize(p)

Platform ==
    \/ NextPhase("loaded", "virtualizing")
    \/ NextPhase("virtualizing", "running")
    \/ devirtualize_system
    \/ NextPhase("devirtualizing", "unloaded")

Next ==
    \/ Platform
    \/ \E p \in Processors :
          \/ Callback(p)
          \/ Hypervisor(p)
          \/ OtherExit(p)
          \/ \E r \in Regs : SystemWrites(p, r)

Spec == Init /\ [][Next]_vars

(* Code that can run runs; the guest reaches its next hypercall however    *)
(* often it exits before; the driver is unloaded some day.                 *)
FairSpec ==
    /\ Spec
    /\ SF_vars(Platform)
    /\ \A p \in Processors : WF_vars(Hypervisor(p)) /\ SF_vars(Callback(p))

-----------------------------------------------------------------------------
(* Firmware may have locked IA32_FEATURE_CONTROL with VMX off.             *)
VmxLockedOut == Vendor = "intel" /\ machine.featureControl = "off"

(* Local APIC ids that differ only above their 8 lowest bits.              *)
DuplicateIds == \E p, q \in Processors : p # q /\ machine.apicIds[p] = machine.apicIds[q]

(* No step meets a processor that is not ready for it: VMXON once, VMCLEAR *)
(* and VMPTRLD between VMXON and VMXOFF, VM entry only with a current VMCS *)
(* or a host save area, the hypercall only in a guest, and every processor *)
(* finds its id in the map.  Only VMXON on a machine whose firmware has    *)
(* locked VMX out faults, and only ids that are not unique stop init().    *)
NoFault ==
    \A p \in Processors :
        (pc[p] = "fault" => VmxLockedOut) /\ (pc[p] = "panic" => DuplicateIds)

(* What a guest is to find: its own values, but for the bits VMX fixes.    *)
Expected(p) == IF flags[p].vmxon THEN [mine[p] EXCEPT !["fixed"] = Adjusted] ELSE mine[p]

(* A guest always finds its own values in the system registers, through    *)
(* any number of exits and re-entries; in VMX operation, with the bits of  *)
(* CR0 and CR4 that VMX fixes as enable() adjusted them.                   *)
GuestKeepsItsRegisters ==
    \A p \in Processors : pc[p] \in {"guest", "recheck"} => phys[p] = Expected(p)

(* When the hypervisor has left a processor, its control registers (but    *)
(* for the bits VMX fixes), its descriptor tables and segment bases are    *)
(* what the guest made them.                                               *)
TablesSurvive ==
    \A p \in Processors, r \in {"cr", "dtr"} : pc[p] = "native" => phys[p][r] = mine[p][r]

(* load_guest_cpu_state(): "Loads guest system register values into the    *)
(* physical processor before leaving VMX root operation" (host.rs): all    *)
(* that a VM exit took away is given back.  The bits VMX fixes are not     *)
(* among that: the guest had them as they are.                             *)
RegistersSurvive ==
    \A p \in Processors, r \in Regs \ {"fixed"} : pc[p] = "native" => phys[p][r] = mine[p][r]

(* virtualize_system() returns with every processor a guest, each under an *)
(* id of its own; devirtualize_system() returns with none a guest, outside *)
(* of VMX operation or SVM, and with no VMCS or host save area in use.     *)
AllOrNone ==
    /\ phase = "running" =>
         /\ \A p \in Processors : pc[p] \in {"guest", "exit"}
         /\ \A p, q \in Processors : p # q => ids[p] # ids[q]
    /\ phase = "unloaded" =>
         \A p \in Processors :
             /\ pc[p] = "native"
             /\ ~flags[p].vmxon /\ ~flags[p].vmcs /\ ~flags[p].svme /\ ~flags[p].hsave

(* Virtualization of the system completes, and so does devirtualization.   *)
VirtualizationCompletes ==
    ~VmxLockedOut /\ ~DuplicateIds => <>(phase = "running") /\ (~OwnHostData => <>(phase = "unloaded"))
=============================================================================
