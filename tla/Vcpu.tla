-------------------------------- MODULE Vcpu --------------------------------
(***************************************************************************)
(* One virtual processor: Guest::run(), the assembly stubs that enter and  *)
(* leave the guest, and the handlers of VM exits, on both vendors.         *)
(*                                                                         *)
(* The guest's registers travel between the processor, self.registers and  *)
(* the VMCS or VMCB.  Those that are moved alike are one: "other" is RBP,  *)
(* RSI, RDI and R8 to R15, "xmm" XMM0 to XMM5, "seg" the segments but CS   *)
(* and SS, the descriptor tables and the control registers.  A value is a  *)
(* double word of two halves below Half.                                   *)
(***************************************************************************)
EXTENDS Integers

CONSTANTS Half,        \* 2^32
          ValidXcr0,   \* the values Xcr0::from_bits() accepts
          Vectors,     \* startup vectors
          MaxWrites,   \* bound: register writes by the guest
          MaxExits     \* bound: VM exits

(* The bounds are small enough for nothing to wrap around.                 *)
ASSUME ValueAssumption ==
    /\ Half \in Nat /\ Half > 8 /\ MaxWrites \in Nat /\ MaxWrites < Half - 1
    /\ MaxExits \in Nat /\ MaxExits < Half
    /\ Vectors \subseteq 0 .. (Half - 1)

Values == 0 .. (Half * Half - 1)
Low(v) == v % Half
PairUnmasked(high, low) == high * Half + low
Pair(high, low) == Low(high) * Half + Low(low)

Gpr == {"rax", "rbx", "rcx", "rdx", "other"}
Xmm == {"xmm"}
Frame == {"rip", "rsp", "rflags"}
Sys == {"cs", "ss", "seg"}
Regs == Gpr \cup Xmm \cup Frame \cup Sys

InRegisters == Gpr \cup Xmm \cup Frame       \* struct Registers

(* What VmxGuest::run() and SvmGuest::run() copy, in and out.              *)
VmxCopied == Frame
SvmCopied == Frame \cup {"rax"}

VARIABLES
    vendor,      \* "intel" or "amd"; neither this nor the next changes
    bsp,         \* it is the bootstrap processor, which gets no INIT
    pc,          \* the guest runs, or the hypervisor and where
    cpu,         \* the guest's registers, while it runs
    registers,   \* self.registers
    vmcs,        \* the guest state in the VMCS or VMCB
    cached,      \* AMD: what the processor still holds of the VMCB's state
    clean,       \* AMD: VMCB clean bits
    launched,    \* Intel: the VMCS was launched
    activity,    \* "active" or "wait_for_sipi"
    msr,         \* an MSR outside of the MSR bitmaps
    xcr0,
    reason,      \* why the guest exited
    vector,      \* of the SIPI that ends the wait
    expect,      \* history: the registers and MSRs as the architecture has them
    started,     \* history: the vector it last started from
    writes, exits

vars == <<vendor, bsp, pc, cpu, registers, vmcs, cached, clean, launched, activity, msr, xcr0,
          reason, vector, expect, started, writes, exits>>

machine == <<vendor, bsp>>

Copied == IF vendor = "intel" THEN VmxCopied ELSE SvmCopied
InVmcs == Sys \cup Copied

Instructions == IF vendor = "intel" THEN {"cpuid", "vmcall", "rdmsr", "wrmsr", "xsetbv"}
                                    ELSE {"cpuid", "vmcall", "npf"}
NoVector == Half

TypeOK ==
    /\ vendor \in {"intel", "amd"} /\ bsp \in BOOLEAN
    /\ pc \in {"run", "entry", "guest", "handle", "init", "sipi", "native", "panic"}
    /\ cpu \in [Regs -> Values]
    /\ registers \in [InRegisters -> Values]
    /\ vmcs \in [InVmcs -> Values] /\ cached \in [InVmcs -> Values]
    /\ clean \in BOOLEAN /\ launched \in BOOLEAN
    /\ activity \in {"active", "wait_for_sipi"}
    /\ msr \in Values /\ xcr0 \in Values
    /\ reason \in Instructions \cup {"none", "init", "sipi", "unhandled"}
    /\ vector \in Vectors \cup {NoVector} /\ started \in Vectors \cup {NoVector}
    /\ expect \in [cpu : [Regs -> Values], msr : Values, xcr0 : Values]
    /\ writes \in 0 .. MaxWrites /\ exits \in 0 .. MaxExits

(* After Guest::initialize(): the guest goes on from the snapshot.         *)
Init ==
    /\ vendor \in {"intel", "amd"} /\ bsp \in BOOLEAN
    /\ pc = "run"
    /\ cpu = [r \in Regs |-> 0]
    /\ registers = [r \in InRegisters |-> 0]
    /\ vmcs = [r \in InVmcs |-> 0] /\ cached = [r \in InVmcs |-> 0]
    /\ clean = FALSE /\ launched = FALSE
    /\ activity = "active"
    /\ msr = 0 /\ xcr0 = 1
    /\ reason = "none"
    /\ vector = NoVector /\ started = NoVector
    /\ expect = [cpu |-> [r \in Regs |-> 0], msr |-> 0, xcr0 |-> 1]
    /\ writes = 0 /\ exits = 0

Take(f, S, g) == [r \in DOMAIN f |-> IF r \in S THEN g[r] ELSE f[r]]

-----------------------------------------------------------------------------
(* run(), up to the guest.                                                 *)

run ==
    /\ pc = "run"
    /\ vmcs' = Take(vmcs, Copied, registers)
    /\ pc' = "entry"
    /\ UNCHANGED <<machine, cpu, registers, cached, clean, launched, activity, msr, xcr0, reason,
                   vector, expect, started, writes, exits>>

Enter(state) ==
    /\ pc = "entry"
    /\ cpu' = [r \in Regs |-> IF r \in InVmcs THEN state[r] ELSE registers[r]]
    /\ pc' = "guest"
    /\ UNCHANGED <<machine, registers, vmcs, cached, clean, activity, msr, xcr0, reason, vector,
                   expect, started, writes, exits>>

(* VMRESUME; when that fails with error 5, the host RSP and RIP are set    *)
(* and VMLAUNCH executed.                                                  *)
run_vmx_guest == vendor = "intel" /\ Enter(vmcs) /\ launched' = TRUE

(* VMLOAD and VMRUN: a field that is marked clean comes from the cache.    *)
run_svm_guest ==
    /\ vendor = "amd"
    /\ Enter(IF clean THEN Take(vmcs, Sys, cached) ELSE vmcs)
    /\ UNCHANGED launched

-----------------------------------------------------------------------------
(* The guest.                                                              *)

(* Any register but the instruction pointer, with one half used or both.   *)
GuestWrites(r, high) ==
    LET v == Pair(IF high THEN writes + 1 ELSE 0, writes + 1)
    IN  /\ pc = "guest" /\ activity = "active"
        /\ r # "rip"
        /\ writes < MaxWrites
        /\ writes' = writes + 1
        /\ cpu' = [cpu EXCEPT ![r] = v]
        /\ expect' = [expect EXCEPT !.cpu[r] = v]
        /\ UNCHANGED <<machine, pc, registers, vmcs, cached, clean, launched, activity, msr, xcr0,
                       reason, vector, started, exits>>

Devirtualize == 0                    \* hypercall::DEVIRTUALIZE
UnknownCall == Half * Half - 1       \* u64::MAX
InstructionLength == 1

(* CPUID: the leaf is the lower half of RAX, 2 is the hypervisor's vendor  *)
(* leaf and 3 its interface leaf.  VT-x is bit 0 of RCX here.              *)
Cpuid(leaf, r) ==
    LET hardware == [rax |-> 2, rbx |-> 3, rcx |-> 5, rdx |-> 6]
        our_name == [rax |-> 2, rbx |-> 7, rcx |-> 7, rdx |-> 7]
    IN  CASE leaf = 1 /\ r = "rcx" -> hardware[r] - 1
          [] leaf = 2 -> our_name[r]
          [] leaf = 3 /\ r = "rax" -> 0
          [] OTHER -> hardware[r]

Advance(f) == [f EXCEPT !["rip"] = @ + InstructionLength]

(* What an instruction that exits is to do to the guest's registers.       *)
Result(i, f, m) ==
    LET leaf == Low(f["rax"])
        next == Advance(f)
    IN  CASE i = "cpuid" -> [r \in DOMAIN f |-> IF r \in {"rax", "rbx", "rcx", "rdx"}
                                                  THEN Cpuid(leaf, r) ELSE next[r]]
          [] i = "rdmsr" -> [next EXCEPT !["rax"] = Low(m), !["rdx"] = m \div Half]
          [] i = "vmcall" -> IF f["rax"] = Devirtualize THEN next
                                                        ELSE [next EXCEPT !["rax"] = UnknownCall]
          [] OTHER -> next

ToWrite(f) == Pair(f["rdx"], f["rax"])

(* The exit: the VMCS or VMCB gets its part, the stub saves the rest, and  *)
(* run() copies what struct Registers has too.                             *)
Leave(why) ==
    /\ exits < MaxExits
    /\ exits' = exits + 1
    /\ reason' = why
    /\ vmcs' = Take(vmcs, InVmcs, cpu)
    /\ cached' = Take(cached, InVmcs, cpu)
    /\ registers' = Take(registers, InRegisters, cpu)
    /\ clean' = (vendor = "amd")

Executes(i) ==
    /\ pc = "guest" /\ activity = "active"
    /\ Leave(i)
    /\ pc' = "handle"
    /\ expect' = [cpu |-> Result(i, cpu, msr),
                  msr |-> IF i = "wrmsr" THEN ToWrite(cpu) ELSE expect.msr,
                  xcr0 |-> IF i = "xsetbv" THEN ToWrite(cpu) ELSE expect.xcr0]
    /\ UNCHANGED <<machine, cpu, launched, activity, msr, xcr0, vector, started, writes>>

(* An exit that run() has no case for.                                     *)
Unhandled ==
    /\ pc = "guest" /\ activity = "active"
    /\ Leave("unhandled")
    /\ pc' = "panic"
    /\ UNCHANGED <<machine, cpu, launched, activity, msr, xcr0, vector, expect, started, writes>>

ResetRip == 4                        \* 0xfff0
ResetCs == 5                         \* 0xf000
ResetFlags == 2                      \* FLAGS_A1
ModelId == 6                         \* RDX after INIT

Reset == [r \in Regs |-> CASE r = "rip" -> ResetRip [] r = "cs" -> ResetCs
                           [] r = "rflags" -> ResetFlags [] r = "rdx" -> ModelId
                           [] OTHER -> 0]

(* INIT leaves the XMM registers alone.                                    *)
ResetOf(f) == Take(f, Regs \ Xmm, Reset)

(* INIT arrives: VM exit 3, or #SX.  It is blocked in the wait state.      *)
InitArrives ==
    /\ pc = "guest" /\ activity = "active" /\ ~bsp
    /\ Leave("init")
    /\ pc' = "init"
    /\ expect' = [expect EXCEPT !.cpu = ResetOf(@)]
    /\ UNCHANGED <<machine, cpu, launched, activity, msr, xcr0, vector, started, writes>>

Start(f, v) == [f EXCEPT !["rip"] = 0, !["cs"] = v]

(* A SIPI ends the wait-for-SIPI state: on Intel a VM exit, on AMD         *)
(* wait_for_sipi() returns.  In another state it is discarded.             *)
SipiArrives(v) ==
    /\ activity = "wait_for_sipi" /\ vector = NoVector
    /\ vector' = v
    /\ expect' = [expect EXCEPT !.cpu = Start(@, v)]
    /\ IF vendor = "intel"
         THEN pc = "guest" /\ Leave("sipi") /\ pc' = "sipi"
         ELSE pc = "sipi" /\ UNCHANGED <<pc, exits, reason, vmcs, cached, registers, clean>>
    /\ UNCHANGED <<machine, cpu, launched, activity, msr, xcr0, started, writes>>

-----------------------------------------------------------------------------
(* The handlers of virtualize_core()'s loop.                               *)

Handled(r) ==
    /\ registers' = r
    /\ pc' = "run"
    /\ reason' = "none"
    /\ UNCHANGED <<machine, cpu, vmcs, cached, clean, launched, activity, vector, expect, started,
                   writes, exits>>

handle_cpuid ==
    /\ pc = "handle" /\ reason = "cpuid"
    /\ Handled([r \in InRegisters |-> IF r \in {"rax", "rbx", "rcx", "rdx"}
                                      THEN Cpuid(Low(registers["rax"]), r)
                                      ELSE Advance(registers)[r]])
    /\ UNCHANGED <<msr, xcr0>>

handle_rdmsr ==
    /\ pc = "handle" /\ reason = "rdmsr"
    /\ Handled([Advance(registers) EXCEPT !["rax"] = Low(msr), !["rdx"] = msr \div Half])
    /\ UNCHANGED <<msr, xcr0>>

handle_wrmsr ==
    /\ pc = "handle" /\ reason = "wrmsr"
    /\ Handled(Advance(registers))
    /\ msr' = ToWrite(registers)
    /\ UNCHANGED xcr0

handle_xsetbv ==
    /\ pc = "handle" /\ reason = "xsetbv"
    /\ IF ToWrite(registers) \in ValidXcr0
         THEN Handled(Advance(registers)) /\ xcr0' = ToWrite(registers)
         ELSE /\ pc' = "panic"
              /\ UNCHANGED <<machine, cpu, registers, vmcs, cached, clean, launched, activity, xcr0,
                             reason, vector, expect, started, writes, exits>>
    /\ UNCHANGED msr

handle_vmcall ==
    /\ pc = "handle" /\ reason = "vmcall"
    /\ registers["rax"] # Devirtualize
    /\ Handled([Advance(registers) EXCEPT !["rax"] = UnknownCall])
    /\ UNCHANGED <<msr, xcr0>>

(* restore() loads struct Registers; the other registers are the subject   *)
(* of module Lifecycle.                                                    *)
devirtualize_processor ==
    /\ pc = "handle" /\ reason = "vmcall"
    /\ registers["rax"] = Devirtualize
    /\ registers' = Advance(registers)
    /\ cpu' = Take(cpu, InRegisters, registers')
    /\ pc' = "native"
    /\ UNCHANGED <<machine, vmcs, cached, clean, launched, activity, msr, xcr0, reason, vector,
                   expect, started, writes, exits>>

(* The instruction is skipped; what it stores is module SvmSipi's subject. *)
handle_nested_page_fault ==
    /\ pc = "handle" /\ reason = "npf"
    /\ Handled(Advance(registers))
    /\ UNCHANGED <<msr, xcr0>>

-----------------------------------------------------------------------------
(* INIT and SIPI.                                                          *)

VmxInit ==
    /\ vmcs' = Take(vmcs, InVmcs, Reset)
    /\ registers' = Take(registers, InRegisters \ Xmm, Reset)

SvmInitLeavingClean ==
    /\ vmcs' = Take(vmcs, InVmcs \ {"ss", "rax"}, Reset)
    /\ registers' = Take(registers, Gpr, Reset)
    /\ UNCHANGED clean

(* RFLAGS and RSP are reset in the VMCB but not in self.registers, and SS  *)
(* nowhere.                                                                *)
SvmInit ==
    /\ vmcs' = Take(vmcs, InVmcs \ {"ss", "rax"}, Reset)
    /\ registers' = Take(registers, Gpr, Reset)
    /\ clean' = FALSE

handle_init_signal ==
    /\ pc = "init"
    /\ \/ vendor = "intel" /\ VmxInit /\ pc' = "run" /\ UNCHANGED clean
       \/ vendor = "amd" /\ SvmInit /\ pc' = "sipi"
    /\ activity' = "wait_for_sipi"
    /\ started' = NoVector
    /\ UNCHANGED <<machine, cpu, cached, launched, msr, xcr0, reason, vector, expect, writes, exits>>

handle_sipi_without_activity ==
    /\ pc = "sipi" /\ vector # NoVector
    /\ vmcs' = Start(vmcs, vector)
    /\ registers' = [registers EXCEPT !["rip"] = 0]
    /\ started' = vector /\ vector' = NoVector
    /\ pc' = "run"
    /\ UNCHANGED <<machine, cpu, cached, clean, launched, activity, msr, xcr0, reason, expect,
                   writes, exits>>

(* handle_sipi_signal() on Intel, handle_sipi() on AMD.                    *)
handle_sipi ==
    /\ pc = "sipi" /\ vector # NoVector
    /\ vmcs' = Start(vmcs, vector)
    /\ registers' = [registers EXCEPT !["rip"] = 0]
    /\ activity' = "active"
    /\ started' = vector /\ vector' = NoVector
    /\ pc' = "run"
    /\ UNCHANGED <<machine, cpu, cached, clean, launched, msr, xcr0, reason, expect, writes, exits>>

-----------------------------------------------------------------------------
Hypervisor ==
    \/ run \/ run_vmx_guest \/ run_svm_guest
    \/ handle_cpuid \/ handle_rdmsr \/ handle_wrmsr \/ handle_xsetbv
    \/ handle_vmcall \/ devirtualize_processor \/ handle_nested_page_fault
    \/ handle_init_signal \/ handle_sipi

Next ==
    \/ Hypervisor
    \/ \E r \in Regs, high \in BOOLEAN : GuestWrites(r, high)
    \/ \E i \in Instructions : Executes(i)
    \/ Unhandled
    \/ InitArrives
    \/ \E v \in Vectors : SipiArrives(v)

Spec == Init /\ [][Next]_vars

FairSpec == Spec /\ WF_vars(Hypervisor)

-----------------------------------------------------------------------------
Agrees(S) ==
    /\ \A r \in S : cpu[r] = expect.cpu[r]
    /\ msr = expect.msr /\ xcr0 = expect.xcr0

(* handle_init_signal() on AMD leaves these stale.                         *)
StaleAfterInit == IF vendor = "amd" /\ ~bsp THEN {"rsp", "rflags", "ss"} ELSE {}

(* Whenever the guest goes on, or is set free, its registers, the MSR and  *)
(* XCR0 are what the architecture says of the instructions, INITs and      *)
(* SIPIs since: nothing is lost between processor, struct Registers and    *)
(* VMCS or VMCB, over any number of exits.                                 *)
GuestSeesItsOwnState ==
    /\ pc = "guest" => Agrees(Regs \ StaleAfterInit)
    /\ pc = "native" => Agrees(InRegisters \ StaleAfterInit)

(* run() on AMD: `self.registers` "is complete and up to date" after it,   *)
(* so that what INIT does to the guest's registers reaches the guest.      *)
InitReachesEveryRegister == pc = "guest" => Agrees(Regs)

Mode ==
    CASE activity = "wait_for_sipi" /\ vector = NoVector -> "waiting"
      [] activity = "wait_for_sipi" /\ vector # NoVector -> "released"
      [] OTHER -> "running"

(* A processor that waits for SIPI executes nothing, and one that was told *)
(* to start does: the wait-for-SIPI state of the architecture.             *)
Startup ==
    INSTANCE ApStartup WITH
        Aps <- {0},
        mode <- [p \in {0} |-> Mode],
        vector <- [p \in {0} |-> vector],
        start <- [p \in {0} |-> started]

ImplementsWaitForSipi == Startup!ASpec
=============================================================================
