----------------------------- MODULE GuestSetup -----------------------------
(***************************************************************************)
(* How one processor becomes a guest, and what VM entry says to it: the    *)
(* GDT and TSS of the UEFI driver, initialize_control(), initialize_guest()*)
(* and initialize_host() of both vendors, the first VM entry, and INIT and *)
(* the way back to 64-bit mode on an application processor.                *)
(*                                                                         *)
(* The guest's state is copied register by register with interrupts on, so *)
(* each group of reads is an action of its own.  Control words, CR0, CR4   *)
(* are sets of named bits; "ds" stands for DS and ES, and on Intel for FS  *)
(* and GS; an access rights word is the kind of segment it describes.      *)
(***************************************************************************)
EXTENDS Integers

CONSTANTS Machines,    \* inputs: the machines it is loaded on
          Word,        \* 2^16, in which gdtr.limit + 1 is computed
          FourGB,      \* 2^32, what a descriptor's first half can address
          PageSize

ASSUME SizeAssumption ==
    /\ Word \in Nat /\ Word % 8 = 0 /\ Word > 16
    /\ FourGB \in Nat /\ FourGB > 1
    /\ PageSize \in Nat /\ PageSize > 1

-----------------------------------------------------------------------------
(* Segments.                                                               *)

Data == {"cs", "ss", "ds"}
Segs == Data \cup {"tr", "ldtr"}
Kinds == {"null", "code64", "code32", "code16", "data", "ldt", "tss", "busy_tss", "upper"}

(* A descriptor, or the second half of a 16-byte one, which has only a     *)
(* base.  Pages: the granularity bit.                                      *)
Descriptor(kind, base, limit, pages) ==
    [kind |-> kind, base |-> base, limit |-> limit, pages |-> pages]
Null == Descriptor("null", 0, 0, FALSE)

Index(sel) == sel \div 8
InLdt(sel) == (sel \div 4) % 2 = 1
WithoutRpl(sel) == 8 * Index(sel)

(* A GDT is [entries : a function from indices to descriptors, limit].     *)
Slice(gdtr) == ((gdtr.limit + 1) % Word) \div 8

Is16Byte(d) == d.kind \in {"tss", "busy_tss"}

(* try_from_gdtr() and base(), which every caller unwraps.                 *)
TryFromGdtr(gdtr, sel) ==
    LET i == Index(sel)
    IN  /\ ~InLdt(sel) /\ i # 0 /\ i < Slice(gdtr)
        /\ Is16Byte(gdtr.entries[i]) => /\ i + 1 < Slice(gdtr)
                                        /\ gdtr.entries[i + 1].kind \in {"null", "upper"}

BaseWithoutUpper(gdtr, sel) == gdtr.entries[Index(sel)].base

Base(gdtr, sel) ==
    LET d == gdtr.entries[Index(sel)]
    IN  IF Is16Byte(d) THEN d.base + FourGB * gdtr.entries[Index(sel) + 1].base ELSE d.base

Unloaded(sel) == Index(sel) = 0 /\ ~InLdt(sel)

(* access_rights(), on what lar() returns.                                 *)
AccessRights(rights) == IF rights = "failed" THEN "unusable" ELSE rights

get_segment_access_right(gdtr, sel) == gdtr.entries[Index(sel)].kind

get_segment_limit(gdtr, sel) ==
    LET d == gdtr.entries[Index(sel)]
    IN  CASE Unloaded(sel) -> 0
          [] ~Unloaded(sel) /\ d.pages -> (d.limit + 1) * PageSize - 1
          [] OTHER -> d.limit

(* What the processor has loaded for a selector, in either vendor's form.  *)
Loaded(vendor, gdtr, sel) ==
    LET d == gdtr.entries[Index(sel)]
    IN  [sel |-> sel,
         rights |-> IF Unloaded(sel) /\ vendor = "intel" THEN "unusable" ELSE d.kind,
         limit |-> IF Unloaded(sel) THEN 0 ELSE (d.limit + 1) * (IF d.pages THEN PageSize ELSE 1) - 1]

(* LAR and LSL: they fail on a null selector.                              *)
Lar(gdtr, sel) == IF Unloaded(sel) THEN "failed" ELSE gdtr.entries[Index(sel)].kind
Lsl(gdtr, sel) == Loaded("intel", gdtr, sel).limit

-----------------------------------------------------------------------------
(* The VMX capabilities.                                                   *)

Words == {"pin", "primary", "secondary", "exit", "entry"}

InstructionControls == {"rdtscp", "invpcid", "xsaves", "user_wait_pause"}

Requested ==
    [w \in Words |->
        CASE w = "pin" -> {}
          [] w = "primary" -> {"msr_bitmaps", "secondary", "bit18"}
          [] w = "secondary" -> {"ept", "unrestricted_guest"} \cup InstructionControls
          [] w = "exit" -> {"host_address_space_size"}
          [] w = "entry" -> {"ia32e_mode_guest"}]

(* The bits that must be 1: fewer in the TRUE capability MSRs, where the   *)
(* processor has them.  There is none for the secondary controls.          *)
Must(m, w) ==
    CASE w = "secondary" -> {}
      [] w = "primary" -> {"default1"} \cup (IF m.trueMsrs THEN {} ELSE {"cr3_load_exiting"})
      [] OTHER -> {"default1"}

(* No processor has a control in bit 18 of the primary word.               *)
May(m, w) ==
    Must(m, w) \cup CASE w = "primary" -> {"msr_bitmaps", "secondary", "cr3_load_exiting"}
                      [] w = "secondary" -> m.secondary
                      [] w = "exit" -> {"host_address_space_size"}
                      [] w = "entry" -> {"ia32e_mode_guest"}
                      [] OTHER -> {}

adjust_vmx_control(m, w) == (Requested[w] \cup Must(m, w)) \cap May(m, w)

(* IA32_VMX_CR0_FIXED0 and so on.                                          *)
Cr0Fixed0 == {"PE", "NE", "PG"}
Cr0Fixed1 == {"PE", "ET", "NE", "PG"}
Cr4Fixed0 == {"VMXE"}
Cr4Fixed1 == {"PAE", "VMXE"}

get_adjusted_cr0(cr0) == (cr0 \cap Cr0Fixed1) \cup Cr0Fixed0
get_adjusted_cr4(cr4) == (cr4 \cap Cr4Fixed1) \cup Cr4Fixed0

AdjustedAsIfRestricted(cr0, secondary) == get_adjusted_cr0(cr0)

get_adjusted_guest_cr0(cr0, secondary) ==
    IF "unrestricted_guest" \in secondary
      THEN (get_adjusted_cr0(cr0) \ {"PE", "PG"}) \cup (cr0 \cap {"PE", "PG"})
      ELSE get_adjusted_cr0(cr0)

-----------------------------------------------------------------------------
(* A machine whose GDT and registers are as 64-bit code in ring 0 has them *)
(* before the driver loads: selectors lead to descriptors of their kind.   *)
Size(g) == (g.limit + 1) \div 8

GdtOk(g) ==
    /\ g.limit \in 0 .. (Word - 1) /\ (g.limit + 1) % 8 = 0
    /\ g.entries \in [0 .. (Size(g) - 1) ->
                        [kind : Kinds, base : Nat, limit : Nat, pages : BOOLEAN]]

SelectorOk(g, s, sel) ==
    LET i == Index(sel)
    IN  /\ sel \in Nat /\ ~InLdt(sel) /\ i < Size(g)
        /\ s = "cs" => i # 0 /\ g.entries[i].kind = "code64"
        /\ s \in {"ss", "ds"} => i = 0 \/ g.entries[i].kind = "data"
        /\ s = "tr" /\ sel # 0 => /\ i # 0 /\ i + 1 < Size(g)
                                  /\ g.entries[i].kind = "busy_tss"
                                  /\ g.entries[i + 1].kind \in {"null", "upper"}

(* Where the processor finds a TSS: both halves of the descriptor.         *)
TssAddress(g, i) == g.entries[i].base + FourGB * g.entries[i + 1].base

ASSUME MachineAssumption ==
    \A x \in Machines :
        /\ x.vendor \in {"intel", "amd"} /\ x.platform \in {"uefi", "windows"}
        /\ GdtOk(x.gdtr)
        /\ \A s \in Segs : SelectorOk(x.gdtr, s, x.sel[s])
        /\ \A ss \in x.stacks : SelectorOk(x.gdtr, "ss", ss)
        /\ x.platform = "windows" => x.sel["tr"] # 0
        /\ x.tss \in Nat /\ (x.sel["tr"] # 0 => TssAddress(x.gdtr, Index(x.sel["tr"])) = x.tss)
        /\ {"PE", "PG"} \subseteq x.cr0 /\ x.cr0 \subseteq Cr0Fixed1
        /\ "PAE" \in x.cr4 /\ x.cr4 \subseteq Cr4Fixed1

-----------------------------------------------------------------------------
VARIABLES
    m,            \* the machine; it does not change
    pc,           \* where the processor is
    cpu,          \* its registers: the host's while it sets up, then the guest's
    gdtr,         \* the GDT it uses, and
    idt,          \* whose IDT
    hostGdt,      \* SHARED_HOST_DATA's GDT for this processor, and its TR
    vmcs,         \* the VMCS or VMCB
    activity,     \* "active" or "wait_for_sipi"
    expect,       \* history: the guest's registers as the architecture has them
    interrupted,  \* history: an interrupt came after the snapshot
    resets        \* history: it took INIT

vars == <<m, pc, cpu, gdtr, idt, hostGdt, vmcs, activity, expect, interrupted, resets>>

Intel == m.vendor = "intel"
Uefi == m.platform = "uefi"

Goto(l) == pc' = l
Fail == pc' = "panic"

(* How the host stops for ever: an assertion or unwrap() of the set-up, or *)
(* one of the panics that run() and the host's interrupt handlers have.    *)
Panics == {"panic", "entry_failed", "unhandled_exit", "unexpected_interrupt"}

NoSegment == [sel |-> 0, rights |-> "unusable", limit |-> 0]
NoGdt == [entries |-> <<>>, limit |-> 0, tr |-> 0]

Native ==
    [seg |-> [s \in Segs |-> Loaded(m.vendor, m.gdtr, m.sel[s])],
     trBase |-> m.tss, cr0 |-> m.cr0, cr4 |-> m.cr4, lma |-> TRUE]

Init ==
    /\ m \in Machines
    /\ pc = "gdt"
    /\ cpu = Native /\ expect = Native
    /\ gdtr = m.gdtr /\ idt = "system" /\ hostGdt = NoGdt
    /\ vmcs = [ctl |-> [w \in Words |-> {}], svm |-> {},
               seg |-> [s \in Segs |-> NoSegment], trBase |-> 0,
               cr0 |-> {}, cr4 |-> {}, lma |-> FALSE,
               host |-> [s \in Data \cup {"tr"} |-> 0]]
    /\ activity = "active"
    /\ interrupted = FALSE /\ resets = FALSE

-----------------------------------------------------------------------------
(* The UEFI driver: a GDT with a TSS for each Intel processor, then the    *)
(* host's copy of it.                                                      *)

new_from_current(g, tr) ==
    [entries |-> [i \in 0 .. (Slice(g) - 1) |-> g.entries[i]], limit |-> 8 * Slice(g) - 1, tr |-> tr]

(* The TSS goes behind the last entry; its upper half is pushed as 0.      *)
append_tss(g, tss) ==
    LET n == (g.limit + 1) \div 8
    IN  IF g.tr # 0 THEN g
        ELSE [entries |-> [i \in 0 .. (n + 1) |->
                             CASE i < n -> g.entries[i]
                               [] i = n -> Descriptor("tss", tss % FourGB, 0, FALSE)
                               [] OTHER -> Descriptor("upper", 0, 0, FALSE)],
              limit |-> 8 * (n + 2) - 1,
              tr |-> 8 * n]

FitsAlways(g) == TRUE

(* new_from_slice() asserts that the table fits into a limit of 16 bits.   *)
Fits(g) == 0 <= g.limit /\ g.limit < Word

(* LTR faults on a null selector and marks the TSS busy.                   *)
Ltr(g) == [g EXCEPT !.entries[Index(g.tr)].kind = "busy_tss"]

UpdateGdt ==
    LET g == append_tss(new_from_current(gdtr, cpu.seg["tr"].sel), m.tss)
    IN  /\ pc = "gdt"
        /\ IF ~(Intel /\ Uefi) THEN Goto("host_data") /\ UNCHANGED <<cpu, gdtr>>
           ELSE IF cpu.seg["tr"].sel # 0 \/ g.tr = 0 \/ ~Fits(g)
             THEN Fail /\ UNCHANGED <<cpu, gdtr>>
           ELSE /\ gdtr' = Ltr(g)
                /\ cpu' = [cpu EXCEPT !.seg["tr"] = Loaded(m.vendor, gdtr', g.tr),
                                      !.trBase = Base(g, g.tr)]
                /\ Goto("host_data")
        /\ UNCHANGED <<m, idt, hostGdt, vmcs, activity, expect, interrupted, resets>>

create_shared_host_data ==
    LET tr == cpu.seg["tr"].sel
    IN  /\ pc = "host_data"
        /\ IF Uefi /\ tr # 0 /\ ~TryFromGdtr(gdtr, tr)
             THEN Fail /\ UNCHANGED hostGdt
             ELSE /\ hostGdt' = IF Uefi THEN new_from_current(gdtr, tr) ELSE NoGdt
                  /\ Goto("snapshot")
        /\ UNCHANGED <<m, cpu, gdtr, idt, vmcs, activity, expect, interrupted, resets>>

-----------------------------------------------------------------------------
(* virtualize_core(), up to the loop.                                      *)

(* Registers::capture_current(): from here on the guest's state is fixed.  *)
Snapshot ==
    /\ pc = "snapshot"
    /\ expect' = cpu
    /\ Goto("enable")
    /\ UNCHANGED <<m, cpu, gdtr, idt, hostGdt, vmcs, activity, interrupted, resets>>

enable ==
    /\ pc = "enable"
    /\ cpu' = IF Intel THEN [cpu EXCEPT !.cr0 = get_adjusted_cr0(@), !.cr4 = get_adjusted_cr4(@)]
                       ELSE cpu
    /\ Goto("control")
    /\ UNCHANGED <<m, gdtr, idt, hostGdt, vmcs, activity, expect, interrupted, resets>>

SvmControls == {"intercept_cpuid", "intercept_vmrun", "intercept_vmmcall", "intercept_sx", "asid", "np"}

initialize_control ==
    /\ pc = "control"
    /\ vmcs' = IF Intel THEN [vmcs EXCEPT !.ctl = [w \in Words |-> adjust_vmx_control(m, w)]]
                        ELSE [vmcs EXCEPT !.svm = SvmControls]
    /\ Goto("selectors")
    /\ UNCHANGED <<m, cpu, gdtr, idt, hostGdt, activity, expect, interrupted, resets>>

SetUp(from, to, v) ==
    /\ pc = from
    /\ vmcs' = v
    /\ Goto(to)
    /\ UNCHANGED <<m, cpu, gdtr, idt, hostGdt, activity, expect, interrupted, resets>>

Copied == IF Intel THEN Data \cup {"tr", "ldtr"} ELSE Data

(* initialize_guest(): the selectors, then their limits and rights, read   *)
(* anew from the segment registers each time.                              *)
Selectors ==
    SetUp("selectors", IF Intel THEN "limits" ELSE "rights",
          [vmcs EXCEPT !.seg = [s \in Segs |-> IF s \in Copied THEN [@[s] EXCEPT !.sel = cpu.seg[s].sel]
                                                               ELSE @[s]]])

Limits ==
    SetUp("limits", IF Intel THEN "rights" ELSE "bases",
          [vmcs EXCEPT !.seg =
             [s \in Segs |->
                IF s \in Copied \ {"ldtr"}
                  THEN [@[s] EXCEPT !.limit = IF Intel THEN Lsl(gdtr, cpu.seg[s].sel)
                                              ELSE get_segment_limit(gdtr, cpu.seg[s].sel)]
                  ELSE @[s]]])

(* The LDT is unusable to the guest, whatever LDTR was.                    *)
Rights ==
    SetUp("rights", IF Intel THEN "bases" ELSE "limits",
          [vmcs EXCEPT !.seg =
             [s \in Segs |->
                CASE s \notin Copied -> @[s]
                  [] s \in Copied \cap {"ldtr"} -> [@[s] EXCEPT !.rights = AccessRights("failed")]
                  [] OTHER -> [@[s] EXCEPT !.rights =
                                 IF Intel THEN AccessRights(Lar(gdtr, cpu.seg[s].sel))
                                          ELSE get_segment_access_right(gdtr, cpu.seg[s].sel)]]])

(* The rest of initialize_guest(): the TSS on Intel, then CR0 and CR4; on  *)
(* AMD, VMSAVE copies TR, LDTR, FS and GS as the processor has them.       *)
Bases ==
    LET tr == cpu.seg["tr"].sel
    IN  /\ pc = "bases"
        /\ IF Intel /\ ~TryFromGdtr(gdtr, tr)
             THEN Fail /\ UNCHANGED vmcs
             ELSE /\ vmcs' = IF Intel
                               THEN [vmcs EXCEPT !.trBase = Base(gdtr, tr), !.cr0 = cpu.cr0, !.cr4 = cpu.cr4]
                               ELSE [vmcs EXCEPT !.trBase = cpu.trBase, !.cr0 = cpu.cr0, !.cr4 = cpu.cr4,
                                                 !.lma = cpu.lma,
                                                 !.seg["tr"] = cpu.seg["tr"],
                                                 !.seg["ldtr"] = cpu.seg["ldtr"]]
                  /\ Goto("host")
        /\ UNCHANGED <<m, cpu, gdtr, idt, hostGdt, activity, expect, interrupted, resets>>

HostSelectors ==
    LET tr == IF Uefi THEN hostGdt.tr ELSE cpu.seg["tr"].sel
    IN  [s \in Data \cup {"tr"} |-> WithoutRpl(IF s = "tr" THEN tr ELSE cpu.seg[s].sel)]

(* initialize_host() on Intel fills in the VMCS.                           *)
VmxHost ==
    /\ Intel
    /\ IF ~Uefi /\ ~TryFromGdtr(gdtr, cpu.seg["tr"].sel)
         THEN pc = "host" /\ Fail
              /\ UNCHANGED <<m, cpu, gdtr, idt, hostGdt, vmcs, activity, expect, interrupted, resets>>
         ELSE SetUp("host", "start", [vmcs EXCEPT !.host = HostSelectors])

(* initialize_host() on AMD loads the tables into the processor: apply()   *)
(* refuses while a TSS is in use.                                          *)
SvmHostGdt ==
    /\ ~Intel
    /\ pc = "host"
    /\ IF ~Uefi THEN Goto("start") /\ UNCHANGED gdtr
       ELSE IF cpu.seg["tr"].sel # 0 \/ ~Fits(hostGdt) THEN Fail /\ UNCHANGED gdtr
       ELSE Goto("lidt") /\ gdtr' = hostGdt
    /\ UNCHANGED <<m, cpu, idt, hostGdt, vmcs, activity, expect, interrupted, resets>>

SvmHostIdt ==
    /\ pc = "lidt"
    /\ idt' = "host"
    /\ Goto("start")
    /\ UNCHANGED <<m, cpu, gdtr, hostGdt, vmcs, activity, expect, interrupted, resets>>

Start ==
    /\ pc = "start"
    /\ Goto("entry")
    /\ UNCHANGED <<m, cpu, gdtr, idt, hostGdt, vmcs, activity, expect, interrupted, resets>>

SettingUp == {"enable", "control", "selectors", "limits", "rights", "bases", "host", "lidt", "start"}

(* main() does not disable interrupts: the line that would is a comment.   *)
(* The system's handler may return with another stack segment; the host's  *)
(* IDT has handlers that panic.                                            *)
Interrupt(ss) ==
    /\ pc \in SettingUp
    /\ m.interrupts
    /\ interrupted' = TRUE
    /\ IF idt = "host" THEN Goto("unexpected_interrupt") /\ UNCHANGED cpu
       ELSE cpu' = [cpu EXCEPT !.seg["ss"] = Loaded(m.vendor, gdtr, ss)] /\ UNCHANGED pc
    /\ UNCHANGED <<m, gdtr, idt, hostGdt, vmcs, activity, expect, resets>>

-----------------------------------------------------------------------------
(* VM entry, as the processor checks it.                                   *)

Unrestricted == "unrestricted_guest" \in vmcs.ctl["secondary"]
Ia32e == "ia32e_mode_guest" \in vmcs.ctl["entry"]

ControlsOk == \A w \in Words : Must(m, w) \subseteq vmcs.ctl[w] /\ vmcs.ctl[w] \subseteq May(m, w)

HostOk ==
    /\ "host_address_space_size" \in vmcs.ctl["exit"]
    /\ \A s \in DOMAIN vmcs.host : vmcs.host[s] % 8 = 0
    /\ vmcs.host["cs"] # 0 /\ vmcs.host["tr"] # 0

Cr0Ok ==
    LET free == IF Unrestricted THEN {"PE", "PG"} ELSE {}
    IN  /\ Cr0Fixed0 \ free \subseteq vmcs.cr0 /\ vmcs.cr0 \subseteq Cr0Fixed1
        /\ "PG" \in vmcs.cr0 => "PE" \in vmcs.cr0

GuestOk ==
    /\ Cr0Ok
    /\ Cr4Fixed0 \subseteq vmcs.cr4 /\ vmcs.cr4 \subseteq Cr4Fixed1
    /\ Ia32e => "PG" \in vmcs.cr0 /\ "PAE" \in vmcs.cr4
    /\ vmcs.seg["tr"].rights = "busy_tss"
    /\ vmcs.seg["ldtr"].rights \in {"unusable", "ldt"}
    /\ vmcs.seg["cs"].rights \in {"code64", "code32", "code16"}
    /\ vmcs.seg["cs"].rights = "code64" => Ia32e
    /\ \A s \in {"ss", "ds"} : vmcs.seg[s].rights \in {"unusable", "data"}

VmrunOk ==
    /\ {"intercept_vmrun", "asid"} \subseteq vmcs.svm
    /\ vmcs.lma => {"PE", "PG"} \subseteq vmcs.cr0 /\ "PAE" \in vmcs.cr4

EntryOk == IF Intel THEN ControlsOk /\ HostOk /\ GuestOk ELSE VmrunOk

(* The registers that VM entry loads.                                      *)
Entered ==
    [seg |-> vmcs.seg, trBase |-> vmcs.trBase, cr0 |-> vmcs.cr0, cr4 |-> vmcs.cr4,
     lma |-> IF Intel THEN Ia32e ELSE vmcs.lma]

(* run(): a VM entry that fails panics.                                    *)
Enter ==
    /\ pc = "entry"
    /\ IF EntryOk
         THEN /\ cpu' = Entered
              /\ Goto("guest")
         ELSE Goto("entry_failed") /\ UNCHANGED cpu
    /\ UNCHANGED <<m, gdtr, idt, hostGdt, vmcs, activity, expect, interrupted, resets>>

-----------------------------------------------------------------------------
(* The guest.                                                              *)

(* On exit the guest's state is saved, on Intel with EFER.LMA in the       *)
(* IA-32e mode guest control.                                              *)
Saved ==
    [vmcs EXCEPT !.seg = cpu.seg, !.trBase = cpu.trBase, !.cr0 = cpu.cr0, !.cr4 = cpu.cr4,
                 !.lma = IF Intel THEN @ ELSE cpu.lma,
                 !.ctl["entry"] = IF Intel /\ cpu.lma THEN @ \cup {"ia32e_mode_guest"}
                                                      ELSE @ \ {"ia32e_mode_guest"}]

(* Any exit that is handled and resumed.                                   *)
Exit ==
    /\ pc = "guest" /\ activity = "active"
    /\ vmcs' = Saved
    /\ Goto("entry")
    /\ UNCHANGED <<m, cpu, gdtr, idt, hostGdt, activity, expect, interrupted, resets>>

(* MOV to CR3 exits where the control could not be cleared; run() has no   *)
(* case for it.                                                            *)
MovToCr3 ==
    /\ pc = "guest" /\ activity = "active"
    /\ "cr3_load_exiting" \in vmcs.ctl["primary"]
    /\ Goto("unhandled_exit")
    /\ UNCHANGED <<m, cpu, gdtr, idt, hostGdt, vmcs, activity, expect, interrupted, resets>>

(* The way from real mode to 64-bit mode, one step at a time.              *)
Protected(r) == [r EXCEPT !.cr0 = @ \cup {"PE"}, !.seg["cs"].rights = "code32"]
Paged(r) == [r EXCEPT !.cr0 = @ \cup {"PG"}, !.cr4 = @ \cup {"PAE"}, !.lma = TRUE]
Long(r) == [r EXCEPT !.seg["cs"].rights = "code64"]

GuestChangesMode ==
    /\ pc = "guest" /\ activity = "active"
    /\ \/ /\ "PE" \notin cpu.cr0
          /\ cpu' = Protected(cpu) /\ expect' = Protected(expect)
       \/ /\ "PE" \in cpu.cr0 /\ "PG" \notin cpu.cr0
          /\ cpu' = Paged(cpu) /\ expect' = Paged(expect)
       \/ /\ cpu.lma /\ cpu.seg["cs"].rights = "code32"
          /\ cpu' = Long(cpu) /\ expect' = Long(expect)
    /\ UNCHANGED <<m, pc, gdtr, idt, hostGdt, vmcs, activity, interrupted, resets>>

-----------------------------------------------------------------------------
(* INIT and SIPI on an application processor.                              *)

ResetLimit == Word - 1
ResetCs == 240
Real(sel, rights) == [sel |-> sel, rights |-> rights, limit |-> ResetLimit]

ResetSeg ==
    [s \in Segs |-> CASE s = "cs" -> Real(ResetCs, "code16")
                      [] s \in {"ss", "ds"} -> Real(0, "data")
                      [] s = "ldtr" -> Real(0, "ldt")
                      [] s = "tr" -> Real(0, "busy_tss")]

TakeInit ==
    /\ pc = "guest" /\ activity = "active" /\ m.ap
    /\ vmcs' = Saved
    /\ expect' = [seg |-> ResetSeg, trBase |-> 0, cr0 |-> {"ET"}, cr4 |-> {}, lma |-> FALSE]
    /\ resets' = TRUE
    /\ Goto("init")
    /\ UNCHANGED <<m, cpu, gdtr, idt, hostGdt, activity, interrupted>>

VmxInitInLongMode ==
    [vmcs EXCEPT !.seg = ResetSeg, !.trBase = 0,
                 !.cr0 = get_adjusted_guest_cr0({"ET"}, vmcs.ctl["secondary"]),
                 !.cr4 = get_adjusted_cr4({})]

VmxInit ==
    [vmcs EXCEPT !.seg = ResetSeg, !.trBase = 0,
                 !.cr0 = get_adjusted_guest_cr0({"ET"}, vmcs.ctl["secondary"]),
                 !.cr4 = get_adjusted_cr4({}),
                 !.ctl["entry"] = @ \ {"ia32e_mode_guest"}]

(* SS is not reset on AMD.                                                 *)
SvmInit ==
    [vmcs EXCEPT !.seg = [ResetSeg EXCEPT !["ss"] = vmcs.seg["ss"]], !.trBase = 0,
                 !.cr0 = {"ET"}, !.cr4 = {}, !.lma = FALSE]

(* On Intel the guest is entered in the wait-for-SIPI state, on AMD the    *)
(* host waits.                                                             *)
handle_init_signal ==
    /\ pc = "init"
    /\ vmcs' = IF Intel THEN VmxInit ELSE SvmInit
    /\ activity' = "wait_for_sipi"
    /\ Goto(IF Intel THEN "entry" ELSE "wait")
    /\ UNCHANGED <<m, cpu, gdtr, idt, hostGdt, expect, interrupted, resets>>

SipiCs == 8                      \* vector << 8

handle_sipi ==
    /\ activity = "wait_for_sipi"
    /\ pc = IF Intel THEN "guest" ELSE "wait"
    /\ vmcs' = [(IF Intel THEN Saved ELSE vmcs) EXCEPT !.seg["cs"].sel = SipiCs]
    /\ expect' = [expect EXCEPT !.seg["cs"].sel = SipiCs]
    /\ activity' = "active"
    /\ Goto("entry")
    /\ UNCHANGED <<m, cpu, gdtr, idt, hostGdt, interrupted, resets>>

-----------------------------------------------------------------------------
Host ==
    \/ UpdateGdt \/ create_shared_host_data
    \/ Snapshot \/ enable \/ initialize_control
    \/ Selectors \/ Limits \/ Rights \/ Bases
    \/ VmxHost \/ SvmHostGdt \/ SvmHostIdt \/ Start
    \/ Enter \/ handle_init_signal

Next ==
    \/ Host
    \/ \E ss \in m.stacks : Interrupt(ss)
    \/ Exit \/ MovToCr3 \/ GuestChangesMode
    \/ TakeInit \/ handle_sipi

Spec == Init /\ [][Next]_vars

-----------------------------------------------------------------------------
Segment == [sel : Nat, rights : Kinds \cup {"unusable"}, limit : Nat]
Registers(r) ==
    /\ r.seg \in [Segs -> Segment] /\ r.trBase \in Nat
    /\ r.cr0 \subseteq Cr0Fixed1 /\ r.cr4 \subseteq Cr4Fixed1 /\ r.lma \in BOOLEAN

TypeOK ==
    /\ m \in Machines
    /\ pc \in SettingUp \cup {"gdt", "host_data", "snapshot", "entry", "guest", "init", "wait"} \cup Panics
    /\ Registers(cpu) /\ Registers(expect) /\ Registers(vmcs)
    /\ \A g \in {gdtr, hostGdt} : g.limit \in -1 .. (Word - 1)
    /\ idt \in {"system", "host"}
    /\ \A w \in Words : vmcs.ctl[w] \subseteq Requested[w] \cup May(m, w)
    /\ vmcs.svm \subseteq SvmControls
    /\ vmcs.host \in [Data \cup {"tr"} -> Nat]
    /\ activity \in {"active", "wait_for_sipi"}
    /\ interrupted \in BOOLEAN /\ resets \in BOOLEAN

(* A GDT that fills the 16-bit limit, with the TSS that is appended.       *)
GdtTooLarge ==
    \/ (Intel \/ Uefi) /\ m.gdtr.limit + 1 = Word
    \/ Intel /\ Uefi /\ m.gdtr.limit + 1 + 16 >= Word

(* Every VM entry succeeds: the first one, the ones in every mode on the   *)
(* way up from real mode and the one after INIT, on every machine.  The    *)
(* set-up itself panics only for a GDT whose size does not fit             *)
(* (gdtr.limit + 1) and for a TSS that the firmware already uses; the only *)
(* exit without a handler is MOV to CR3, on a processor where it cannot be *)
(* switched off; and only AMD's host, with tables of its own, takes an     *)
(* interrupt itself.                                                       *)
PanicsOnlyFor ==
    /\ pc # "entry_failed"
    /\ pc = "panic" => GdtTooLarge \/ (Uefi /\ m.sel["tr"] # 0)
    /\ pc = "unhandled_exit" => Intel /\ ~m.trueMsrs
    /\ pc = "unexpected_interrupt" => ~Intel /\ Uefi

(* handle_init_signal() leaves SS alone on AMD; initialize_guest() gives   *)
(* up the LDT on Intel; an interrupt may change SS.                        *)
Lost ==
    {s \in Segs : \/ s = "ss" /\ (interrupted \/ (~Intel /\ resets))
                  \/ s = "ldtr" /\ Intel /\ m.sel["ldtr"] # 0 /\ ~resets}

CanBeReset == Intel => "unrestricted_guest" \in m.secondary

(* The guest goes on from the snapshot, or from reset after INIT, with the *)
(* segments, the mode and the instructions that the bare processor would   *)
(* have: the copies of selectors, limits and rights fit together, and only *)
(* the bits VMX fixes differ, without keeping the guest from real mode.    *)
GuestGoesOn ==
    pc = "guest" /\ (resets => CanBeReset) =>
        /\ \A s \in Segs \ Lost : cpu.seg[s] = expect.seg[s]
        /\ cpu.cr0 = expect.cr0 \cup (IF Intel THEN Cr0Fixed0 \ {"PE", "PG"} ELSE {})
        /\ cpu.cr4 = expect.cr4 \cup (IF Intel THEN Cr4Fixed0 ELSE {})
        /\ cpu.lma = expect.lma
        /\ Intel => InstructionControls \cap m.secondary \subseteq vmcs.ctl["secondary"]

(* The guest's TR leads to its TSS: try_from_gdtr() and base() join both   *)
(* halves of the descriptor.  append_tss() drops the upper half, so this   *)
(* needs the TSS of the UEFI driver below 4GB.                             *)
TssIsFound ==
    pc = "guest" /\ ~resets /\ cpu.seg["tr"].sel # 0 =>
        cpu.trBase = m.tss \/ (Intel /\ Uefi /\ m.tss >= FourGB)
=============================================================================
