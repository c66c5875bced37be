----------------------------- MODULE SerialLog -----------------------------
(***************************************************************************)
(* The logger of the UEFI driver: one UART behind a spin lock, used on     *)
(* every processor by the guest, by the host and by the host's panics.     *)
(*                                                                         *)
(* What runs on a processor is a stack of frames: its own code, first      *)
(* setting up, then entering, then the guest; on top of the guest, a VM    *)
(* exit; on top of code that runs on the host's IDT, the panic of an       *)
(* exception or interrupt, none of which returns.                          *)
(***************************************************************************)
EXTENDS Integers, Sequences

CONSTANTS N,            \* processors
          LineLength,   \* bytes of a record
          MaxRecords,   \* bound: records of the guest
          MaxExits,     \* bound: VM exits, but for those of apic_id()
          MaxNmis       \* bound: NMIs that meet the host's IDT

ASSUME BoundAssumption ==
    /\ {N, LineLength} \subseteq Nat \ {0}
    /\ {MaxRecords, MaxExits, MaxNmis} \subseteq Nat

Processors == 1 .. N

VARIABLES
    vendor,     \* "intel" or "amd"; neither this nor the next two change
    level,      \* log::max_level(): "info" or "trace"
    flags,      \* RFLAGS.IF of each processor when main() began
    stack,      \* the frames of each processor, the running one last
    holder,     \* of the UART's lock: processor and frame, or NoHolder
    line,       \* the frames whose bytes are on the current line
    budget,     \* records, exits and NMIs left
    hit         \* history: processors that an NMI hit while they held the lock

vars == <<vendor, level, flags, stack, holder, line, budget, hit>>
machine == <<vendor, level, flags>>

NoHolder == <<>>

Depth(p) == Len(stack[p])
Top(p) == stack[p][Depth(p)]
Me(p) == <<p, Depth(p)>>

(* at: where in log(); if: RFLAGS.IF; enabled: the guard's copy of it;     *)
(* todo: records due; left: bytes to write; cause: what made a panic, or   *)
(* the "fault" that an exit's handler is about to raise.                   *)
Frame(ctx, if, todo, cause) ==
    [ctx |-> ctx, at |-> "code", if |-> if, enabled |-> FALSE, todo |-> todo, left |-> 0,
     cause |-> cause]

Set(p, f) == stack' = [stack EXCEPT ![p][Depth(p)] = f]
Push(p, f) == stack' = [stack EXCEPT ![p] = Append(@, f)]

(* "Initializing the guest" is due on every processor.  MP services run    *)
(* application processors with interrupts off.                             *)
Init ==
    /\ vendor \in {"intel", "amd"} /\ level \in {"info", "trace"}
    /\ flags \in {f \in [Processors -> BOOLEAN] : \A p \in 2 .. N : ~f[p]}
    /\ stack = [p \in Processors |-> <<Frame("setup", flags[p], 1, "none")>>]
    /\ holder = NoHolder /\ line = <<>>
    /\ budget = [records |-> MaxRecords, exits |-> MaxExits, nmis |-> MaxNmis]
    /\ hit = {}

-----------------------------------------------------------------------------
(* SerialLogger::log().                                                    *)

GuardThatAlwaysEnables(f) == [f EXCEPT !.enabled = TRUE, !.if = FALSE]

(* InterruptGuard::new() and drop().                                       *)
Guard(f) == [f EXCEPT !.enabled = f.if, !.if = FALSE]
DropGuard(f) == [f EXCEPT !.if = @ \/ f.enabled]

(* run_on_all_processors(): the BSP, then one processor after the other.   *)
Turn(p) == \A q \in 1 .. (p - 1) : stack[q][1].ctx = "guest"

(* Records of the driver and of panics are due; the guest logs when it     *)
(* likes ("Virtualized the current processor").                            *)
log(p) ==
    /\ Top(p).at = "code" /\ Turn(p)
    /\ \/ Top(p).todo > 0 /\ UNCHANGED budget
       \/ /\ Top(p).ctx = "guest" /\ budget.records > 0
          /\ budget' = [budget EXCEPT !.records = @ - 1]
    /\ Set(p, [Guard(Top(p)) EXCEPT !.at = "id"])
    /\ UNCHANGED <<machine, holder, line, hit>>

(* A VM exit: RFLAGS is cleared for an Intel host.  An AMD host has the    *)
(* RFLAGS of its VMRUN, but GIF is clear.                                  *)
HostFrame(p, todo, cause) == Frame("host", vendor = "amd" /\ flags[p], todo, cause)

(* "Exited the guest", the handler's record, "Entering the guest".         *)
ExitRecords == IF level = "trace" THEN 3 ELSE 0

(* CPUID exits where the guest runs.                                       *)
AskedFor(p, next) ==
    LET asked == [stack EXCEPT ![p][Depth(p)].at = next]
    IN  stack' = IF Top(p).ctx = "guest"
                   THEN [asked EXCEPT ![p] = Append(@, HostFrame(p, ExitRecords, "none"))]
                   ELSE asked

apic_id_under_the_lock(p) ==
    /\ \/ Top(p).at = "id" /\ Set(p, [Top(p) EXCEPT !.at = "lock"])
       \/ Top(p).at = "write" /\ Top(p).left = LineLength /\ AskedFor(p, "write")
    /\ UNCHANGED <<machine, holder, line, budget, hit>>

apic_id(p) ==
    /\ Top(p).at = "id"
    /\ AskedFor(p, "lock")
    /\ UNCHANGED <<machine, holder, line, budget, hit>>

lock_without_waiting(p) ==
    /\ Top(p).at = "lock"
    /\ holder' = Me(p)
    /\ Set(p, [Top(p) EXCEPT !.at = "write", !.left = LineLength])
    /\ UNCHANGED <<machine, line, budget, hit>>

lock(p) ==
    /\ Top(p).at = "lock"
    /\ holder = NoHolder
    /\ holder' = Me(p)
    /\ Set(p, [Top(p) EXCEPT !.at = "write", !.left = LineLength])
    /\ UNCHANGED <<machine, line, budget, hit>>

(* Uart::write_str(), one byte each time the transmitter is empty; the     *)
(* last byte of a record ends the line.                                    *)
write_str(p) ==
    /\ Top(p).at = "write" /\ Top(p).left > 0
    /\ line' = IF Top(p).left = 1 THEN <<>> ELSE Append(line, Me(p))
    /\ Set(p, [Top(p) EXCEPT !.left = @ - 1])
    /\ UNCHANGED <<machine, holder, budget, hit>>

unlock_without_release(p) ==
    /\ Top(p).at = "write" /\ Top(p).left = 0
    /\ Set(p, [Top(p) EXCEPT !.at = "unlocked"])
    /\ UNCHANGED <<machine, holder, line, budget, hit>>

(* The lock is dropped before the guard.                                   *)
unlock(p) ==
    /\ Top(p).at = "write" /\ Top(p).left = 0
    /\ holder' = NoHolder
    /\ Set(p, [Top(p) EXCEPT !.at = "unlocked"])
    /\ UNCHANGED <<machine, line, budget, hit>>

(* log() returns; after its record a panic disables interrupts and halts,  *)
(* for ever.                                                               *)
Logged(p) ==
    /\ Top(p).at = "unlocked"
    /\ LET f == [DropGuard(Top(p)) EXCEPT !.at = "code", !.enabled = FALSE,
                                          !.todo = IF @ > 0 THEN @ - 1 ELSE 0]
       IN  Set(p, IF f.ctx = "panic" THEN [f EXCEPT !.at = "halted", !.if = FALSE] ELSE f)
    /\ UNCHANGED <<machine, holder, line, budget, hit>>

-----------------------------------------------------------------------------
(* virtualize_core().                                                      *)

Done(p, ctx) == Top(p).ctx = ctx /\ Top(p).at = "code" /\ Top(p).todo = 0

(* initialize(), which loads the host's IDT on AMD; then "Starting the     *)
(* guest" and "Entering the guest".                                        *)
initialize(p) ==
    /\ Done(p, "setup")
    /\ Set(p, [Top(p) EXCEPT !.ctx = "entering", !.todo = IF level = "trace" THEN 2 ELSE 1])
    /\ UNCHANGED <<machine, holder, line, budget, hit>>

(* VM entry: the guest is the interrupted code itself.                     *)
Enter(p) ==
    /\ Done(p, "entering")
    /\ Set(p, [Top(p) EXCEPT !.ctx = "guest"])
    /\ UNCHANGED <<machine, holder, line, budget, hit>>

(* Some other exit: one that is handled in silence, an unknown hypercall,  *)
(* which warns, or an invalid MSR or XCR, which faults after its record.   *)
Exit(p) ==
    /\ Top(p).ctx = "guest" /\ Top(p).at = "code"
    /\ budget.exits > 0
    /\ budget' = [budget EXCEPT !.exits = @ - 1]
    /\ \/ Push(p, HostFrame(p, ExitRecords, "none"))
       \/ level = "info" /\ Push(p, HostFrame(p, 1, "none"))
       \/ Push(p, HostFrame(p, IF level = "trace" THEN 2 ELSE 0, "fault"))
    /\ UNCHANGED <<machine, holder, line, hit>>

Resume(p) ==
    /\ Done(p, "host") /\ Top(p).cause = "none"
    /\ stack' = [stack EXCEPT ![p] = SubSeq(@, 1, Depth(p) - 1)]
    /\ UNCHANGED <<machine, holder, line, budget, hit>>

-----------------------------------------------------------------------------
(* handle_host_exception() and panic_impl(): every handler of the host's   *)
(* IDT panics, with interrupts off (an interrupt gate), and logs that.     *)

OnHostIdt(p) == Top(p).ctx \in {"host", "panic"} \/ (vendor = "amd" /\ Top(p).ctx = "entering")
GifSet(p) == vendor = "intel" \/ \A d \in 1 .. Depth(p) : stack[p][d].ctx # "host"

Panic(p, cause) == Push(p, Frame("panic", FALSE, 1, cause))

Interrupt(p) ==
    /\ OnHostIdt(p) /\ GifSet(p)
    /\ Top(p).if
    /\ Panic(p, "interrupt")
    /\ UNCHANGED <<machine, holder, line, budget, hit>>

(* A halted processor is left alone: an NMI would only add a record.       *)
Nmi(p) ==
    /\ OnHostIdt(p) /\ GifSet(p) /\ Top(p).at # "halted"
    /\ budget.nmis > 0
    /\ budget' = [budget EXCEPT !.nmis = @ - 1]
    /\ hit' = IF holder = Me(p) THEN hit \cup {p} ELSE hit
    /\ Panic(p, "nmi")
    /\ UNCHANGED <<machine, holder, line>>

Fault(p) ==
    /\ Done(p, "host") /\ Top(p).cause = "fault"
    /\ Panic(p, "fault")
    /\ UNCHANGED <<machine, holder, line, budget, hit>>

-----------------------------------------------------------------------------
(* What a processor does by itself.                                        *)
Own(p) ==
    \/ (Top(p).todo > 0 /\ log(p)) \/ apic_id(p) \/ lock(p) \/ write_str(p) \/ unlock(p) \/ Logged(p)
    \/ initialize(p) \/ Enter(p) \/ Resume(p) \/ Fault(p)

Next ==
    \E p \in Processors : \/ log(p) \/ apic_id(p) \/ lock(p) \/ write_str(p) \/ unlock(p) \/ Logged(p)
                          \/ initialize(p) \/ Enter(p) \/ Exit(p) \/ Resume(p)
                          \/ Interrupt(p) \/ Nmi(p) \/ Fault(p)

Spec == Init /\ [][Next]_vars

(* Processors run on.  A spin lock is unfair, but here the records of the  *)
(* others are finitely many.                                               *)
FairSpec == Spec /\ \A p \in Processors : WF_vars(Own(p))

-----------------------------------------------------------------------------
Ats == {"code", "id", "lock", "write", "unlocked", "halted"}

TypeOK ==
    /\ vendor \in {"intel", "amd"} /\ level \in {"info", "trace"} /\ flags \in [Processors -> BOOLEAN]
    /\ \A p \in Processors : \A d \in 1 .. Depth(p) :
          /\ stack[p][d].ctx \in IF d = 1 THEN {"setup", "entering", "guest"} ELSE {"host", "panic"}
          /\ stack[p][d].at \in Ats /\ stack[p][d].left \in 0 .. LineLength
          /\ stack[p][d].todo \in 0 .. 3
    /\ holder # NoHolder => /\ holder[1] \in Processors /\ holder[2] \in 1 .. Depth(holder[1])
                            /\ stack[holder[1]][holder[2]].at = "write"
    /\ hit \subseteq Processors

(* Records do not mix on the wire: the bytes of the current line are all   *)
(* of one frame, whatever processors, exits and panics log meanwhile.      *)
LinesAreWhole ==
    \A i, j \in DOMAIN line : line[i] = line[j]

(* InterruptGuard: an interrupt never makes the host panic inside log(),   *)
(* nor, as the guard only restores what it found, anywhere in an Intel     *)
(* host or after a VM exit.  It can between the records of an AMD          *)
(* processor that enters its guest with interrupts on.                     *)
InterruptedOnlyBetweenRecords ==
    \A p \in Processors : \A d \in 2 .. Depth(p) :
        stack[p][d].cause = "interrupt" =>
            /\ vendor = "amd" /\ flags[p]
            /\ stack[p][d - 1].ctx = "entering" /\ stack[p][d - 1].at = "code"

(* A processor never spins on a lock that it holds itself, although the    *)
(* guest's log(), the VM exit under it and panics share the lock: apic_id()*)
(* exits before lock().  Only an NMI that hits the holder does it.         *)
NoReentry ==
    \A p \in Processors :
        Top(p).at = "lock" /\ holder # NoHolder /\ holder[1] = p => p \in hit

(* Whoever waits for the lock gets it, unless its processor has panicked   *)
(* meanwhile or an NMI hit the lock's holder.                              *)
EveryRecordIsWritten ==
    \A p \in Processors : (Top(p).at = "lock") ~> (Top(p).at # "lock" \/ hit # {})
=============================================================================
