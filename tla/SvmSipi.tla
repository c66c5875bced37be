------------------------------ MODULE SvmSipi ------------------------------
(***************************************************************************)
(* How the hypervisor boots application processors on AMD: INIT is         *)
(* redirected to #SX, the wait-for-SIPI state is a busy loop on an atomic  *)
(* byte, and Startup IPIs are caught by write-protecting the local APIC    *)
(* page in the nested page tables shared by all processors.                *)
(*                                                                         *)
(* An action is one run of code between two accesses to shared state: the  *)
(* activity bytes, the nested page tables, the local APICs.  On #VMEXIT the *)
(* processor runs with GIF = 0, so an INIT stays pending until the next    *)
(* VMRUN: only a processor whose pc is "guest" takes it.                   *)
(***************************************************************************)
EXTENDS Integers

CONSTANTS ProcessorCount,  \* apic_id::PROCESSOR_COUNT once init() is done
          Vectors,         \* the startup vectors the guest uses
          MaxRounds,       \* bound: INIT-SIPI-SIPI sequences per processor
          Guests           \* inputs: the operating systems that are run

Active == 0                \* GuestActivityState::Active
WaitForSipi == 255         \* GuestActivityState::WaitForSipi
NoVector == 256            \* not a byte: no start vector

ASSUME CountAssumption == ProcessorCount \in Nat \ {0}
ASSUME VectorAssumption == Vectors \subseteq 0 .. (WaitForSipi - 1)
ASSUME RoundAssumption == MaxRounds \in Nat

(* orderly: it wakes the last processor last, once, and parked processors  *)
(* leave their local APIC alone; late: it sends the second SIPI after the  *)
(* target took #SX; unsupported: it also stores to its local APIC in ways  *)
(* that the fault handler refuses; rounds: how often it wakes a processor. *)
ASSUME GuestAssumption ==
    Guests \subseteq [orderly : BOOLEAN, late : BOOLEAN, unsupported : BOOLEAN,
                     rounds : 0 .. MaxRounds]

Procs == 0 .. (ProcessorCount - 1)
Bsp == 0
Aps == Procs \ {Bsp}
Last == ProcessorCount - 1

(* A store to the local APIC, as the fault handler tells them apart: to    *)
(* ICR high, to ICR low with the delivery mode INIT or Startup, any other. *)
Stores ==
    [kind : {"icr_high", "init", "sipi", "other"},
     dest : Procs,
     vector : Vectors \cup {Active}]

SetDest(t) == [kind |-> "icr_high", dest |-> t, vector |-> Active]
SendInit == [kind |-> "init", dest |-> Bsp, vector |-> Active]
SendSipi(v) == [kind |-> "sipi", dest |-> Bsp, vector |-> v]
Other == [kind |-> "other", dest |-> Bsp, vector |-> Active]

VARIABLES
    pc,           \* where each processor is, in the guest or in a handler
    activity,     \* SHARED_GUEST_DATA.activity_states
    writable,     \* the local APIC page's entry in the shared nested page tables
    tlb,          \* what each processor has cached of that entry
    icrHigh,      \* destination in each processor's ICR high register
    initPending,  \* INITs sent and not taken
    req,          \* the store whose nested page fault is being handled
    vec,          \* what wait_for_sipi() returned
    cs,           \* the vector the guest's CS was loaded from
    os,           \* which guest it is, and its wake-up procedure, on the
                  \* bootstrap processor
    rounds,       \* how often the guest has woken each processor
    sent,         \* history: vectors emulated for a processor since its last INIT
    bypassed      \* history: processors a real SIPI was sent to while they waited

vars == <<pc, activity, writable, tlb, icrHigh, initPending, req, vec, cs, os,
          rounds, sent, bypassed>>

hardware == <<writable, tlb, icrHigh, initPending>>
guestOs == <<os, rounds>>

Pcs == {"off", "guest", "npf", "emulate", "sx", "wait", "fetch", "sipi", "panic", "unsupported"}
Phases == {"idle", "init", "sipi1", "sipi2"}

TypeOK ==
    /\ pc \in [Procs -> Pcs]
    /\ activity \in [Procs -> Vectors \cup {Active, WaitForSipi}]
    /\ writable \in BOOLEAN
    /\ tlb \in [Procs -> {"none", "ro", "rw"}]
    /\ icrHigh \in [Procs -> Procs]
    /\ initPending \in [Procs -> BOOLEAN]
    /\ req \in [Procs -> Stores]
    /\ vec \in [Procs -> Vectors \cup {Active, WaitForSipi}]
    /\ cs \in [Procs -> Vectors \cup {Active, WaitForSipi, NoVector}]
    /\ os \in [guest : Guests, phase : Phases, target : Procs]
    /\ rounds \in [Procs -> 0 .. MaxRounds]
    /\ sent \in [Procs -> SUBSET (Vectors \cup {Active})]
    /\ bypassed \in SUBSET Procs

Init ==
    /\ pc = [p \in Procs |-> "off"]
    /\ activity = [p \in Procs |-> Active]
    /\ writable = TRUE
    /\ tlb = [p \in Procs |-> "none"]
    /\ icrHigh = [p \in Procs |-> Bsp]
    /\ initPending = [p \in Procs |-> FALSE]
    /\ req = [p \in Procs |-> Other]
    /\ vec = [p \in Procs |-> Active]
    /\ cs = [p \in Procs |-> NoVector]
    /\ os \in [guest : Guests, phase : {"idle"}, target : {Bsp}]
    /\ rounds = [p \in Procs |-> 0]
    /\ sent = [p \in Procs |-> {}]
    /\ bypassed = {}

Goto(p, l) == pc' = [pc EXCEPT ![p] = l]

-----------------------------------------------------------------------------
(* Virtualization, and the interception of writes to the local APIC page.  *)

(* The nested page tables change for everyone; only the caller's TLB is    *)
(* flushed, at its next VMRUN.                                             *)
intercept_apic_write(p, enable) ==
    /\ writable' = ~enable
    /\ tlb' = [tlb EXCEPT ![p] = "none"]

(* Processors are virtualized one after the other, the bootstrap processor *)
(* first, before the guest's operating system starts.                      *)
Virtualize(p) ==
    /\ pc[p] = "off"
    /\ \A q \in Procs : q < p => pc[q] # "off"
    /\ Goto(p, "guest")
    /\ IF p = Bsp THEN intercept_apic_write(p, TRUE) ELSE UNCHANGED <<writable, tlb>>
    /\ UNCHANGED <<activity, icrHigh, initPending, req, vec, cs, guestOs, sent, bypassed>>

(* A store translates through what the TLB caches or through the tables: a *)
(* stale entry may still be used, and may have been evicted.               *)
MayFault(p) == tlb[p] = "ro" \/ ~writable
MayPass(p) == tlb[p] = "rw" \/ writable

(* What the local APIC does with a store that reaches it.  A processor     *)
(* waits in a loop of ordinary code, so a real SIPI does nothing to it.    *)
ApicDoes(p, w) ==
    /\ icrHigh' = IF w.kind = "icr_high" THEN [icrHigh EXCEPT ![p] = w.dest] ELSE icrHigh
    /\ initPending' = IF w.kind = "init"
                        THEN [initPending EXCEPT ![icrHigh[p]] = TRUE]
                        ELSE initPending
    /\ bypassed' = IF w.kind = "sipi" /\ pc[icrHigh[p]] \in {"sx", "wait"}
                     THEN bypassed \cup {icrHigh[p]}
                     ELSE bypassed

(* The guest stores w to its local APIC.                                   *)
StoreFaults(p, w) ==
    /\ MayFault(p)
    /\ Goto(p, "npf")
    /\ req' = [req EXCEPT ![p] = w]
    /\ tlb' = [tlb EXCEPT ![p] = "ro"]
    /\ UNCHANGED <<icrHigh, initPending, bypassed>>

StorePasses(p, w) ==
    /\ MayPass(p)
    /\ ApicDoes(p, w)
    /\ tlb' = [tlb EXCEPT ![p] = "rw"]
    /\ UNCHANGED <<pc, req>>

Store(p, w) == StoreFaults(p, w) \/ StorePasses(p, w)

-----------------------------------------------------------------------------
(* The guest's operating system.                                           *)

AllVirtualized == \A q \in Procs : pc[q] # "off"

MayWake(t) ==
    /\ rounds[t] < os.guest.rounds
    /\ os.guest.orderly => /\ rounds[Last] = 0
                           /\ t = Last => \A q \in Aps \ {Last} : rounds[q] > 0

(* It selects the next processor: the destination goes to ICR high.        *)
OsSelect(t) ==
    /\ AllVirtualized
    /\ pc[Bsp] = "guest"
    /\ os.phase = "idle"
    /\ MayWake(t)
    /\ Store(Bsp, SetDest(t))
    /\ os' = [os EXCEPT !.phase = "init", !.target = t]
    /\ rounds' = [rounds EXCEPT ![t] = @ + 1]
    /\ UNCHANGED <<activity, writable, vec, cs, sent>>

OsInit ==
    /\ pc[Bsp] = "guest"
    /\ os.phase = "init"
    /\ Store(Bsp, SendInit)
    /\ os' = [os EXCEPT !.phase = "sipi1"]
    /\ UNCHANGED <<activity, writable, vec, cs, rounds, sent>>

OsSipi(v) ==
    /\ pc[Bsp] = "guest"
    /\ \/ os.phase = "sipi1"
       \/ /\ os.phase = "sipi2"
          /\ os.guest.late => ~initPending[os.target] /\ pc[os.target] # "sx"
    /\ Store(Bsp, SendSipi(v))
    /\ os' = [os EXCEPT !.phase = IF @ = "sipi1" THEN "sipi2" ELSE "idle"]
    /\ UNCHANGED <<activity, writable, vec, cs, rounds, sent>>

(* Any other register, end of interrupt above all.                         *)
OtherStore(p) ==
    /\ pc[p] = "guest"
    /\ AllVirtualized
    /\ os.guest.orderly /\ p # Bsp => cs[p] # NoVector
    /\ Store(p, Other)
    /\ UNCHANGED <<activity, writable, vec, cs, guestOs, sent>>

-----------------------------------------------------------------------------
(* #VMEXIT(NPF): handle_nested_page_fault.                                 *)

StopInterceptionOnFirstFault(p) ==
    /\ pc[p] = "npf"
    /\ intercept_apic_write(p, FALSE)
    /\ Goto(p, "emulate")
    /\ UNCHANGED <<activity, icrHigh, initPending, req, vec, cs, guestOs, sent, bypassed>>

StopInterception(p) ==
    /\ pc[p] = "npf"
    /\ IF p = ProcessorCount - 1
         THEN intercept_apic_write(p, FALSE)
         ELSE UNCHANGED <<writable, tlb>>
    /\ Goto(p, "emulate")
    /\ UNCHANGED <<activity, icrHigh, initPending, req, vec, cs, guestOs, sent, bypassed>>

(* A store by an instruction that the handler does not decode, whatever it *)
(* writes to, or a SIPI that fails its assertions: one with a logical      *)
(* destination or a shorthand, to an APIC id that is not in the map, or    *)
(* with vector 255.                                                        *)
UnsupportedStore(p) ==
    /\ os.guest.unsupported
    /\ pc[p] = "emulate"
    /\ Goto(p, "unsupported")
    /\ UNCHANGED <<activity, hardware, req, vec, cs, guestOs, sent, bypassed>>

EmulateStore(p) ==
    /\ pc[p] = "emulate"
    /\ req[p].kind # "sipi"
    /\ ApicDoes(p, req[p])
    /\ Goto(p, "guest")
    /\ req' = [req EXCEPT ![p] = Other]
    /\ UNCHANGED <<activity, writable, tlb, vec, cs, guestOs, sent>>

PostVectorAsAddress(a, v) == IF a = WaitForSipi THEN v * 4096 ELSE a

(* compare_exchange(WaitForSipi, vector), whose result is ignored.         *)
PostVector(a, v) == IF a = WaitForSipi THEN v ELSE a

EmulateSipi(p) ==
    LET t == icrHigh[p]
        v == req[p].vector
    IN  /\ pc[p] = "emulate"
        /\ req[p].kind = "sipi"
        /\ activity' = [activity EXCEPT ![t] = PostVector(@, v)]
        /\ sent' = [sent EXCEPT ![t] = @ \cup {v}]
        /\ Goto(p, "guest")
        /\ req' = [req EXCEPT ![p] = Other]
        /\ UNCHANGED <<hardware, vec, cs, guestOs, bypassed>>

-----------------------------------------------------------------------------
(* #VMEXIT(#SX): handle_security_exception.                                *)

(* A processor in the guest takes a pending INIT.                          *)
TakeInit(p) ==
    /\ pc[p] = "guest"
    /\ initPending[p]
    /\ initPending' = [initPending EXCEPT ![p] = FALSE]
    /\ Goto(p, "sx")
    /\ UNCHANGED <<activity, writable, tlb, icrHigh, req, vec, cs, guestOs, sent, bypassed>>

handle_init_signal_without_swap(p) ==
    /\ pc[p] = "sx"
    /\ sent' = [sent EXCEPT ![p] = {}]
    /\ Goto(p, "wait")
    /\ cs' = [cs EXCEPT ![p] = NoVector]
    /\ tlb' = [tlb EXCEPT ![p] = "none"]
    /\ UNCHANGED <<activity, writable, icrHigh, initPending, req, vec, guestOs, bypassed>>

(* The swap comes first: the bootstrap processor may already be sending.   *)
handle_init_signal(p) ==
    /\ pc[p] = "sx"
    /\ activity' = [activity EXCEPT ![p] = WaitForSipi]
    /\ sent' = [sent EXCEPT ![p] = {}]
    /\ IF p # Bsp /\ activity[p] = Active
         THEN /\ Goto(p, "wait")
              /\ cs' = [cs EXCEPT ![p] = NoVector]
              /\ tlb' = [tlb EXCEPT ![p] = "none"]
         ELSE /\ Goto(p, "panic")
              /\ UNCHANGED <<cs, tlb>>
    /\ UNCHANGED <<writable, icrHigh, initPending, req, vec, guestOs, bypassed>>

(* The loop's last load; the loads before it change nothing.               *)
wait_for_sipi_load(p) ==
    /\ pc[p] = "wait"
    /\ activity[p] # WaitForSipi
    /\ Goto(p, "fetch")
    /\ UNCHANGED <<activity, hardware, req, vec, cs, guestOs, sent, bypassed>>

wait_for_sipi_load_twice(p) ==
    /\ pc[p] = "fetch"
    /\ vec' = [vec EXCEPT ![p] = activity[p]]
    /\ Goto(p, "sipi")
    /\ UNCHANGED <<activity, hardware, req, cs, guestOs, sent, bypassed>>

wait_for_sipi_swap(p) ==
    /\ pc[p] = "fetch"
    /\ vec' = [vec EXCEPT ![p] = activity[p]]
    /\ activity' = [activity EXCEPT ![p] = Active]
    /\ Goto(p, "sipi")
    /\ UNCHANGED <<hardware, req, cs, guestOs, sent, bypassed>>

handle_sipi(p) ==
    /\ pc[p] = "sipi"
    /\ IF activity[p] = Active
         THEN Goto(p, "guest") /\ cs' = [cs EXCEPT ![p] = vec[p]]
         ELSE Goto(p, "panic") /\ UNCHANGED cs
    /\ vec' = [vec EXCEPT ![p] = Active]
    /\ UNCHANGED <<activity, hardware, req, guestOs, sent, bypassed>>

-----------------------------------------------------------------------------
OsWakes == (\E t \in Aps : OsSelect(t)) \/ OsInit \/ (\E v \in Vectors : OsSipi(v))

Handler(p) ==
    \/ Virtualize(p)
    \/ StopInterception(p)
    \/ UnsupportedStore(p)
    \/ EmulateStore(p)
    \/ EmulateSipi(p)
    \/ handle_init_signal(p)
    \/ wait_for_sipi_load(p)
    \/ wait_for_sipi_swap(p)
    \/ handle_sipi(p)

Next == OsWakes \/ \E p \in Procs : OtherStore(p) \/ TakeInit(p) \/ Handler(p)

(* A processor goes on executing its own code; INITs arrive; the operating *)
(* system carries its wake-up procedure on between its other stores.       *)
Fairness ==
    /\ \A p \in Procs : WF_vars(Handler(p)) /\ SF_vars(TakeInit(p))
    /\ SF_vars(OsInit) /\ SF_vars(\E v \in Vectors : OsSipi(v))

Spec == Init /\ [][Next]_vars

FairSpec == Spec /\ Fairness

-----------------------------------------------------------------------------
(* No assertion of the #SX path fails, whatever the bootstrap processor    *)
(* sends meanwhile: an INIT finds the byte Active, a SIPI is handled with  *)
(* the byte Active again, and the bootstrap processor takes no INIT.       *)
NoAssertionFails == \A p \in Procs : pc[p] # "panic"

(* A processor starts only from a vector that was sent to it after the     *)
(* INIT that it answers: handle_sipi() never uses a vector left over from  *)
(* an earlier wake-up, nor the Active byte of a processor nobody released. *)
StartsWhereItWasTold ==
    \A p \in Procs :
        /\ cs[p] # NoVector => cs[p] \in sent[p]
        /\ pc[p] = "sipi" => vec[p] \in sent[p]

(* No SIPI reaches the wire while its target spins in wait_for_sipi():     *)
(* interception lasts as long as somebody has to be woken.                 *)
NoSipiBypassesTheHypervisor == bypassed = {}

(* That holds if the guest wakes the last processor last, and only then.   *)
OrderlyBootIsIntercepted == os.guest.orderly => NoSipiBypassesTheHypervisor

(* A processor that took INIT leaves wait_for_sipi() for the guest, if the *)
(* second SIPI comes late enough and the guest is orderly otherwise.       *)
WaitEnds ==
    \A p \in Aps :
        (pc[p] = "wait" /\ os.guest.orderly /\ os.guest.late /\ ~os.guest.unsupported)
            ~> pc[p] = "guest"

(* Where a processor is in the architecture's terms.                       *)
ModeOf(p) ==
    CASE pc[p] = "wait" /\ activity[p] = WaitForSipi -> "waiting"
      [] pc[p] = "wait" /\ activity[p] # WaitForSipi -> "released"
      [] pc[p] \in {"fetch", "sipi"} -> "released"
      [] OTHER -> "running"

VectorOf(p) ==
    CASE pc[p] = "wait" /\ activity[p] # WaitForSipi -> activity[p]
      [] pc[p] = "fetch" -> activity[p]
      [] pc[p] = "sipi" -> vec[p]
      [] OTHER -> NoVector

(* The busy loop, the swaps and the compare-and-exchange implement the     *)
(* architectural wait-for-SIPI state, and a released processor resumes.    *)
Startup ==
    INSTANCE ApStartup WITH
        mode <- [p \in Aps |-> ModeOf(p)],
        vector <- [p \in Aps |-> VectorOf(p)],
        start <- [p \in Aps |-> cs[p]]

ImplementsWaitForSipi == Startup!ASpec
=============================================================================
