-------------------------- MODULE LifecycleProofs --------------------------
(***************************************************************************)
(* Proofs about module Lifecycle, for any number of processors, any        *)
(* machines and any number of register writes.                             *)
(***************************************************************************)
EXTENDS Lifecycle, FiniteSetTheorems, TLAPS

-----------------------------------------------------------------------------
(* The inductive invariant.                                                *)

Entering == {"captured", "main", "enabled", "created", "activated", "initialized", "recheck", "fault"}
Leaving == {"leave", "loaded", "inactive", "disabled"}
InGuest == {"guest", "exit"}

(* The processors that are done are the first ones.                        *)
VisitedInv ==
    /\ \E k \in 0 .. ProcessorCount : visited = 1 .. k
    /\ phase \in {"running", "unloaded"} => visited = {}

(* Only the processor whose turn it is enters or leaves the hypervisor.    *)
Place(p) ==
    /\ phase = "loaded" => pc[p] = "native" \/ (pc[p] = "panic" /\ p \notin visited)
    /\ phase = "unloaded" => pc[p] = "native"
    /\ phase = "virtualizing" => IF p \in visited THEN pc[p] \in InGuest
                                                  ELSE pc[p] \in {"native"} \cup Entering
    /\ phase = "running" => pc[p] \in InGuest
    /\ phase = "devirtualizing" => IF p \in visited THEN pc[p] = "native"
                                                    ELSE pc[p] \in InGuest \cup Leaving
    /\ pc[p] \in Entering \cup Leaving => visited = 1 .. (p - 1)
    /\ pc[p] = "fault" => VmxLockedOut
    /\ pc[p] = "panic" => DuplicateIds

IdOf(p) == ids[p] = IF phase = "loaded" /\ p \notin visited THEN NoId ELSE p

(* VMX operation is on from enable() to disable(), SVM until               *)
(* load_guest_cpu_state(), a VMCS or host save area is in use from         *)
(* activate() to deactivate().                                             *)
IsOn(p) == pc[p] \notin {"native", "captured", "main", "disabled", "fault", "panic"}
IsActive(p) == IsOn(p) /\ pc[p] \notin {"enabled", "created", "inactive"}

FlagsOf(p) ==
    /\ flags[p].vmxon <=> Vendor = "intel" /\ IsOn(p)
    /\ flags[p].svme <=> Vendor = "amd" /\ IsOn(p) /\ pc[p] \notin {"loaded", "inactive"}
    /\ flags[p].vmcs <=> Vendor = "intel" /\ IsActive(p)
    /\ flags[p].hsave <=> Vendor = "amd" /\ IsActive(p)

(* Where the values are that the guest is to find: in the registers until  *)
(* the guest is entered and whenever it runs; in the save area what a VM   *)
(* exit moves there; in the registers again as far as                      *)
(* load_guest_cpu_state() goes.                                            *)
InRegisters(p) ==
    \/ pc[p] \in {"captured", "main", "enabled", "created", "activated", "guest", "recheck"}
    \/ pc[p] = "native" /\ phase \in {"loaded", "virtualizing"}

ValuesOf(p) ==
    /\ InRegisters(p) => phys[p] = Expected(p)
    /\ pc[p] \in {"initialized", "exit", "leave"} =>
         \A r \in Regs : Expected(p)[r] = IF r \in Switched THEN save[p][r] ELSE phys[p][r]
    /\ pc[p] \in {"loaded", "inactive", "disabled", "native"} =>
         phys[p]["cr"] = mine[p]["cr"] /\ phys[p]["dtr"] = mine[p]["dtr"]

ProcInv(p) == Place(p) /\ IdOf(p) /\ FlagsOf(p) /\ ValuesOf(p)

Inv ==
    /\ TypeOK
    /\ VisitedInv
    /\ \A p \in Processors : ProcInv(p)

-----------------------------------------------------------------------------
(* Turns.                                                                  *)

LEMMA TurnIs ==
    ASSUME VisitedInv, NEW p \in Processors
    PROVE  Turn(p) <=> visited = 1 .. (p - 1)
<1> USE CountAssumption DEF Processors
<1>1. PICK k \in 0 .. ProcessorCount : visited = 1 .. k
  BY DEF VisitedInv
<1>2. CASE k = ProcessorCount
  <2>1. p \in visited /\ p \notin 1 .. (p - 1)
    BY <1>1, <1>2
  <2> QED
    BY <1>1, <1>2, <2>1 DEF Turn
<1>3. CASE k < ProcessorCount
  <2>1. k + 1 \in Processors \ visited /\ visited # Processors
    BY <1>1, <1>3
  <2>2. \A q \in Processors \ visited : k + 1 <= q
    BY <1>1
  <2>3. Current = k + 1
    <3>1. \A x \in Processors \ visited :
             (\A q \in Processors \ visited : x <= q) => x = k + 1
      BY <2>1, <2>2
    <3> QED
      BY <2>1, <2>2, <3>1 DEF Current
  <2>4. p = k + 1 <=> visited = 1 .. (p - 1)
    <3>1. ASSUME visited = 1 .. (p - 1)
          PROVE  p = k + 1
      <4>1. p \notin 1 .. k /\ k + 1 \notin 1 .. (p - 1)
        BY <1>1, <2>1, <3>1
      <4> QED
        BY <4>1
    <3> QED
      BY <1>1, <3>1
  <2> QED
    BY <2>1, <2>3, <2>4 DEF Turn
<1> QED
  BY <1>2, <1>3

(* The next processor is done: there is one more.                          *)
LEMMA Advance ==
    ASSUME NEW p \in Processors, visited = 1 .. (p - 1)
    PROVE  /\ visited \cup {p} = 1 .. p
           /\ Cardinality(visited) + 1 = p
           /\ p \notin visited
<1> USE CountAssumption DEF Processors
<1>1. Cardinality(visited) = p - 1
  <2>1. 1 \in Int /\ p - 1 \in Int
    OBVIOUS
  <2>2. Cardinality(1 .. (p - 1)) = IF 1 > p - 1 THEN 0 ELSE (p - 1) - 1 + 1
    BY <2>1, FS_Interval
  <2> QED
    BY <2>2
<1> QED
  BY <1>1

-----------------------------------------------------------------------------
(* What a guest is to find depends on VMX operation and its own writes.    *)

LEMMA ExpectedStays ==
    ASSUME NEW p \in Processors, flags'[p].vmxon = flags[p].vmxon, mine'[p] = mine[p]
    PROVE  Expected(p)' = Expected(p)
BY DEF Expected

LEMMA ExpectedValues ==
    ASSUME TypeOK, NEW p \in Processors
    PROVE  /\ Expected(p) \in [Regs -> Values]
           /\ \A r \in Regs \ {"fixed"} : Expected(p)[r] = mine[p][r]
<1>1. mine[p] \in [Regs -> Values] /\ Adjusted \in Values
  BY DEF TypeOK, Values
<1> QED
  BY <1>1 DEF Expected

-----------------------------------------------------------------------------
(* The steps.  What one processor does leaves the others' part of the      *)
(* invariant alone.                                                        *)

Elsewhere(p) ==
    \A q \in Processors \ {p} :
        /\ pc'[q] = pc[q] /\ phys'[q] = phys[q] /\ save'[q] = save[q]
        /\ flags'[q] = flags[q] /\ ids'[q] = ids[q] /\ mine'[q] = mine[q]

LEMMA OneProcessor ==
    ASSUME Inv, NEW p \in Processors, UNCHANGED <<machine, phase, visited>>, Elsewhere(p),
           TypeOK', ProcInv(p)'
    PROVE  Inv'
<1>1. VisitedInv'
  BY DEF Inv, VisitedInv
<1>2. ASSUME NEW q \in Processors \ {p}
      PROVE  ProcInv(q)'
  <2>1. ProcInv(q)
    BY DEF Inv
  <2>2. /\ pc'[q] = pc[q] /\ phys'[q] = phys[q] /\ save'[q] = save[q]
        /\ flags'[q] = flags[q] /\ ids'[q] = ids[q] /\ mine'[q] = mine[q]
    BY DEF Elsewhere
  <2>3. Place(q)' /\ IdOf(q)'
    BY <2>1, <2>2 DEF ProcInv, Place, IdOf, VmxLockedOut, DuplicateIds, Vendor
  <2>4. FlagsOf(q)'
    BY <2>1, <2>2 DEF ProcInv, FlagsOf, IsOn, IsActive, Vendor
  <2>5. ValuesOf(q)'
    BY <2>1, <2>2 DEF ProcInv, ValuesOf, Expected, InRegisters, Switched, Vendor
  <2> QED
    BY <2>3, <2>4, <2>5 DEF ProcInv
<1> QED
  BY <1>1, <1>2 DEF Inv

LEMMA InitInv == Init => Inv
<1> SUFFICES ASSUME Init PROVE Inv
  OBVIOUS
<1>1. TypeOK
  BY CountAssumption, WritesAssumption
  DEF Init, TypeOK, Filled, Untouched, Flags, Pcs, Values, Own, Processors
<1>2. VisitedInv
  <2>1. 0 \in 0 .. ProcessorCount /\ visited = 1 .. 0
    BY CountAssumption DEF Init
  <2> QED
    BY <2>1 DEF VisitedInv, Init
<1>3. \A p \in Processors : ProcInv(p)
  BY DEF Init, ProcInv, Place, IdOf, FlagsOf, ValuesOf, Expected, InRegisters, IsOn, IsActive, Untouched,
         Filled, Entering, Leaving, NoId, Regs
<1> QED
  BY <1>1, <1>2, <1>3 DEF Inv

(* The platform goes on to the next phase when all processors are done.    *)
LEMMA PlatformSafe ==
    ASSUME Inv, Platform
    PROVE  Inv'
<1>1. VisitedInv'
  <2>1. CASE devirtualize_system
    BY <2>1 DEF devirtualize_system, Inv, VisitedInv
  <2>2. CASE visited' = {}
    <3>1. visited' = 1 .. 0 /\ 0 \in 0 .. ProcessorCount
      BY <2>2, CountAssumption
    <3> QED
      BY <3>1, <2>2 DEF VisitedInv
  <2> QED
    BY <2>1, <2>2 DEF Platform, NextPhase
<1>2. UNCHANGED <<machine, pc, phys, save, host, flags, saved, ids, mine, writes>>
  BY DEF Platform, NextPhase, devirtualize_system
<1>3. TypeOK'
  BY <1>2 DEF Inv, Platform, NextPhase, devirtualize_system, TypeOK
<1>4. CASE devirtualize_system
  <2>1. Current \in Processors
    <3>1. visited = {} /\ 1 \in Processors
      BY <1>4, CountAssumption DEF devirtualize_system, Inv, VisitedInv, Processors
    <3>2. visited = 1 .. (1 - 1)
      BY <3>1
    <3>3. Turn(1)
      BY <3>1, <3>2, TurnIs DEF Inv
    <3> QED
      BY <3>1, <3>3 DEF Turn
  <2>2. phase' = "devirtualizing" /\ visited' = {} /\ phase = "running" /\ visited = {}
    BY <1>4, <2>1 DEF devirtualize_system, Inv, ProcInv, Place, InGuest,
                      is_our_hypervisor_present, VisitedInv
  <2>3. ASSUME NEW q \in Processors
        PROVE  ProcInv(q)'
    <3>1. ProcInv(q)
      BY DEF Inv
    <3> QED
      BY <1>2, <2>2, <3>1
      DEF ProcInv, Place, IdOf, FlagsOf, ValuesOf, Expected, InRegisters, IsOn, IsActive, InGuest,
          Entering, Leaving, Switched, Vendor, VmxLockedOut, DuplicateIds
  <2> QED
    BY <1>1, <1>3, <2>3 DEF Inv
<1>5. ASSUME NEW from, NEW to, NextPhase(from, to),
             <<from, to>> \in {<<"loaded", "virtualizing">>, <<"virtualizing", "running">>,
                              <<"devirtualizing", "unloaded">>}
      PROVE  Inv'
  <2>1. phase = from /\ phase' = to /\ visited = Processors /\ visited' = {}
    BY <1>5 DEF NextPhase
  <2>2. ASSUME NEW q \in Processors
        PROVE  ProcInv(q)'
    <3>1. ProcInv(q) /\ q \in visited
      BY <2>1 DEF Inv
    <3> QED
      BY <1>2, <1>5, <2>1, <3>1
      DEF ProcInv, Place, IdOf, FlagsOf, ValuesOf, Expected, InRegisters, IsOn, IsActive, InGuest,
          Entering, Leaving, Switched, Vendor, VmxLockedOut, DuplicateIds
  <2> QED
    BY <1>1, <1>3, <2>2 DEF Inv
<1> QED
  BY <1>4, <1>5 DEF Platform

(* The processor whose turn it is is done with its callback.               *)
LEMMA OneMore ==
    ASSUME Inv, NEW p \in Processors, visited = 1 .. (p - 1), visited' = visited \cup {p},
           phase \in {"loaded", "virtualizing", "devirtualizing"},
           UNCHANGED <<machine, phase>>, Elsewhere(p),
           TypeOK', ProcInv(p)'
    PROVE  Inv'
<1>1. visited' = 1 .. p /\ p \in 0 .. ProcessorCount
  BY Advance, CountAssumption DEF Processors
<1>2. VisitedInv'
  BY <1>1 DEF VisitedInv
<1>3. ASSUME NEW q \in Processors \ {p}
      PROVE  ProcInv(q)'
  <2>1. ProcInv(q)
    BY DEF Inv
  <2>2. /\ pc'[q] = pc[q] /\ phys'[q] = phys[q] /\ save'[q] = save[q]
        /\ flags'[q] = flags[q] /\ ids'[q] = ids[q] /\ mine'[q] = mine[q]
    BY DEF Elsewhere
  <2>3. q \in visited' <=> q \in visited
    OBVIOUS
  <2>4. visited # 1 .. (q - 1)
    BY CountAssumption DEF Processors
  <2>5. Place(q)' /\ IdOf(q)'
    BY <2>1, <2>2, <2>3, <2>4 DEF ProcInv, Place, IdOf, VmxLockedOut, DuplicateIds, Vendor
  <2>6. FlagsOf(q)'
    BY <2>1, <2>2 DEF ProcInv, FlagsOf, IsOn, IsActive, Vendor
  <2>7. ValuesOf(q)'
    BY <2>1, <2>2 DEF ProcInv, ValuesOf, Expected, InRegisters, Switched, Vendor
  <2> QED
    BY <2>5, <2>6, <2>7 DEF ProcInv
<1> QED
  BY <1>2, <1>3 DEF Inv

LEMMA apic_id_initSafe ==
    ASSUME Inv, NEW p \in Processors, apic_id_init(p)
    PROVE  Inv'
<1>1. visited = 1 .. (p - 1) /\ pc[p] = "native" /\ phase = "loaded"
  BY TurnIs DEF apic_id_init, Inv
<1>2. UNCHANGED <<machine, phys, save, host, flags, saved, phase, mine, writes>>
  BY DEF apic_id_init
<1>3. CASE \E q \in visited : machine.apicIds[q] = machine.apicIds[p]
  <2>1. pc' = [pc EXCEPT ![p] = "panic"] /\ UNCHANGED <<ids, visited>>
    BY <1>3 DEF apic_id_init, Goto
  <2>2. DuplicateIds
    <3>1. PICK q \in visited : machine.apicIds[q] = machine.apicIds[p]
      BY <1>3
    <3>2. q \in Processors /\ q # p
      BY <1>1, Advance DEF Inv, TypeOK
    <3> QED
      BY <3>1, <3>2 DEF DuplicateIds
  <2>3. p \notin visited
    BY <1>1, Advance
  <2>4. TypeOK' /\ Elsewhere(p) /\ pc'[p] = "panic"
    BY <1>2, <2>1 DEF Inv, TypeOK, Elsewhere, Pcs
  <2>5. ProcInv(p)'
    BY <1>1, <1>2, <2>1, <2>2, <2>3, <2>4
    DEF Inv, ProcInv, Place, IdOf, FlagsOf, ValuesOf, Expected, InRegisters, IsOn, IsActive,
        Switched, Vendor, VmxLockedOut, DuplicateIds, Entering, Leaving
  <2> QED
    BY <1>2, <2>1, <2>4, <2>5, OneProcessor
<1>4. CASE ~\E q \in visited : machine.apicIds[q] = machine.apicIds[p]
  <2>1. /\ visited' = visited \cup {p} /\ ids' = [ids EXCEPT ![p] = p] /\ p \in visited'
        /\ pc' = pc
    BY <1>1, <1>4, Advance DEF apic_id_init
  <2>2. p \in 0 .. ProcessorCount
    BY CountAssumption DEF Processors
  <2>3. TypeOK'
    BY <1>2, <2>1, <2>2 DEF Inv, TypeOK
  <2>4. Elsewhere(p)
    BY <1>2, <2>1 DEF Elsewhere, Inv, TypeOK
  <2>5. ids'[p] = p
    BY <2>1 DEF Inv, TypeOK
  <2>6. ProcInv(p)'
    BY <1>1, <1>2, <2>1, <2>5
    DEF Inv, ProcInv, Place, IdOf, FlagsOf, ValuesOf, Expected, InRegisters, IsOn, IsActive,
        Switched, Vendor, VmxLockedOut, DuplicateIds, Entering, Leaving
  <2> QED
    BY <1>1, <1>2, <2>1, <2>3, <2>4, <2>6, OneMore
<1> QED
  BY <1>3, <1>4

(* A step of one processor's own: entering the hypervisor.                 *)

LEMMA FlagTypes ==
    ASSUME NEW f \in Flags
    PROVE  /\ [f EXCEPT !.vmxon = TRUE] \in Flags
           /\ [f EXCEPT !.svme = TRUE] \in Flags
           /\ [f EXCEPT !.vmcs = TRUE] \in Flags
           /\ [f EXCEPT !.hsave = TRUE] \in Flags
           /\ [f EXCEPT !.rinit = TRUE] \in Flags
           /\ [f EXCEPT !.gif = TRUE] \in Flags
           /\ [f EXCEPT !.gif = (Vendor = "intel")] \in Flags
           /\ [f EXCEPT !.vmcs = FALSE] \in Flags
           /\ [f EXCEPT !.hsave = FALSE] \in Flags
           /\ [f EXCEPT !.vmxon = FALSE] \in Flags
           /\ [f EXCEPT !.svme = FALSE] \in Flags
BY DEF Flags

LEMMA capture_currentSafe ==
    ASSUME Inv, NEW p \in Processors, capture_current(p)
    PROVE  Inv'
<1>1. visited = 1 .. (p - 1)
  BY TurnIs DEF capture_current, Inv
<1>2. TypeOK' /\ Elsewhere(p) /\ pc'[p] = "captured"
  BY DEF capture_current, Goto, Inv, TypeOK, Elsewhere, Pcs
<1>3. ProcInv(p)'
  BY <1>1, <1>2
  DEF capture_current, Inv, ProcInv, Place, IdOf, FlagsOf, ValuesOf, Expected, InRegisters, IsOn, IsActive, Switched,
      Vendor, VmxLockedOut, DuplicateIds, Entering, Leaving, InGuest
<1> QED
  BY <1>2, <1>3, OneProcessor DEF capture_current

LEMMA EnterOrReturnSafe ==
    ASSUME Inv, NEW p \in Processors, EnterOrReturn(p)
    PROVE  Inv'
<1>1. visited = 1 .. (p - 1) /\ phase = "virtualizing" /\ pc[p] \in {"captured", "recheck"}
  BY DEF EnterOrReturn, Inv, ProcInv, Place, Entering
<1>2. UNCHANGED <<machine, phys, save, flags, ids, phase, mine>>
  BY DEF EnterOrReturn
<1>3. CASE pc[p] = "captured"
  <2>1. visited' = visited /\ pc' = [pc EXCEPT ![p] = "main"]
    BY <1>3 DEF EnterOrReturn, is_our_hypervisor_present, Goto
  <2>2. TypeOK' /\ Elsewhere(p) /\ pc'[p] = "main"
    BY <2>1 DEF EnterOrReturn, Inv, TypeOK, Elsewhere, Pcs
  <2>3. ProcInv(p)'
    BY <1>1, <1>2, <1>3, <2>1, <2>2
    DEF Inv, ProcInv, Place, IdOf, FlagsOf, ValuesOf, Expected, InRegisters, IsOn, IsActive, Switched,
        Vendor, VmxLockedOut, DuplicateIds, Entering, Leaving, InGuest
  <2> QED
    BY <1>2, <2>1, <2>2, <2>3, OneProcessor
<1>4. CASE pc[p] = "recheck"
  <2>1. visited' = visited \cup {p} /\ pc' = [pc EXCEPT ![p] = "guest"]
    BY <1>4 DEF EnterOrReturn, is_our_hypervisor_present, Goto
  <2>2. TypeOK' /\ Elsewhere(p) /\ pc'[p] = "guest" /\ p \in visited'
    BY <2>1 DEF EnterOrReturn, Inv, TypeOK, Elsewhere, Pcs
  <2>3. ProcInv(p)'
    BY <1>1, <1>2, <1>4, <2>1, <2>2
    DEF Inv, ProcInv, Place, IdOf, FlagsOf, ValuesOf, Expected, InRegisters, IsOn, IsActive, Switched,
        Vendor, VmxLockedOut, DuplicateIds, Entering, Leaving, InGuest
  <2> QED
    BY <1>1, <1>2, <2>1, <2>2, <2>3, OneMore
<1> QED
  BY <1>1, <1>3, <1>4

(* Only VMXON on a machine that is locked out of VMX faults.               *)
LEMMA vmx_enableSafe ==
    ASSUME Inv, NEW p \in Processors, vmx_enable(p)
    PROVE  Inv'
<1>1. ~flags[p].vmxon /\ pc[p] = "main" /\ Vendor = "intel"
  BY DEF vmx_enable, Inv, ProcInv, FlagsOf, IsOn
<1>2. /\ phys' = [phys EXCEPT ![p]["fixed"] = Adjusted]
      /\ saved' = [saved EXCEPT ![p].fixed = phys[p]["fixed"]]
      /\ UNCHANGED <<machine, save, host, ids, phase, visited, mine, writes>>
  BY DEF vmx_enable
<1>3. /\ phys' \in [Processors -> [Regs -> Values]]
      /\ saved' \in [Processors -> [fixed : Values, efer : Values]]
  <2>1. phys[p]["fixed"] \in Values /\ Adjusted \in Values
    BY DEF Inv, TypeOK, Regs, Values
  <2> QED
    BY <1>2, <2>1 DEF Inv, TypeOK
<1>4. phys'[p] = [phys[p] EXCEPT !["fixed"] = Adjusted]
  BY <1>2 DEF Inv, TypeOK
<1>5. CASE update_feature_control_msr = "off"
  <2>1. VmxLockedOut
    BY <1>1, <1>5 DEF update_feature_control_msr, VmxLockedOut
  <2>2. pc' = [pc EXCEPT ![p] = "fault"] /\ flags' = flags
    BY <1>5 DEF vmx_enable, Goto
  <2>3. TypeOK' /\ Elsewhere(p) /\ pc'[p] = "fault"
    BY <1>2, <1>3, <2>2 DEF Inv, TypeOK, Elsewhere, Pcs
  <2>4. ProcInv(p)'
    BY <1>1, <1>2, <2>1, <2>2, <2>3
    DEF Inv, ProcInv, Place, IdOf, FlagsOf, ValuesOf, Expected, InRegisters, IsOn, IsActive,
        Switched, Vendor, VmxLockedOut, DuplicateIds, Entering, Leaving, InGuest
  <2> QED
    BY <1>2, <2>3, <2>4, OneProcessor
<1>6. CASE update_feature_control_msr # "off"
  <2>1. /\ flags' = [flags EXCEPT ![p] = [@ EXCEPT !.vmxon = TRUE]]
        /\ pc' = [pc EXCEPT ![p] = "enabled"]
    BY <1>1, <1>6 DEF vmx_enable, Goto, SetFlags
  <2>2. TypeOK'
    BY <1>2, <1>3, <2>1, FlagTypes DEF Inv, TypeOK, Pcs
  <2>3. Elsewhere(p) /\ pc'[p] = "enabled"
    BY <1>2, <2>1 DEF Inv, TypeOK, Elsewhere
  <2>4. /\ flags'[p].vmxon /\ flags'[p].svme = flags[p].svme
        /\ flags'[p].vmcs = flags[p].vmcs /\ flags'[p].hsave = flags[p].hsave
    BY <2>1 DEF Inv, TypeOK, Flags
  <2>5. ValuesOf(p)'
    <3>1. phys[p] = mine[p]
      BY <1>1 DEF Inv, ProcInv, ValuesOf, Expected, InRegisters
    <3>2. phys'[p] = Expected(p)'
      BY <1>2, <1>4, <2>4, <3>1 DEF Expected
    <3> QED
      BY <2>3, <3>2 DEF ValuesOf
  <2>6. ProcInv(p)'
    BY <1>1, <1>2, <2>3, <2>4, <2>5
    DEF Inv, ProcInv, Place, IdOf, FlagsOf, IsOn, IsActive, Vendor, VmxLockedOut, DuplicateIds,
        Entering, Leaving, InGuest
  <2> QED
    BY <1>2, <2>2, <2>3, <2>6, OneProcessor
<1> QED
  BY <1>5, <1>6

LEMMA svm_enableSafe ==
    ASSUME Inv, NEW p \in Processors, svm_enable(p)
    PROVE  Inv'
<1>1. /\ flags' = [flags EXCEPT ![p] = [@ EXCEPT !.svme = TRUE]]
      /\ pc' = [pc EXCEPT ![p] = "enabled"]
      /\ saved' = [saved EXCEPT ![p].efer = phys[p]["efer"]]
      /\ UNCHANGED <<machine, phys, save, host, ids, phase, visited, mine, writes>>
      /\ pc[p] = "main" /\ Vendor = "amd"
  BY DEF svm_enable, Goto, SetFlags
<1>2. TypeOK'
  <2>1. flags[p] \in Flags /\ phys[p]["efer"] \in Values
    BY DEF Inv, TypeOK, Regs
  <2>2. saved' \in [Processors -> [fixed : Values, efer : Values]]
    BY <1>1, <2>1 DEF Inv, TypeOK
  <2> QED
    BY <1>1, <2>1, <2>2, FlagTypes DEF Inv, TypeOK, Pcs
<1>3. Elsewhere(p) /\ pc'[p] = "enabled"
  BY <1>1 DEF Inv, TypeOK, Elsewhere
<1>4. /\ flags'[p].svme /\ flags'[p].vmxon = flags[p].vmxon
      /\ flags'[p].vmcs = flags[p].vmcs /\ flags'[p].hsave = flags[p].hsave
  BY <1>1 DEF Inv, TypeOK, Flags
<1>5. ProcInv(p)'
  BY <1>1, <1>3, <1>4
  DEF Inv, ProcInv, Place, IdOf, FlagsOf, ValuesOf, Expected, InRegisters, IsOn, IsActive, Switched,
      Vendor, VmxLockedOut, DuplicateIds, Entering, Leaving, InGuest
<1> QED
  BY <1>1, <1>2, <1>3, <1>5, OneProcessor

LEMMA new_guestSafe ==
    ASSUME Inv, NEW p \in Processors, new_guest(p)
    PROVE  Inv'
<1>1. ids[p] # NoId
  <2>1. p # 0
    BY CountAssumption DEF Processors
  <2> QED
    BY <2>1 DEF new_guest, Inv, ProcInv, Place, IdOf, NoId
<1>2. Vendor = "intel" => flags[p].vmxon
  BY DEF new_guest, Inv, ProcInv, FlagsOf, IsOn
<1>3. /\ pc' = [pc EXCEPT ![p] = "created"] /\ pc[p] = "enabled"
      /\ UNCHANGED <<machine, phys, save, host, flags, saved, ids, phase, visited, mine, writes>>
  BY <1>1, <1>2 DEF new_guest, Goto
<1>4. TypeOK' /\ Elsewhere(p) /\ pc'[p] = "created"
  BY <1>3 DEF Inv, TypeOK, Elsewhere, Pcs
<1>5. ProcInv(p)'
  BY <1>3, <1>4
  DEF Inv, ProcInv, Place, IdOf, FlagsOf, ValuesOf, Expected, InRegisters, IsOn, IsActive, Switched,
      Vendor, VmxLockedOut, DuplicateIds, Entering, Leaving, InGuest
<1> QED
  BY <1>3, <1>4, <1>5, OneProcessor

LEMMA activateSafe ==
    ASSUME Inv, NEW p \in Processors, activate(p)
    PROVE  Inv'
<1>1. /\ flags' = [flags EXCEPT ![p] = IF Vendor = "intel" THEN vmx_activate(@) ELSE svm_activate(@)]
      /\ pc' = [pc EXCEPT ![p] = "activated"] /\ pc[p] = "created"
      /\ UNCHANGED <<machine, phys, save, host, saved, ids, phase, visited, mine, writes>>
  BY DEF activate, Goto, SetFlags
<1>2. TypeOK'
  BY <1>1, FlagTypes DEF Inv, TypeOK, Pcs, vmx_activate, svm_activate
<1>3. Elsewhere(p) /\ pc'[p] = "activated"
  BY <1>1 DEF Inv, TypeOK, Elsewhere
<1>4. /\ flags'[p].vmxon = flags[p].vmxon /\ flags'[p].svme = flags[p].svme
      /\ IF Vendor = "intel" THEN flags'[p].vmcs /\ flags'[p].hsave = flags[p].hsave
                             ELSE flags'[p].hsave /\ flags'[p].vmcs = flags[p].vmcs
  BY <1>1 DEF Inv, TypeOK, Flags, vmx_activate, svm_activate
<1>5. Vendor \in {"intel", "amd"}
  BY MachineAssumption DEF Inv, TypeOK, Vendor
<1>6. FlagsOf(p)'
  BY <1>1, <1>3, <1>4, <1>5 DEF Inv, ProcInv, FlagsOf, IsOn, IsActive, Vendor
<1>7. ValuesOf(p)'
  <2>1. Expected(p)' = Expected(p)
    BY <1>1, <1>4, ExpectedStays
  <2>2. phys[p] = Expected(p)
    BY <1>1 DEF Inv, ProcInv, ValuesOf, InRegisters
  <2> QED
    BY <1>1, <1>3, <2>1, <2>2 DEF ValuesOf
<1>8. ProcInv(p)'
  BY <1>1, <1>3, <1>6, <1>7
  DEF Inv, ProcInv, Place, IdOf, Vendor, VmxLockedOut, DuplicateIds, Entering,
      Leaving, InGuest
<1> QED
  BY <1>1, <1>2, <1>3, <1>8, OneProcessor

-----------------------------------------------------------------------------
(* Values move between the registers and the save areas.                   *)

LEMMA LoadTypes ==
    ASSUME NEW a \in [Regs -> Values], NEW b \in [Regs -> Values], NEW c
    PROVE  Load(a, c, b) \in [Regs -> Values]
BY DEF Load

LEMMA LoadedValues ==
    ASSUME NEW a, NEW b, NEW c, NEW r \in Regs
    PROVE  Load(a, c, b)[r] = IF r \in c THEN a[r] ELSE b[r]
BY DEF Load

LEMMA OwnTablesTypes ==
    ASSUME NEW a \in [Regs -> Values]
    PROVE  WithOwnTables(a) \in [Regs -> Values]
BY DEF WithOwnTables, Values

LEMMA VendorKnown ==
    ASSUME TypeOK
    PROVE  Vendor \in {"intel", "amd"} /\ Switched \subseteq Regs /\ {"cr", "dtr"} \subseteq Switched
BY MachineAssumption DEF TypeOK, Vendor, Switched, Regs

LEMMA vmx_initializeSafe ==
    ASSUME Inv, NEW p \in Processors, vmx_initialize(p)
    PROVE  Inv'
<1>1. flags[p].vmcs
  BY DEF vmx_initialize, Inv, ProcInv, FlagsOf, IsOn, IsActive
<1>2. /\ save' = [save EXCEPT ![p] = Load(phys[p], Switched, @)]
      /\ host' = [host EXCEPT ![p] = Load(WithOwnTables(phys[p]), {"cr", "fixed", "dtr"}, @)]
      /\ pc' = [pc EXCEPT ![p] = "initialized"] /\ pc[p] = "activated"
      /\ UNCHANGED <<machine, phys, flags, saved, ids, phase, visited, mine, writes>>
  BY <1>1 DEF vmx_initialize, vmx_initialize_guest, vmx_initialize_host, Switched, Goto
<1>3. TypeOK'
  <2>1. /\ phys[p] \in [Regs -> Values] /\ save[p] \in [Regs -> Values] /\ host[p] \in [Regs -> Values]
    BY DEF Inv, TypeOK
  <2>2. /\ Load(phys[p], Switched, save[p]) \in [Regs -> Values]
        /\ Load(WithOwnTables(phys[p]), {"cr", "fixed", "dtr"}, host[p]) \in [Regs -> Values]
    BY <2>1, LoadTypes, OwnTablesTypes
  <2> QED
    BY <1>2, <2>2 DEF Inv, TypeOK, Pcs
<1>4. Elsewhere(p) /\ pc'[p] = "initialized" /\ save'[p] = Load(phys[p], Switched, save[p])
  BY <1>2 DEF Inv, TypeOK, Elsewhere
<1>5. phys[p] = Expected(p)
  BY <1>2 DEF Inv, ProcInv, ValuesOf, InRegisters
<1>6. ValuesOf(p)'
  <2>1. Switched' = Switched
    BY <1>2 DEF Switched, Vendor
  <2>2. Expected(p)' = Expected(p)
    BY <1>2, ExpectedStays
  <2> QED
    BY <1>2, <1>4, <1>5, <2>1, <2>2, LoadedValues DEF ValuesOf, InRegisters
<1>7. ProcInv(p)'
  BY <1>2, <1>4, <1>6
  DEF Inv, ProcInv, Place, IdOf, FlagsOf, IsOn, IsActive, Vendor, VmxLockedOut, DuplicateIds, Entering,
      Leaving, InGuest
<1> QED
  BY <1>2, <1>3, <1>4, <1>7, OneProcessor

LEMMA svm_initializeSafe ==
    ASSUME Inv, NEW p \in Processors, svm_initialize(p)
    PROVE  Inv'
<1>1. /\ save' = [save EXCEPT ![p] = phys[p]]
      /\ phys' = [phys EXCEPT ![p] = WithOwnTables(@)]
      /\ host' = [host EXCEPT ![p] = phys'[p]]
      /\ flags' = [flags EXCEPT ![p] = [@ EXCEPT !.rinit = TRUE]]
      /\ pc' = [pc EXCEPT ![p] = "initialized"] /\ pc[p] = "activated" /\ Vendor = "amd"
      /\ UNCHANGED <<machine, saved, ids, phase, visited, mine, writes>>
  BY DEF svm_initialize, svm_initialize_guest, svm_initialize_host, svm_initialize_control,
         Goto, SetFlags
<1>2. TypeOK'
  <2>1. /\ phys[p] \in [Regs -> Values] /\ flags[p] \in Flags
    BY DEF Inv, TypeOK
  <2>2. WithOwnTables(phys[p]) \in [Regs -> Values]
    BY <2>1, OwnTablesTypes
  <2>3. phys' \in [Processors -> [Regs -> Values]]
    BY <1>1, <2>2 DEF Inv, TypeOK
  <2> QED
    BY <1>1, <2>1, <2>3, FlagTypes DEF Inv, TypeOK, Pcs
<1>3. Elsewhere(p) /\ pc'[p] = "initialized" /\ save'[p] = phys[p]
  BY <1>1 DEF Inv, TypeOK, Elsewhere
<1>4. /\ flags'[p].vmxon = flags[p].vmxon /\ flags'[p].svme = flags[p].svme
      /\ flags'[p].vmcs = flags[p].vmcs /\ flags'[p].hsave = flags[p].hsave
  BY <1>1 DEF Inv, TypeOK, Flags
<1>5. phys[p] = Expected(p)
  BY <1>1 DEF Inv, ProcInv, ValuesOf, InRegisters
<1>6. ValuesOf(p)'
  <2>1. Switched' = Regs
    BY <1>1 DEF Switched, Vendor
  <2>2. Expected(p)' = Expected(p)
    BY <1>1, <1>4, ExpectedStays
  <2> QED
    BY <1>1, <1>3, <1>5, <2>1, <2>2 DEF ValuesOf, InRegisters
<1>7. ProcInv(p)'
  BY <1>1, <1>3, <1>4, <1>6
  DEF Inv, ProcInv, Place, IdOf, FlagsOf, IsOn, IsActive, Vendor, VmxLockedOut, DuplicateIds, Entering,
      Leaving, InGuest
<1> QED
  BY <1>1, <1>2, <1>3, <1>7, OneProcessor

(* VM entry never finds a processor unready, and gives the guest back what *)
(* is in its save area.                                                    *)
LEMMA VmEntrySafe ==
    ASSUME Inv, NEW p \in Processors, VmEntry(p)
    PROVE  Inv'
<1> DEFINE l == IF pc[p] = "initialized" THEN "recheck" ELSE "guest"
<1>1. EntryOk(flags[p])
  BY VendorKnown DEF VmEntry, EntryOk, Inv, ProcInv, FlagsOf, IsOn, IsActive
<1>2. /\ phys' = [phys EXCEPT ![p] = Load(save[p], Switched, @)]
      /\ flags' = [flags EXCEPT ![p] = [@ EXCEPT !.gif = TRUE]]
      /\ pc' = [pc EXCEPT ![p] = l] /\ pc[p] \in {"initialized", "exit"}
      /\ UNCHANGED <<machine, save, host, saved, ids, phase, visited, mine, writes>>
  BY <1>1 DEF VmEntry, Goto, SetFlags
<1>3. TypeOK'
  <2>1. /\ phys[p] \in [Regs -> Values] /\ save[p] \in [Regs -> Values] /\ flags[p] \in Flags
    BY DEF Inv, TypeOK
  <2>2. Load(save[p], Switched, phys[p]) \in [Regs -> Values]
    BY <2>1, LoadTypes
  <2> QED
    BY <1>2, <2>1, <2>2, FlagTypes DEF Inv, TypeOK, Pcs
<1>4. Elsewhere(p) /\ pc'[p] = l /\ phys'[p] = Load(save[p], Switched, phys[p])
  BY <1>2 DEF Inv, TypeOK, Elsewhere
<1>5. /\ flags'[p].vmxon = flags[p].vmxon /\ flags'[p].svme = flags[p].svme
      /\ flags'[p].vmcs = flags[p].vmcs /\ flags'[p].hsave = flags[p].hsave
  BY <1>2 DEF Inv, TypeOK, Flags
<1>6. phys'[p] = Expected(p)
  <2>1. \A r \in Regs : phys'[p][r] = Expected(p)[r]
    BY <1>2, <1>4, LoadedValues DEF Inv, ProcInv, ValuesOf
  <2>2. Expected(p) \in [Regs -> Values]
    BY ExpectedValues DEF Inv
  <2> QED
    BY <1>3, <2>1, <2>2 DEF TypeOK
<1>7. ValuesOf(p)'
  <2>1. Expected(p)' = Expected(p)
    BY <1>2, <1>5, ExpectedStays
  <2> QED
    BY <1>2, <1>4, <1>6, <2>1 DEF ValuesOf
<1>8. FlagsOf(p)'
  BY <1>2, <1>4, <1>5 DEF Inv, ProcInv, FlagsOf, IsOn, IsActive, Vendor
<1>9. ProcInv(p)'
  BY <1>2, <1>4, <1>7, <1>8
  DEF Inv, ProcInv, Place, IdOf, Vendor, VmxLockedOut, DuplicateIds, Entering, Leaving, InGuest
<1> QED
  BY <1>2, <1>3, <1>4, <1>9, OneProcessor

(* A VM exit moves the guest's values to its save area.                    *)
LEMMA VmExitSafe ==
    ASSUME Inv, NEW p \in Processors, NEW l, VmExit(p, l), pc[p] = "guest",
           l = "exit" \/ (l = "leave" /\ phase = "devirtualizing" /\ visited = 1 .. (p - 1))
    PROVE  Inv'
<1>1. /\ save' = [save EXCEPT ![p] = Load(phys[p], Switched, @)]
      /\ phys' = [phys EXCEPT ![p] = Load(host[p], Switched, @)]
      /\ flags' = [flags EXCEPT ![p] = [@ EXCEPT !.gif = (Vendor = "intel")]]
      /\ pc' = [pc EXCEPT ![p] = l]
      /\ UNCHANGED <<machine, host, saved, ids, phase, visited, mine, writes>>
  BY DEF VmExit, Goto, SetFlags
<1>2. TypeOK'
  <2>1. /\ phys[p] \in [Regs -> Values] /\ save[p] \in [Regs -> Values]
        /\ host[p] \in [Regs -> Values] /\ flags[p] \in Flags
    BY DEF Inv, TypeOK
  <2>2. /\ Load(phys[p], Switched, save[p]) \in [Regs -> Values]
        /\ Load(host[p], Switched, phys[p]) \in [Regs -> Values]
    BY <2>1, LoadTypes
  <2> QED
    BY <1>1, <2>1, <2>2, FlagTypes DEF Inv, TypeOK, Pcs
<1>3. /\ Elsewhere(p) /\ pc'[p] = l
      /\ save'[p] = Load(phys[p], Switched, save[p]) /\ phys'[p] = Load(host[p], Switched, phys[p])
  BY <1>1 DEF Inv, TypeOK, Elsewhere
<1>4. /\ flags'[p].vmxon = flags[p].vmxon /\ flags'[p].svme = flags[p].svme
      /\ flags'[p].vmcs = flags[p].vmcs /\ flags'[p].hsave = flags[p].hsave
  BY <1>1 DEF Inv, TypeOK, Flags
<1>5. phys[p] = Expected(p)
  BY DEF Inv, ProcInv, ValuesOf, InRegisters
<1>6. ValuesOf(p)'
  <2>1. Switched' = Switched
    BY <1>1 DEF Switched, Vendor
  <2>2. Expected(p)' = Expected(p)
    BY <1>1, <1>4, ExpectedStays
  <2> QED
    BY <1>1, <1>3, <1>5, <2>1, <2>2, LoadedValues DEF ValuesOf, InRegisters
<1>7. FlagsOf(p)'
  BY <1>1, <1>3, <1>4 DEF Inv, ProcInv, FlagsOf, IsOn, IsActive, Vendor
<1>8. ProcInv(p)'
  BY <1>1, <1>3, <1>6, <1>7
  DEF Inv, ProcInv, Place, IdOf, Vendor, VmxLockedOut, DuplicateIds, Entering, Leaving, InGuest
<1> QED
  BY <1>1, <1>2, <1>3, <1>8, OneProcessor

(* The hypercall finds every processor in a guest.                         *)
LEMMA hypercall_devirtualizeSafe ==
    ASSUME Inv, NEW p \in Processors, hypercall_devirtualize(p)
    PROVE  Inv'
<1>1. visited = 1 .. (p - 1) /\ phase = "devirtualizing"
  BY TurnIs DEF hypercall_devirtualize, Inv
<1>2. p \notin visited
  BY <1>1, Advance
<1>3. pc[p] = "guest"
  BY <1>1, <1>2 DEF hypercall_devirtualize, Inv, ProcInv, Place, InGuest, Leaving
<1>4. VmExit(p, "leave")
  BY <1>3 DEF hypercall_devirtualize
<1> QED
  BY <1>1, <1>3, <1>4, VmExitSafe

(* The system's own writes go to the registers that it has.                *)
LEMMA SystemWritesSafe ==
    ASSUME Inv, NEW p \in Processors, NEW r \in Regs, SystemWrites(p, r)
    PROVE  Inv'
<1>1. /\ phys' = [phys EXCEPT ![p][r] = writes + 1]
      /\ mine' = [mine EXCEPT ![p][r] = writes + 1]
      /\ writes' = writes + 1 /\ writes < MaxWrites /\ pc[p] \in {"guest", "native"}
      /\ r = "fixed" => ~flags[p].vmxon
      /\ UNCHANGED <<machine, pc, save, host, flags, saved, ids, phase, visited>>
  BY DEF SystemWrites
<1>2. TypeOK'
  <2>1. writes + 1 \in 0 .. MaxWrites
    BY <1>1, WritesAssumption DEF Inv, TypeOK
  <2>2. writes + 1 \in Values
    BY <2>1 DEF Values
  <2>3. phys' \in [Processors -> [Regs -> Values]] /\ mine' \in [Processors -> [Regs -> Values]]
    BY <1>1, <2>2 DEF Inv, TypeOK
  <2> QED
    BY <1>1, <2>1, <2>3 DEF Inv, TypeOK
<1>3. /\ Elsewhere(p) 
      /\ phys'[p] = [phys[p] EXCEPT ![r] = writes + 1]
      /\ mine'[p] = [mine[p] EXCEPT ![r] = writes + 1]
  BY <1>1 DEF Inv, TypeOK, Elsewhere
<1>4. ValuesOf(p)'
  <2>1. InRegisters(p)' => phys'[p] = Expected(p)'
    <3> SUFFICES ASSUME InRegisters(p)'
                 PROVE  phys'[p] = Expected(p)'
      OBVIOUS
    <3>1. phys[p] = Expected(p)
      BY <1>1 DEF Inv, ProcInv, ValuesOf, InRegisters
    <3>2. Expected(p)' = [Expected(p) EXCEPT ![r] = writes + 1]
      <4>1. mine[p] \in [Regs -> Values] /\ "fixed" \in Regs
        BY DEF Inv, TypeOK, Regs
      <4> QED
        BY <1>1, <1>3, <4>1 DEF Expected
    <3> QED
      BY <1>3, <3>1, <3>2
  <2>2. ASSUME NEW x \in {"cr", "dtr"}, phys[p][x] = mine[p][x]
        PROVE  phys'[p][x] = mine'[p][x]
    <3>1. x \in Regs
      BY DEF Regs
    <3> QED
      BY <1>3, <2>2, <3>1 DEF Inv, TypeOK
  <2>3. pc[p] = "native" => phys[p]["cr"] = mine[p]["cr"] /\ phys[p]["dtr"] = mine[p]["dtr"]
    BY DEF Inv, ProcInv, ValuesOf
  <2>4. pc[p] = "native" => phys'[p]["cr"] = mine'[p]["cr"] /\ phys'[p]["dtr"] = mine'[p]["dtr"]
    BY <2>2, <2>3
  <2> QED
    BY <1>1, <2>1, <2>4 DEF ValuesOf
<1>5. ProcInv(p)'
  BY <1>1, <1>4
  DEF Inv, ProcInv, Place, IdOf, FlagsOf, IsOn, IsActive, Vendor, VmxLockedOut, DuplicateIds, Entering,
      Leaving, InGuest
<1> QED
  BY <1>1, <1>2, <1>3, <1>5, OneProcessor

-----------------------------------------------------------------------------
(* The way out.                                                            *)

LEMMA load_guest_cpu_stateSafe ==
    ASSUME Inv, NEW p \in Processors, load_guest_cpu_state(p)
    PROVE  Inv'
<1> DEFINE c == IF Vendor = "intel" THEN vmx_load ELSE svm_load
<1>1. /\ phys' = [phys EXCEPT ![p] = Load(save[p], c, @)]
      /\ pc' = [pc EXCEPT ![p] = "loaded"] /\ pc[p] = "leave"
      /\ flags' = [flags EXCEPT ![p] = [@ EXCEPT !.svme = FALSE]]
      /\ UNCHANGED <<machine, save, host, saved, ids, phase, visited, mine, writes>>
  BY DEF load_guest_cpu_state, Goto, SetFlags
<1>2. {"cr", "dtr"} \subseteq c /\ {"cr", "dtr"} \subseteq Regs /\ {"cr", "dtr"} \subseteq Switched
  BY DEF vmx_load, svm_load, Regs, Switched
<1> HIDE DEF c
<1>3. TypeOK'
  <2>1. /\ phys[p] \in [Regs -> Values] /\ save[p] \in [Regs -> Values]
    BY DEF Inv, TypeOK
  <2>2. Load(save[p], c, phys[p]) \in [Regs -> Values]
    BY <2>1, LoadTypes
  <2> QED
    BY <1>1, <2>2, FlagTypes DEF Inv, TypeOK, Pcs
<1>4. Elsewhere(p) /\ pc'[p] = "loaded" /\ phys'[p] = Load(save[p], c, phys[p])
  BY <1>1 DEF Inv, TypeOK, Elsewhere
<1>5. ValuesOf(p)'
  <2>1. \A r \in {"cr", "dtr"} : mine[p][r] = save[p][r]
    <3>1. \A r \in Regs : Expected(p)[r] = IF r \in Switched THEN save[p][r] ELSE phys[p][r]
      BY <1>1 DEF Inv, ProcInv, ValuesOf
    <3>2. \A r \in {"cr", "dtr"} : Expected(p)[r] = mine[p][r]
      BY <1>2, ExpectedValues DEF Inv
    <3> QED
      BY <1>2, <3>1, <3>2
  <2>2. \A r \in {"cr", "dtr"} : phys'[p][r] = save[p][r]
    BY <1>2, <1>4, LoadedValues
  <2> QED
    BY <1>1, <1>4, <2>1, <2>2 DEF ValuesOf, InRegisters
<1>6. FlagsOf(p)'
  <2>1. /\ ~flags'[p].svme /\ flags'[p].vmxon = flags[p].vmxon
        /\ flags'[p].vmcs = flags[p].vmcs /\ flags'[p].hsave = flags[p].hsave
    BY <1>1 DEF Inv, TypeOK, Flags
  <2> QED
    BY <1>1, <1>4, <2>1 DEF Inv, ProcInv, FlagsOf, IsOn, IsActive, Vendor
<1>7. ProcInv(p)'
  BY <1>1, <1>4, <1>5, <1>6
  DEF Inv, ProcInv, Place, IdOf, Vendor, VmxLockedOut, DuplicateIds, Entering,
      Leaving, InGuest
<1> QED
  BY <1>1, <1>3, <1>4, <1>7, OneProcessor

LEMMA deactivateSafe ==
    ASSUME Inv, NEW p \in Processors, vmx_deactivate(p) \/ svm_deactivate(p)
    PROVE  Inv'
<1>1. Vendor = "intel" /\ pc[p] = "loaded" => flags[p].vmxon
  BY DEF Inv, ProcInv, FlagsOf, IsOn
<1>2. /\ flags' = [flags EXCEPT ![p] = IF Vendor = "intel" THEN [@ EXCEPT !.vmcs = FALSE]
                                                          ELSE [@ EXCEPT !.hsave = FALSE]]
      /\ pc' = [pc EXCEPT ![p] = "inactive"] /\ pc[p] = "loaded"
      /\ UNCHANGED <<machine, phys, save, host, saved, ids, phase, visited, mine, writes>>
  BY <1>1 DEF vmx_deactivate, svm_deactivate, SetFlags, Goto
<1>3. TypeOK'
  BY <1>2, FlagTypes DEF Inv, TypeOK, Pcs
<1>4. Elsewhere(p) /\ pc'[p] = "inactive"
  BY <1>2 DEF Inv, TypeOK, Elsewhere
<1>5. /\ flags'[p].vmxon = flags[p].vmxon /\ flags'[p].svme = flags[p].svme
      /\ IF Vendor = "intel" THEN ~flags'[p].vmcs /\ flags'[p].hsave = flags[p].hsave
                             ELSE ~flags'[p].hsave /\ flags'[p].vmcs = flags[p].vmcs
  BY <1>2 DEF Inv, TypeOK, Flags
<1>6. FlagsOf(p)'
  BY <1>2, <1>4, <1>5 DEF Inv, ProcInv, FlagsOf, IsOn, IsActive, Vendor
<1>7. ProcInv(p)'
  BY <1>2, <1>4, <1>6
  DEF Inv, ProcInv, Place, IdOf, ValuesOf, Expected, InRegisters, Vendor, VmxLockedOut, DuplicateIds, Entering,
      Leaving, InGuest
<1> QED
  BY <1>2, <1>3, <1>4, <1>7, OneProcessor

LEMMA vmx_disableSafe ==
    ASSUME Inv, NEW p \in Processors, vmx_disable(p)
    PROVE  Inv'
<1>1. flags[p].vmxon
  BY DEF vmx_disable, Inv, ProcInv, FlagsOf, IsOn
<1>2. /\ flags' = [flags EXCEPT ![p] = [@ EXCEPT !.vmxon = FALSE]]
      /\ pc' = [pc EXCEPT ![p] = "disabled"] /\ pc[p] = "inactive" /\ Vendor = "intel"
      /\ UNCHANGED <<machine, phys, save, host, saved, ids, phase, visited, mine, writes>>
  BY <1>1 DEF vmx_disable, SetFlags, Goto
<1>3. TypeOK'
  BY <1>2, FlagTypes DEF Inv, TypeOK, Pcs
<1>4. Elsewhere(p) /\ pc'[p] = "disabled"
  BY <1>2 DEF Inv, TypeOK, Elsewhere
<1>5. /\ ~flags'[p].vmxon /\ flags'[p].svme = flags[p].svme
      /\ flags'[p].vmcs = flags[p].vmcs /\ flags'[p].hsave = flags[p].hsave
  BY <1>2 DEF Inv, TypeOK, Flags
<1>6. FlagsOf(p)'
  BY <1>2, <1>4, <1>5 DEF Inv, ProcInv, FlagsOf, IsOn, IsActive, Vendor
<1>7. ProcInv(p)'
  BY <1>2, <1>4, <1>6
  DEF Inv, ProcInv, Place, IdOf, ValuesOf, Expected, InRegisters, Vendor, VmxLockedOut, DuplicateIds, Entering,
      Leaving, InGuest
<1> QED
  BY <1>2, <1>3, <1>4, <1>7, OneProcessor

(* EFER is put back to an old value; the control registers and tables are  *)
(* not touched.                                                            *)
LEMMA svm_disableSafe ==
    ASSUME Inv, NEW p \in Processors, svm_disable(p)
    PROVE  Inv'
<1>1. /\ flags' = [flags EXCEPT ![p] = [@ EXCEPT !.svme = FALSE]]
      /\ phys' = [phys EXCEPT ![p]["efer"] = saved[p].efer]
      /\ pc' = [pc EXCEPT ![p] = "disabled"] /\ pc[p] = "inactive" /\ Vendor = "amd"
      /\ UNCHANGED <<machine, save, host, saved, ids, phase, visited, mine, writes>>
  BY DEF svm_disable, SetFlags, Goto
<1>2. TypeOK'
  <2>1. saved[p].efer \in Values
    BY DEF Inv, TypeOK
  <2>2. phys' \in [Processors -> [Regs -> Values]]
    BY <1>1, <2>1 DEF Inv, TypeOK
  <2> QED
    BY <1>1, <2>2, FlagTypes DEF Inv, TypeOK, Pcs
<1>3. /\ Elsewhere(p) /\ pc'[p] = "disabled"
      /\ phys'[p]["cr"] = phys[p]["cr"] /\ phys'[p]["dtr"] = phys[p]["dtr"]
  BY <1>1 DEF Inv, TypeOK, Elsewhere, Regs
<1>4. /\ ~flags'[p].svme /\ flags'[p].vmxon = flags[p].vmxon
      /\ flags'[p].vmcs = flags[p].vmcs /\ flags'[p].hsave = flags[p].hsave
  BY <1>1 DEF Inv, TypeOK, Flags
<1>5. FlagsOf(p)'
  BY <1>1, <1>3, <1>4 DEF Inv, ProcInv, FlagsOf, IsOn, IsActive, Vendor
<1>6. ProcInv(p)'
  BY <1>1, <1>3, <1>5
  DEF Inv, ProcInv, Place, IdOf, ValuesOf, Expected, InRegisters, Vendor, VmxLockedOut, DuplicateIds, Entering,
      Leaving, InGuest
<1> QED
  BY <1>1, <1>2, <1>3, <1>6, OneProcessor

LEMMA restoreSafe ==
    ASSUME Inv, NEW p \in Processors, restore(p)
    PROVE  Inv'
<1>1. /\ pc' = [pc EXCEPT ![p] = "native"] /\ pc[p] = "disabled"
      /\ visited' = visited \cup {p}
      /\ UNCHANGED <<machine, phys, save, host, flags, saved, ids, phase, mine, writes>>
  BY DEF restore, Goto
<1>2. visited = 1 .. (p - 1) /\ phase = "devirtualizing"
  BY <1>1 DEF Inv, ProcInv, Place, TypeOK, Entering, Leaving, InGuest
<1>3. TypeOK' /\ Elsewhere(p) /\ pc'[p] = "native" /\ p \in visited'
  BY <1>1 DEF Inv, TypeOK, Elsewhere, Pcs
<1>4. ProcInv(p)'
  BY <1>1, <1>2, <1>3
  DEF Inv, ProcInv, Place, IdOf, FlagsOf, IsOn, IsActive, ValuesOf, Expected, InRegisters, Vendor,
      VmxLockedOut, DuplicateIds, Entering, Leaving
<1> QED
  BY <1>1, <1>2, <1>3, <1>4, OneMore

-----------------------------------------------------------------------------
LEMMA NextInv ==
    ASSUME Inv, [Next]_vars
    PROVE  Inv'
<1>1. CASE Platform
  BY <1>1, PlatformSafe
<1>2. ASSUME NEW p \in Processors, Callback(p)
      PROVE  Inv'
  BY <1>2, apic_id_initSafe, capture_currentSafe, hypercall_devirtualizeSafe DEF Callback
<1>3. ASSUME NEW p \in Processors, Hypervisor(p)
      PROVE  Inv'
  BY <1>3, EnterOrReturnSafe, vmx_enableSafe, svm_enableSafe, new_guestSafe, activateSafe,
     vmx_initializeSafe, svm_initializeSafe, VmEntrySafe, load_guest_cpu_stateSafe,
     deactivateSafe, vmx_disableSafe, svm_disableSafe, restoreSafe DEF Hypervisor
<1>4. ASSUME NEW p \in Processors, OtherExit(p)
      PROVE  Inv'
  BY <1>4, VmExitSafe DEF OtherExit
<1>5. ASSUME NEW p \in Processors, NEW r \in Regs, SystemWrites(p, r)
      PROVE  Inv'
  BY <1>5, SystemWritesSafe
<1>6. CASE UNCHANGED vars
  <2>1. TypeOK' /\ VisitedInv'
    BY <1>6 DEF vars, Inv, TypeOK, VisitedInv
  <2>2. ASSUME NEW p \in Processors
        PROVE  ProcInv(p)'
    <3>1. ProcInv(p)
      BY DEF Inv
    <3> QED
      BY <1>6, <3>1
      DEF vars, ProcInv, Place, IdOf, FlagsOf, IsOn, IsActive, ValuesOf, Expected, InRegisters, Switched,
          Vendor, VmxLockedOut, DuplicateIds
  <2> QED
    BY <2>1, <2>2 DEF Inv
<1> QED
  BY <1>1, <1>2, <1>3, <1>4, <1>5, <1>6 DEF Next

(* The variables keep their types on every machine.                        *)
THEOREM TypeCorrect == Spec => []TypeOK
<1>1. Inv => TypeOK
  BY DEF Inv
<1> QED
  BY <1>1, InitInv, NextInv, PTL DEF Spec

(* enable(), activate(), run(), deactivate() and disable() of both vendors *)
(* never execute an instruction that the processor is not ready for, for   *)
(* any number of processors and exits: only VMXON where VMX is locked out. *)
(* apic_id::init() fails for no ids but duplicate ones.                    *)
THEOREM NothingFaults == Spec => []NoFault
<1>1. Inv => NoFault
  BY DEF Inv, ProcInv, Place, NoFault
<1> QED
  BY <1>1, InitInv, NextInv, PTL DEF Spec

(* Whenever a processor runs as a guest, from the second return of         *)
(* capture_current() on, its system registers are what the system made     *)
(* them, however many exits and writes there were; but for the bits of CR0 *)
(* and CR4 that VMX fixes, which are as enable() set them.                 *)
THEOREM RegistersAreKept == Spec => []GuestKeepsItsRegisters
<1>1. Inv => GuestKeepsItsRegisters
  BY DEF Inv, ProcInv, ValuesOf, Expected, InRegisters, GuestKeepsItsRegisters
<1> QED
  BY <1>1, InitInv, NextInv, PTL DEF Spec

(* A processor that the hypervisor has left has its control registers (but *)
(* for the bits VMX fixes) and its descriptor tables:                      *)
(* load_guest_cpu_state() gives those back.                                *)
THEOREM TablesAreGivenBack == Spec => []TablesSurvive
<1>1. Inv => TablesSurvive
  BY DEF Inv, ProcInv, ValuesOf, Expected, TablesSurvive
<1> QED
  BY <1>1, InitInv, NextInv, PTL DEF Spec

(* virtualize_system() and devirtualize_system() are all or nothing, and   *)
(* processors have ids of their own.                                       *)
THEOREM SystemIsWhole == Spec => []AllOrNone
<1>1. Inv => AllOrNone
  <2> SUFFICES ASSUME Inv PROVE AllOrNone
    OBVIOUS
  <2>1. phase = "running" => \A p \in Processors : pc[p] \in InGuest /\ ids[p] = p
    BY DEF Inv, ProcInv, Place, IdOf
  <2>2. phase = "unloaded" =>
          \A p \in Processors :
             /\ pc[p] = "native"
             /\ ~flags[p].vmxon /\ ~flags[p].vmcs /\ ~flags[p].svme /\ ~flags[p].hsave
    BY DEF Inv, ProcInv, Place, FlagsOf, IsOn, IsActive
  <2> QED
    BY <2>1, <2>2 DEF AllOrNone, InGuest
<1> QED
  BY <1>1, InitInv, NextInv, PTL DEF Spec
=============================================================================
