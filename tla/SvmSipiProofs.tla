--------------------------- MODULE SvmSipiProofs ---------------------------
(***************************************************************************)
(* Proofs about module SvmSipi, for any number of processors, any vectors  *)
(* below 255, any wake-up order and any timing of the SIPIs.               *)
(***************************************************************************)
EXTENDS SvmSipi, TLAPS

-----------------------------------------------------------------------------
(* The inductive invariant.                                                *)

(* Only a processor between its two swaps may have a byte other than       *)
(* Active, and then the byte is WaitForSipi or a vector sent to it.        *)
ActivityInv ==
    \A p \in Procs :
        /\ pc[p] \notin {"wait", "fetch"} => activity[p] = Active
        /\ pc[p] = "fetch" => activity[p] # WaitForSipi
        /\ pc[p] \in {"wait", "fetch"} /\ activity[p] # WaitForSipi
             => activity[p] \in sent[p]

(* The wake-up procedure never aims at the bootstrap processor, although   *)
(* the destination and the command are two stores, each of them emulated.  *)
TargetInv ==
    /\ os.phase # "idle" => pc[Bsp] # "off"
    /\ os.phase # "idle" /\ pc[Bsp] = "guest" => icrHigh[Bsp] # Bsp
    /\ os.phase # "idle" => \/ icrHigh[Bsp] # Bsp
                            \/ req[Bsp].kind = "icr_high" /\ req[Bsp].dest # Bsp
    /\ req[Bsp].kind = "icr_high" => req[Bsp].dest # Bsp
    /\ req[Bsp].kind = "init" => icrHigh[Bsp] # Bsp
    /\ req[Bsp].kind = "sipi" => req[Bsp].vector \in Vectors
    /\ \A p \in Aps : req[p] = Other

BspInv ==
    /\ ~initPending[Bsp]
    /\ pc[Bsp] \in {"off", "guest", "npf", "emulate", "unsupported"}

Inv ==
    /\ TypeOK
    /\ NoAssertionFails
    /\ StartsWhereItWasTold
    /\ ActivityInv
    /\ TargetInv
    /\ BspInv

-----------------------------------------------------------------------------
LEMMA ProcsFacts ==
    /\ Bsp \in Procs
    /\ Aps \subseteq Procs
    /\ Procs \subseteq Nat
    /\ \A p \in Procs : p # Bsp <=> p \in Aps
BY CountAssumption DEF Procs, Aps, Bsp

LEMMA StoreTypes ==
    /\ Other \in Stores
    /\ SendInit \in Stores
    /\ \A t \in Procs : SetDest(t) \in Stores
    /\ \A v \in Vectors : SendSipi(v) \in Stores
BY ProcsFacts DEF Other, SendInit, SetDest, SendSipi, Stores

LEMMA InitInv == Init => Inv
BY ProcsFacts, StoreTypes, VectorAssumption, RoundAssumption
DEF Init, Inv, TypeOK, NoAssertionFails, StartsWhereItWasTold, ActivityInv,
    TargetInv, BspInv, Pcs, Phases, Other, Bsp, Aps

(* What a store by the guest does to the machine, faulting or not.         *)
LEMMA StoreTyped ==
    ASSUME TypeOK, NEW p \in Procs, NEW w \in Stores, Store(p, w)
    PROVE  /\ pc' \in [Procs -> Pcs]
           /\ tlb' \in [Procs -> {"none", "ro", "rw"}]
           /\ icrHigh' \in [Procs -> Procs]
           /\ initPending' \in [Procs -> BOOLEAN]
           /\ req' \in [Procs -> Stores]
           /\ bypassed' \in SUBSET Procs
<1>1. w.dest \in Procs
  BY DEF Stores
<1>2. icrHigh[p] \in Procs
  BY DEF TypeOK
<1>3. CASE StoreFaults(p, w)
  BY <1>3 DEF StoreFaults, TypeOK, Goto, Pcs
<1>4. CASE StorePasses(p, w)
  BY <1>4, <1>1, <1>2 DEF StorePasses, TypeOK, ApicDoes
<1> QED
  BY <1>3, <1>4 DEF Store

LEMMA TypePreserved ==
    ASSUME TypeOK, [Next]_vars
    PROVE  TypeOK'
<1> USE ProcsFacts, StoreTypes
<1>1. CASE \E t \in Aps : OsSelect(t)
  <2>1. PICK t \in Aps : OsSelect(t)
    BY <1>1
  <2> DEFINE most == os.guest.rounds
  <2>a. most \in 0 .. MaxRounds
    BY GuestAssumption DEF TypeOK
  <2>b. rounds[t] < most
    BY <2>1 DEF OsSelect, MayWake
  <2>2. rounds[t] \in Nat /\ rounds[t] < MaxRounds
    <3> HIDE DEF most
    <3> QED
      BY <2>1, <2>a, <2>b, RoundAssumption DEF TypeOK
  <2>3. rounds' \in [Procs -> 0 .. MaxRounds]
    BY <2>1, <2>2, RoundAssumption DEF OsSelect, TypeOK
  <2> QED
    BY <2>1, <2>3, StoreTyped DEF OsSelect, TypeOK, Phases
<1>2. CASE OsInit
  BY <1>2, StoreTyped DEF OsInit, TypeOK, Phases
<1>3. CASE \E v \in Vectors : OsSipi(v)
  <2>1. PICK v \in Vectors : OsSipi(v)
    BY <1>3
  <2> QED
    BY <2>1, StoreTyped DEF OsSipi, TypeOK, Phases
<1>4. ASSUME NEW p \in Procs, OtherStore(p)
      PROVE  TypeOK'
  BY <1>4, StoreTyped DEF OtherStore, TypeOK, guestOs
<1>5. ASSUME NEW p \in Procs, TakeInit(p)
      PROVE  TypeOK'
  BY <1>5 DEF TakeInit, TypeOK, guestOs, Goto, Pcs
<1>6. ASSUME NEW p \in Procs, Handler(p)
      PROVE  TypeOK'
  <2> USE DEF TypeOK, guestOs, hardware, Goto, Pcs
  <2>1. CASE Virtualize(p)
    BY <2>1 DEF Virtualize, intercept_apic_write
  <2>2. CASE StopInterception(p)
    BY <2>2 DEF StopInterception, intercept_apic_write
  <2>3. CASE UnsupportedStore(p)
    BY <2>3 DEF UnsupportedStore
  <2>4. CASE EmulateStore(p)
    <3>1. req[p].dest \in Procs /\ icrHigh[p] \in Procs
      BY DEF Stores
    <3> QED
      BY <2>4, <3>1 DEF EmulateStore, ApicDoes
  <2>5. CASE EmulateSipi(p)
    <3>1. req[p].vector \in Vectors \cup {Active} /\ icrHigh[p] \in Procs
      BY DEF Stores
    <3>2. activity' \in [Procs -> Vectors \cup {Active, WaitForSipi}]
      BY <2>5, <3>1 DEF EmulateSipi, PostVector
    <3> QED
      BY <2>5, <3>1, <3>2, ZenonT(60) DEF EmulateSipi
  <2>6. CASE handle_init_signal(p)
    BY <2>6 DEF handle_init_signal
  <2>7. CASE wait_for_sipi_load(p)
    BY <2>7 DEF wait_for_sipi_load
  <2>8. CASE wait_for_sipi_swap(p)
    BY <2>8 DEF wait_for_sipi_swap
  <2>9. CASE handle_sipi(p)
    BY <2>9 DEF handle_sipi
  <2> QED
    BY <1>6, <2>1, <2>2, <2>3, <2>4, <2>5, <2>6, <2>7, <2>8, <2>9 DEF Handler
<1>7. CASE UNCHANGED vars
  BY <1>7 DEF vars, TypeOK
<1> QED
  BY <1>1, <1>2, <1>3, <1>4, <1>5, <1>6, <1>7 DEF Next, OsWakes

(* A store by a processor leaves every other part of the invariant alone,  *)
(* as long as it does not send INIT to the bootstrap processor.            *)
LEMMA StoreSafe ==
    ASSUME Inv, NEW p \in Procs, NEW w \in Stores, pc[p] = "guest", Store(p, w),
           UNCHANGED <<activity, vec, cs, sent>>,
           w.kind = "init" => icrHigh[p] # Bsp
    PROVE  /\ NoAssertionFails'
           /\ StartsWhereItWasTold'
           /\ ActivityInv'
           /\ BspInv'
<1> USE ProcsFacts DEF Inv
<1>1. CASE StoreFaults(p, w)
  <2>1. pc' = [pc EXCEPT ![p] = "npf"] /\ initPending' = initPending
    BY <1>1 DEF StoreFaults, Goto
  <2> QED
    BY <2>1 DEF TypeOK, NoAssertionFails, StartsWhereItWasTold, ActivityInv, BspInv
<1>2. CASE StorePasses(p, w)
  <2>1. pc' = pc /\ initPending'[Bsp] = initPending[Bsp]
    BY <1>2 DEF StorePasses, ApicDoes, TypeOK
  <2> QED
    BY <2>1 DEF TypeOK, NoAssertionFails, StartsWhereItWasTold, ActivityInv, BspInv
<1> QED
  BY <1>1, <1>2 DEF Store

(* The guest's own steps.                                                  *)
LEMMA OsSelectSafe ==
    ASSUME Inv, NEW t \in Aps, OsSelect(t)
    PROVE  Inv'
<1> USE ProcsFacts, StoreTypes
<1>1. TypeOK'
  BY TypePreserved DEF Inv, Next, OsWakes
<1>2. NoAssertionFails' /\ StartsWhereItWasTold' /\ ActivityInv' /\ BspInv'
  BY StoreSafe DEF OsSelect, SetDest
<1>3. TargetInv'
  <2>1. CASE StoreFaults(Bsp, SetDest(t))
    BY <2>1 DEF OsSelect, StoreFaults, Goto, SetDest, Inv, TargetInv, TypeOK
  <2>2. CASE StorePasses(Bsp, SetDest(t))
    BY <2>2 DEF OsSelect, StorePasses, ApicDoes, SetDest, Inv, TargetInv, TypeOK
  <2> QED
    BY <2>1, <2>2 DEF OsSelect, Store
<1> QED
  BY <1>1, <1>2, <1>3 DEF Inv

LEMMA OsInitSafe ==
    ASSUME Inv, OsInit
    PROVE  Inv'
<1> USE ProcsFacts, StoreTypes
<1>1. TypeOK'
  BY TypePreserved DEF Inv, Next, OsWakes
<1>2. icrHigh[Bsp] # Bsp
  BY DEF Inv, TargetInv, OsInit
<1>3. NoAssertionFails' /\ StartsWhereItWasTold' /\ ActivityInv' /\ BspInv'
  BY StoreSafe, <1>2 DEF OsInit
<1>4. TargetInv'
  <2>1. CASE StoreFaults(Bsp, SendInit)
    BY <1>2, <2>1 DEF OsInit, StoreFaults, Goto, SendInit, Inv, TargetInv, TypeOK
  <2>2. CASE StorePasses(Bsp, SendInit)
    BY <1>2, <2>2 DEF OsInit, StorePasses, ApicDoes, SendInit, Inv, TargetInv, TypeOK
  <2> QED
    BY <2>1, <2>2 DEF OsInit, Store
<1> QED
  BY <1>1, <1>3, <1>4 DEF Inv

LEMMA OsSipiSafe ==
    ASSUME Inv, NEW v \in Vectors, OsSipi(v)
    PROVE  Inv'
<1> USE ProcsFacts, StoreTypes
<1>1. TypeOK'
  BY TypePreserved DEF Inv, Next, OsWakes
<1>2. icrHigh[Bsp] # Bsp
  BY DEF Inv, TargetInv, OsSipi
<1>3. NoAssertionFails' /\ StartsWhereItWasTold' /\ ActivityInv' /\ BspInv'
  BY StoreSafe DEF OsSipi, SendSipi
<1>4. TargetInv'
  <2>1. CASE StoreFaults(Bsp, SendSipi(v))
    BY <1>2, <2>1 DEF OsSipi, StoreFaults, Goto, SendSipi, Inv, TargetInv, TypeOK
  <2>2. CASE StorePasses(Bsp, SendSipi(v))
    BY <1>2, <2>2 DEF OsSipi, StorePasses, ApicDoes, SendSipi, Inv, TargetInv, TypeOK
  <2> QED
    BY <2>1, <2>2 DEF OsSipi, Store
<1> QED
  BY <1>1, <1>3, <1>4 DEF Inv

LEMMA OtherStoreSafe ==
    ASSUME Inv, NEW p \in Procs, OtherStore(p)
    PROVE  Inv'
<1> USE ProcsFacts, StoreTypes
<1>1. TypeOK'
  BY TypePreserved DEF Inv, Next
<1>2. NoAssertionFails' /\ StartsWhereItWasTold' /\ ActivityInv' /\ BspInv'
  BY StoreSafe DEF OtherStore, Other
<1>3. TargetInv'
  <2>1. CASE StoreFaults(p, Other)
    BY <2>1 DEF OtherStore, guestOs, StoreFaults, Goto, Other, Inv, TargetInv, TypeOK
  <2>2. CASE StorePasses(p, Other)
    BY <2>2 DEF OtherStore, guestOs, StorePasses, ApicDoes, Other, Inv, TargetInv, TypeOK
  <2> QED
    BY <2>1, <2>2 DEF OtherStore, Store
<1> QED
  BY <1>1, <1>2, <1>3 DEF Inv

LEMMA TakeInitSafe ==
    ASSUME Inv, NEW p \in Procs, TakeInit(p)
    PROVE  Inv'
<1>1. TypeOK'
  BY TypePreserved DEF Inv, Next
<1>2. p # Bsp
  BY DEF TakeInit, Inv, BspInv
<1> QED
  BY <1>1, <1>2, ProcsFacts
  DEF TakeInit, guestOs, Goto, Inv, TypeOK, NoAssertionFails, StartsWhereItWasTold,
      ActivityInv, TargetInv, BspInv

-----------------------------------------------------------------------------
(* The hypervisor's steps.                                                 *)

LEMMA EmulateStoreSafe ==
    ASSUME Inv, NEW p \in Procs, EmulateStore(p)
    PROVE  Inv'
<1> USE ProcsFacts
<1>1. TypeOK'
  BY TypePreserved DEF Inv, Next, Handler
<1>2. req[p].kind = "init" => icrHigh[p] # Bsp
  BY DEF Inv, TargetInv, Other
<1>3. initPending'[Bsp] = initPending[Bsp]
  BY <1>2 DEF EmulateStore, ApicDoes, Inv, TypeOK
<1>4. NoAssertionFails' /\ StartsWhereItWasTold' /\ ActivityInv' /\ BspInv'
  BY <1>3
  DEF EmulateStore, Goto, Inv, TypeOK, NoAssertionFails, StartsWhereItWasTold,
      ActivityInv, BspInv
<1>5. CASE p = Bsp
  <2>1. os.phase # "idle" => icrHigh'[Bsp] # Bsp
    BY <1>5 DEF EmulateStore, ApicDoes, Inv, TypeOK, TargetInv
  <2>2. req'[Bsp] = Other /\ \A q \in Aps : req'[q] = Other
    BY <1>5 DEF EmulateStore, Inv, TypeOK, TargetInv
  <2>3. pc'[Bsp] # "off"
    BY <1>5 DEF EmulateStore, Goto, Inv, TypeOK
  <2> QED
    BY <1>1, <1>4, <2>1, <2>2, <2>3 DEF EmulateStore, guestOs, Inv, TargetInv, Other
<1>6. CASE p # Bsp
  <2>1. icrHigh' = icrHigh /\ req' = req
    BY <1>6 DEF EmulateStore, ApicDoes, Inv, TypeOK, TargetInv, Other
  <2>2. pc'[Bsp] = pc[Bsp]
    BY <1>6 DEF EmulateStore, Goto, Inv, TypeOK
  <2> QED
    BY <1>1, <1>4, <2>1, <2>2 DEF EmulateStore, guestOs, Inv, TargetInv
<1> QED
  BY <1>5, <1>6

(* A SIPI changes the byte only of a processor that waits, to a vector it  *)
(* is being sent now.                                                      *)
LEMMA EmulateSipiSafe ==
    ASSUME Inv, NEW p \in Procs, EmulateSipi(p)
    PROVE  Inv'
<1> USE ProcsFacts
<1> DEFINE t == icrHigh[p]
           v == req[p].vector
<1>1. TypeOK'
  BY TypePreserved DEF Inv, Next, Handler
<1>2. p = Bsp
  BY DEF EmulateSipi, Inv, TargetInv, Other
<1>3. t \in Procs /\ v \in Vectors \cup {Active}
  BY DEF Inv, TypeOK, Stores
<1>4. v # WaitForSipi
  BY <1>3, VectorAssumption DEF WaitForSipi, Active
<1>5. /\ activity' = [activity EXCEPT ![t] = IF @ = WaitForSipi THEN v ELSE @]
      /\ sent' = [sent EXCEPT ![t] = @ \cup {v}]
      /\ pc' = [pc EXCEPT ![p] = "guest"]
      /\ pc[p] = "emulate"
      /\ UNCHANGED <<vec, cs, icrHigh, initPending, os>>
  BY DEF EmulateSipi, PostVector, Goto, hardware, guestOs
<1>6. NoAssertionFails' /\ StartsWhereItWasTold' /\ BspInv'
  BY <1>3, <1>5 DEF Inv, TypeOK, NoAssertionFails, StartsWhereItWasTold, BspInv
<1>7. ActivityInv'
  <2> SUFFICES ASSUME NEW q \in Procs
               PROVE  /\ pc'[q] \notin {"wait", "fetch"} => activity'[q] = Active
                      /\ pc'[q] = "fetch" => activity'[q] # WaitForSipi
                      /\ pc'[q] \in {"wait", "fetch"} /\ activity'[q] # WaitForSipi
                           => activity'[q] \in sent'[q]
    BY DEF ActivityInv
  <2>1. pc'[q] \in {"wait", "fetch"} <=> pc[q] \in {"wait", "fetch"}
    BY <1>5 DEF Inv, TypeOK
  <2>2. pc'[q] = "fetch" <=> pc[q] = "fetch"
    BY <1>5 DEF Inv, TypeOK
  <2>3. CASE q = t /\ activity[q] = WaitForSipi
    <3>1. activity'[q] = v /\ v \in sent'[q]
      BY <2>3, <1>3, <1>5 DEF Inv, TypeOK
    <3>2. pc[q] = "wait"
      BY <2>3 DEF Inv, ActivityInv, Active, WaitForSipi
    <3> QED
      BY <3>1, <3>2, <2>1, <2>2
  <2>4. CASE ~(q = t /\ activity[q] = WaitForSipi)
    <3>1. activity'[q] = activity[q] /\ sent[q] \subseteq sent'[q]
      BY <2>4, <1>3, <1>5 DEF Inv, TypeOK
    <3> QED
      BY <3>1, <2>1, <2>2 DEF Inv, ActivityInv
  <2> QED
    BY <2>3, <2>4
<1>8. TargetInv'
  BY <1>2, <1>5 DEF EmulateSipi, Inv, TypeOK, TargetInv, Other
<1> QED
  BY <1>1, <1>6, <1>7, <1>8 DEF Inv

(* The #SX path: the swap to WaitForSipi, the loop, the swap to Active.    *)
LEMMA SecurityExceptionSafe ==
    ASSUME Inv, NEW p \in Procs,
           \/ handle_init_signal(p)
           \/ wait_for_sipi_load(p)
           \/ wait_for_sipi_swap(p)
           \/ handle_sipi(p)
    PROVE  Inv'
<1> USE ProcsFacts
<1>1. TypeOK'
  BY TypePreserved DEF Inv, Next, Handler
<1>2. p # Bsp
  BY DEF Inv, BspInv, handle_init_signal, wait_for_sipi_load, wait_for_sipi_swap,
         handle_sipi
<1>3. UNCHANGED <<icrHigh, initPending, req, os>>
  BY DEF handle_init_signal, wait_for_sipi_load, wait_for_sipi_swap, handle_sipi,
         hardware, guestOs
<1>4. pc'[Bsp] = pc[Bsp]
  BY <1>2 DEF Inv, TypeOK, Goto, handle_init_signal, wait_for_sipi_load,
              wait_for_sipi_swap, handle_sipi
<1>5. TargetInv' /\ BspInv'
  BY <1>3, <1>4 DEF Inv, TargetInv, BspInv
<1> USE DEF Inv, TypeOK, NoAssertionFails, StartsWhereItWasTold, ActivityInv, Goto
<1>6. CASE handle_init_signal(p)
  <2>1. activity[p] = Active
    BY <1>6 DEF handle_init_signal
  <2> QED
    BY <1>1, <1>2, <1>5, <1>6, <2>1 DEF handle_init_signal
<1>7. CASE wait_for_sipi_load(p)
  BY <1>1, <1>5, <1>7 DEF wait_for_sipi_load
<1>8. CASE wait_for_sipi_swap(p)
  BY <1>1, <1>5, <1>8 DEF wait_for_sipi_swap
<1>9. CASE handle_sipi(p)
  <2>1. activity[p] = Active
    BY <1>9 DEF handle_sipi
  <2> QED
    BY <1>1, <1>5, <1>9, <2>1 DEF handle_sipi
<1> QED
  BY <1>6, <1>7, <1>8, <1>9

LEMMA OtherHandlersSafe ==
    ASSUME Inv, NEW p \in Procs,
           Virtualize(p) \/ StopInterception(p) \/ UnsupportedStore(p)
    PROVE  Inv'
<1> USE ProcsFacts
<1>1. TypeOK'
  BY TypePreserved DEF Inv, Next, Handler
<1>2. pc[p] = "off" => os.phase = "idle" \/ p # Bsp
  BY DEF Inv, TargetInv
<1>3. UNCHANGED <<activity, vec, cs, sent, icrHigh, initPending, req, os>>
  BY DEF Virtualize, StopInterception, UnsupportedStore, hardware, guestOs
<1>4. \E l \in {"guest", "emulate", "unsupported"} : pc' = [pc EXCEPT ![p] = l]
  BY DEF Virtualize, StopInterception, UnsupportedStore, Goto
<1>5. pc[p] \in {"off", "npf", "emulate"}
  BY DEF Virtualize, StopInterception, UnsupportedStore
<1>6. NoAssertionFails' /\ StartsWhereItWasTold' /\ ActivityInv' /\ BspInv'
  BY <1>3, <1>4, <1>5
  DEF Inv, TypeOK, NoAssertionFails, StartsWhereItWasTold, ActivityInv, BspInv
<1>7. pc'[Bsp] = "guest" => pc[Bsp] = "guest" \/ os.phase = "idle"
  BY <1>2, <1>4, <1>5
  DEF Inv, TypeOK, Virtualize, StopInterception, UnsupportedStore, Goto
<1>8. pc'[Bsp] = "off" => pc[Bsp] = "off"
  BY <1>4 DEF Inv, TypeOK
<1>9. TargetInv'
  BY <1>3, <1>7, <1>8 DEF Inv, TargetInv
<1> QED
  BY <1>1, <1>6, <1>9 DEF Inv

LEMMA NextInv == Inv /\ [Next]_vars => Inv'
<1> SUFFICES ASSUME Inv, [Next]_vars
             PROVE  Inv'
  OBVIOUS
<1>1. CASE OsWakes
  BY <1>1, OsSelectSafe, OsInitSafe, OsSipiSafe DEF OsWakes
<1>2. ASSUME NEW p \in Procs, OtherStore(p) \/ TakeInit(p) \/ Handler(p)
      PROVE  Inv'
  BY <1>2, OtherStoreSafe, TakeInitSafe, OtherHandlersSafe, EmulateStoreSafe,
     EmulateSipiSafe, SecurityExceptionSafe DEF Handler
<1>3. CASE UNCHANGED vars
  BY <1>3 DEF vars, Inv, TypeOK, NoAssertionFails, StartsWhereItWasTold,
              ActivityInv, TargetInv, BspInv
<1> QED
  BY <1>1, <1>2, <1>3 DEF Next

-----------------------------------------------------------------------------
(* Every variable keeps its type, whatever the guest does.                 *)
THEOREM TypeCorrect == Spec => []TypeOK
<1>1. Inv => TypeOK
  BY DEF Inv
<1> QED
  BY <1>1, InitInv, NextInv, PTL DEF Spec

(* No assertion in the handling of #SX fails: the compare-and-exchange of  *)
(* handle_nested_page_fault() and the swaps of the target never meet in a  *)
(* state that handle_init_signal() or handle_sipi() rejects.               *)
THEOREM AssertionsHold == Spec => []NoAssertionFails
<1>1. Inv => NoAssertionFails
  BY DEF Inv
<1> QED
  BY <1>1, InitInv, NextInv, PTL DEF Spec

(* A processor never starts from a vector other than one sent to it since  *)
(* the INIT it took, for any number of processors and any interleaving.    *)
THEOREM StartVectorsAreFresh == Spec => []StartsWhereItWasTold
<1>1. Inv => StartsWhereItWasTold
  BY DEF Inv
<1> QED
  BY <1>1, InitInv, NextInv, PTL DEF Spec

-----------------------------------------------------------------------------
(* The refinement of ApStartup.                                            *)

(* Steps that change nothing of a processor's activity byte or start       *)
(* vector, and do not enter or leave the #SX path past its swap, are none  *)
(* of the abstract specification's.                                        *)
Aside == {"off", "guest", "npf", "emulate", "unsupported", "sx"}

LEMMA Stutter ==
    ASSUME UNCHANGED <<activity, vec, cs>>,
           \A q \in Aps : pc'[q] = pc[q] \/ (pc[q] \in Aside /\ pc'[q] \in Aside)
    PROVE  UNCHANGED Startup!avars
<1>1. ASSUME NEW q \in Aps
      PROVE  ModeOf(q)' = ModeOf(q) /\ VectorOf(q)' = VectorOf(q)
  BY DEF ModeOf, VectorOf, Aside
<1> QED
  BY <1>1 DEF Startup!avars

(* A step of one processor's.                                              *)
LEMMA OthersStutter ==
    ASSUME NEW q,
           activity'[q] = activity[q], vec'[q] = vec[q], pc'[q] = pc[q]
    PROVE  ModeOf(q)' = ModeOf(q) /\ VectorOf(q)' = VectorOf(q)
BY DEF ModeOf, VectorOf

LEMMA InitRefines == Init => Startup!AInit
<1> SUFFICES ASSUME Init PROVE Startup!AInit
  OBVIOUS
<1>1. \A p \in Aps : ModeOf(p) = "running" /\ VectorOf(p) = NoVector /\ cs[p] = NoVector
  BY ProcsFacts DEF Init, ModeOf, VectorOf
<1> QED
  BY <1>1 DEF Startup!AInit

(* The compare-and-exchange releases a processor that waits, and no other. *)
LEMMA EmulateSipiRefines ==
    ASSUME Inv, NEW p \in Procs, EmulateSipi(p)
    PROVE  [Startup!ANext]_(Startup!avars)
<1>1. p = Bsp /\ icrHigh[p] \in Procs /\ req[p].vector \in Vectors
  BY ProcsFacts DEF EmulateSipi, Inv, TypeOK, TargetInv, Other
<1>2. PICK t \in Procs, v \in Vectors : t = icrHigh[p] /\ v = req[p].vector
  BY <1>1
<1>3. p = Bsp /\ t \in Procs /\ v \in Vectors
  BY <1>1
<1>4. /\ activity' = [activity EXCEPT ![t] = IF @ = WaitForSipi THEN v ELSE @]
      /\ pc' = [pc EXCEPT ![Bsp] = "guest"]
      /\ UNCHANGED <<vec, cs>>
  BY <1>1, <1>2 DEF EmulateSipi, PostVector, Goto
<1>5. v # WaitForSipi
  BY <1>3, VectorAssumption DEF WaitForSipi
<1>6. \A q \in Aps : pc'[q] = pc[q]
  BY <1>4, ProcsFacts DEF Inv, TypeOK
<1>7. CASE activity[t] # WaitForSipi
  <2>1. activity' = activity
    BY <1>4, <1>7 DEF Inv, TypeOK
  <2> QED
    BY <1>4, <1>6, <2>1, Stutter
<1>8. CASE activity[t] = WaitForSipi
  <2>1. pc[t] = "wait" /\ t \in Aps
    <3>1. Active # WaitForSipi
      BY DEF Active, WaitForSipi
    <3>2. pc[t] = "wait"
      BY <1>3, <1>8, <3>1 DEF Inv, ActivityInv
    <3>3. t # Bsp
      BY <3>2 DEF Inv, BspInv
    <3> QED
      BY <1>3, <3>2, <3>3, ProcsFacts
  <2>2. activity'[t] = v
    BY <1>3, <1>4, <1>8 DEF Inv, TypeOK
  <2>3. /\ ModeOf(t) = "waiting" /\ ModeOf(t)' = "released"
        /\ VectorOf(t)' = v
    BY <1>5, <1>6, <1>8, <2>1, <2>2 DEF ModeOf, VectorOf
  <2>4. ASSUME NEW q \in Aps \ {t}
        PROVE  ModeOf(q)' = ModeOf(q) /\ VectorOf(q)' = VectorOf(q)
    <3>1. activity'[q] = activity[q] /\ vec'[q] = vec[q] /\ pc'[q] = pc[q]
      BY <1>4, <1>6, ProcsFacts DEF Inv, TypeOK
    <3> QED
      BY <3>1, OthersStutter
  <2>5. Startup!Release(t, v)
    BY <1>4, <2>1, <2>3, <2>4 DEF Startup!Release
  <2> QED
    BY <1>3, <2>1, <2>5 DEF Startup!ANext
<1> QED
  BY <1>7, <1>8

(* The swap to WaitForSipi is the reset.                                   *)
LEMMA handle_init_signalRefines ==
    ASSUME Inv, NEW p \in Procs, handle_init_signal(p)
    PROVE  [Startup!ANext]_(Startup!avars)
<1>1. pc[p] = "sx" /\ p \in Aps /\ activity[p] = Active
  BY ProcsFacts DEF handle_init_signal, Inv, ActivityInv, BspInv
<1>2. /\ activity' = [activity EXCEPT ![p] = WaitForSipi]
      /\ pc' = [pc EXCEPT ![p] = "wait"]
      /\ cs' = [cs EXCEPT ![p] = NoVector]
      /\ vec' = vec
  BY <1>1, ProcsFacts DEF handle_init_signal, Goto
<1>3. activity'[p] = WaitForSipi /\ pc'[p] = "wait" /\ cs'[p] = NoVector
  BY <1>2 DEF Inv, TypeOK
<1>4. /\ ModeOf(p) = "running" /\ ModeOf(p)' = "waiting"
      /\ VectorOf(p)' = VectorOf(p)
  BY <1>1, <1>3 DEF ModeOf, VectorOf
<1>5. ASSUME NEW q \in Aps \ {p}
      PROVE  ModeOf(q)' = ModeOf(q) /\ VectorOf(q)' = VectorOf(q) /\ cs'[q] = cs[q]
  <2>1. activity'[q] = activity[q] /\ vec'[q] = vec[q] /\ pc'[q] = pc[q] /\ cs'[q] = cs[q]
    BY <1>2, ProcsFacts DEF Inv, TypeOK
  <2> QED
    BY <2>1, OthersStutter
<1>6. Startup!Reset(p)
  BY <1>1, <1>3, <1>4, <1>5 DEF Startup!Reset
<1> QED
  BY <1>1, <1>6 DEF Startup!ANext

(* The last load and the swap to Active lose no vector.                    *)
LEMMA wait_for_sipiRefines ==
    ASSUME Inv, NEW p \in Procs, wait_for_sipi_load(p) \/ wait_for_sipi_swap(p)
    PROVE  UNCHANGED Startup!avars
<1>1. cs' = cs
  BY DEF wait_for_sipi_load, wait_for_sipi_swap
<1>2. ModeOf(p)' = ModeOf(p) /\ VectorOf(p)' = VectorOf(p)
  <2>1. CASE wait_for_sipi_load(p)
    <3>1. /\ pc[p] = "wait" /\ activity[p] # WaitForSipi /\ pc'[p] = "fetch"
          /\ activity'[p] = activity[p]
      BY <2>1 DEF wait_for_sipi_load, Goto, Inv, TypeOK
    <3> QED
      BY <3>1 DEF ModeOf, VectorOf
  <2>2. CASE wait_for_sipi_swap(p)
    <3>1. pc[p] = "fetch" /\ pc'[p] = "sipi" /\ vec'[p] = activity[p]
      BY <2>2 DEF wait_for_sipi_swap, Goto, Inv, TypeOK
    <3> QED
      BY <3>1 DEF ModeOf, VectorOf
  <2> QED
    BY <2>1, <2>2
<1>3. ASSUME NEW q \in Aps \ {p}
      PROVE  ModeOf(q)' = ModeOf(q) /\ VectorOf(q)' = VectorOf(q)
  <2>1. activity'[q] = activity[q] /\ vec'[q] = vec[q] /\ pc'[q] = pc[q]
    BY ProcsFacts DEF wait_for_sipi_load, wait_for_sipi_swap, Goto, Inv, TypeOK
  <2> QED
    BY <2>1, OthersStutter
<1>4. \A q \in Aps : ModeOf(q)' = ModeOf(q) /\ VectorOf(q)' = VectorOf(q)
  BY <1>2, <1>3
<1> QED
  BY <1>1, <1>4 DEF Startup!avars

LEMMA handle_sipiRefines ==
    ASSUME Inv, NEW p \in Procs, handle_sipi(p)
    PROVE  [Startup!ANext]_(Startup!avars)
<1>1. pc[p] = "sipi" /\ p \in Aps /\ activity[p] = Active
  BY ProcsFacts DEF handle_sipi, Inv, ActivityInv, BspInv
<1>2. /\ pc' = [pc EXCEPT ![p] = "guest"]
      /\ cs' = [cs EXCEPT ![p] = vec[p]]
      /\ vec' = [vec EXCEPT ![p] = Active]
      /\ activity' = activity
  BY <1>1 DEF handle_sipi, Goto
<1>3. pc'[p] = "guest" /\ cs'[p] = vec[p]
  BY <1>2 DEF Inv, TypeOK
<1>4. /\ ModeOf(p) = "released" /\ ModeOf(p)' = "running"
      /\ VectorOf(p) = vec[p] /\ VectorOf(p)' = NoVector
  BY <1>1, <1>3 DEF ModeOf, VectorOf
<1>5. ASSUME NEW q \in Aps \ {p}
      PROVE  ModeOf(q)' = ModeOf(q) /\ VectorOf(q)' = VectorOf(q) /\ cs'[q] = cs[q]
  <2>1. activity'[q] = activity[q] /\ vec'[q] = vec[q] /\ pc'[q] = pc[q] /\ cs'[q] = cs[q]
    BY <1>2, ProcsFacts DEF Inv, TypeOK
  <2> QED
    BY <2>1, OthersStutter
<1>6. Startup!Resume(p)
  BY <1>1, <1>3, <1>4, <1>5 DEF Startup!Resume
<1> QED
  BY <1>1, <1>6 DEF Startup!ANext

(* Everything else is invisible to the abstract specification.             *)
LEMMA StoreStutters ==
    ASSUME Inv, NEW p \in Procs, NEW w \in Stores, pc[p] = "guest", Store(p, w),
           UNCHANGED <<activity, vec, cs>>
    PROVE  UNCHANGED Startup!avars
<1>1. \A q \in Aps : pc'[q] = pc[q] \/ (pc[q] \in Aside /\ pc'[q] \in Aside)
  BY ProcsFacts DEF Store, StoreFaults, StorePasses, Goto, Aside, Inv, TypeOK
<1> QED
  BY <1>1, Stutter

LEMMA OthersRefine ==
    ASSUME Inv, NEW p \in Procs,
           \/ TakeInit(p) \/ Virtualize(p) \/ StopInterception(p)
           \/ UnsupportedStore(p) \/ EmulateStore(p)
    PROVE  UNCHANGED Startup!avars
<1>1. UNCHANGED <<activity, vec, cs>>
  BY DEF TakeInit, Virtualize, StopInterception, UnsupportedStore, EmulateStore
<1>2. \A q \in Aps : pc'[q] = pc[q] \/ (pc[q] \in Aside /\ pc'[q] \in Aside)
  BY ProcsFacts
  DEF TakeInit, Virtualize, StopInterception, UnsupportedStore, EmulateStore, Goto, Aside,
      Inv, TypeOK
<1> QED
  BY <1>1, <1>2, Stutter

LEMMA NextRefines ==
    ASSUME Inv, [Next]_vars
    PROVE  [Startup!ANext]_(Startup!avars)
<1> USE ProcsFacts, StoreTypes
<1>1. CASE OsWakes
  BY <1>1, StoreStutters DEF OsWakes, OsSelect, OsInit, OsSipi
<1>2. ASSUME NEW p \in Procs, OtherStore(p)
      PROVE  UNCHANGED Startup!avars
  BY <1>2, StoreStutters DEF OtherStore
<1>3. ASSUME NEW p \in Procs, TakeInit(p) \/ Handler(p)
      PROVE  [Startup!ANext]_(Startup!avars)
  BY <1>3, EmulateSipiRefines, handle_init_signalRefines, wait_for_sipiRefines,
     handle_sipiRefines, OthersRefine DEF Handler
<1>4. CASE UNCHANGED vars
  BY <1>4, Stutter DEF vars
<1> QED
  BY <1>1, <1>2, <1>3, <1>4 DEF Next

(* The busy loop on the activity byte, its two swaps and the              *)
(* compare-and-exchange of the bootstrap processor's fault handler do what *)
(* the architecture says of INIT and SIPI: every step is a step of         *)
(* ApStartup or changes nothing there.                                     *)
THEOREM ImplementsApStartup == Spec => Startup!ASafety
<1>1. Inv /\ [Next]_vars => [Startup!ANext]_(Startup!avars)
  BY NextRefines
<1> QED
  BY <1>1, InitInv, NextInv, InitRefines, PTL DEF Spec, Startup!ASafety

-----------------------------------------------------------------------------
(* An orderly guest.                                                       *)

(* A command goes where the guest means it to, from the store of the       *)
(* destination on, and only one INIT is under way.                         *)
AimInv ==
    /\ os.phase # "idle" => /\ os.target \in Aps
                            /\ \/ icrHigh[Bsp] = os.target /\ req[Bsp].kind # "icr_high"
                               \/ pc[Bsp] # "guest" /\ req[Bsp] = SetDest(os.target)
    /\ req[Bsp].kind = "init" => os.phase = "sipi1"
    /\ req[Bsp].kind = "icr_high" => os.phase = "init"
    /\ pc[Bsp] \in {"off", "guest"} => req[Bsp].kind = "other"

(* The last processor's INIT has been sent and taken.                      *)
InitIsOver == os.phase # "init" /\ req[Bsp].kind # "init" /\ ~initPending[Last]

(* The last processor is woken once, at the end, and interception lasts    *)
(* until it has started.                                                   *)
LastInv ==
    /\ os.target = Last <=> rounds[Last] > 0
    /\ initPending[Last] \/ pc[Last] \notin {"off", "guest"} \/ cs[Last] # NoVector
         => rounds[Last] > 0
    /\ initPending[Last] => os.phase # "init" /\ req[Bsp].kind # "init"
    /\ pc[Last] \notin {"off", "guest"} \/ cs[Last] # NoVector => InitIsOver
    /\ cs[Last] # NoVector => pc[Last] \notin {"sx", "wait", "fetch", "sipi"}
    /\ pc[Last] \in {"npf", "emulate", "unsupported"} => cs[Last] # NoVector
    /\ pc[Bsp] # "off" /\ (writable \/ tlb[Bsp] = "rw") => cs[Last] # NoVector

OrderlyInv ==
    /\ os.guest.orderly => bypassed = {}
    /\ os.guest.orderly /\ Last # Bsp => LastInv

LEMMA AimInit == Init => AimInv
BY ProcsFacts DEF Init, AimInv, Other

LEMMA AimPreserved ==
    ASSUME Inv, AimInv, [Next]_vars
    PROVE  AimInv'
<1> USE ProcsFacts
<1>1. ASSUME NEW t \in Aps, OsSelect(t)
      PROVE  AimInv'
  <2>1. os'.phase = "init" /\ os'.target = t /\ pc[Bsp] = "guest" /\ req[Bsp].kind = "other"
    BY <1>1 DEF OsSelect, Inv, TypeOK, AimInv
  <2>2. CASE StoreFaults(Bsp, SetDest(t))
    <3>1. pc'[Bsp] = "npf" /\ req'[Bsp] = SetDest(t)
      BY <2>2 DEF StoreFaults, Goto, Inv, TypeOK
    <3> QED
      BY <2>1, <3>1 DEF AimInv, SetDest
  <2>3. CASE StorePasses(Bsp, SetDest(t))
    <3>1. pc' = pc /\ req' = req /\ icrHigh'[Bsp] = t
      BY <2>3 DEF StorePasses, ApicDoes, SetDest, Inv, TypeOK
    <3> QED
      BY <2>1, <3>1 DEF AimInv
  <2> QED
    BY <1>1, <2>2, <2>3 DEF OsSelect, Store
<1>2. ASSUME NEW w \in Stores, (w = SendInit /\ OsInit) \/ \E v \in Vectors : w = SendSipi(v) /\ OsSipi(v)
      PROVE  AimInv'
  <2>1. /\ os.phase # "idle" /\ pc[Bsp] = "guest" /\ os'.target = os.target
        /\ icrHigh[Bsp] = os.target /\ os.target \in Aps /\ req[Bsp].kind = "other"
        /\ w = SendInit => os'.phase = "sipi1"
        /\ os'.phase \in {"sipi1", "sipi2", "idle"}
    <3>1. os \in [guest : Guests, phase : Phases, target : Procs]
      BY DEF Inv, TypeOK
    <3>2. os.phase # "idle" /\ pc[Bsp] = "guest"
      BY <1>2 DEF OsInit, OsSipi
    <3>3. CASE w = SendInit /\ OsInit
      BY <3>1, <3>2, <3>3 DEF OsInit, AimInv
    <3>4. ASSUME NEW v \in Vectors, w = SendSipi(v), OsSipi(v)
          PROVE  w # SendInit /\ os'.target = os.target /\ os'.phase \in {"sipi2", "idle"}
      BY <3>1, <3>2, <3>4 DEF OsSipi, SendInit, SendSipi
    <3> QED
      BY <1>2, <3>2, <3>3, <3>4 DEF AimInv
  <2>2. w.kind \in {"init", "sipi"} /\ (w.kind = "init" => w = SendInit)
    BY <1>2 DEF SendInit, SendSipi
  <2>3. CASE StoreFaults(Bsp, w)
    <3>1. pc'[Bsp] = "npf" /\ req'[Bsp] = w /\ icrHigh' = icrHigh
      BY <2>3 DEF StoreFaults, Goto, Inv, TypeOK
    <3> QED
      BY <2>1, <2>2, <3>1 DEF AimInv
  <2>4. CASE StorePasses(Bsp, w)
    <3>1. pc' = pc /\ req' = req /\ icrHigh' = icrHigh
      BY <2>2, <2>4 DEF StorePasses, ApicDoes
    <3> QED
      BY <2>1, <3>1 DEF AimInv
  <2> QED
    BY <1>2, <2>3, <2>4 DEF OsInit, OsSipi, Store
<1>3. CASE OsWakes
  BY <1>1, <1>2, <1>3, StoreTypes DEF OsWakes
<1>4. CASE OtherStore(Bsp)
  <2>1. /\ req'[Bsp].kind = "other" /\ icrHigh' = icrHigh /\ os' = os
        /\ pc[Bsp] = "guest" /\ req[Bsp].kind = "other"
    BY <1>4
    DEF OtherStore, guestOs, Store, StoreFaults, StorePasses, ApicDoes, Other, Inv, TypeOK, AimInv
  <2> QED
    BY <2>1 DEF AimInv
<1>5. CASE Virtualize(Bsp) \/ StopInterception(Bsp) \/ UnsupportedStore(Bsp)
  <2>1. /\ UNCHANGED <<icrHigh, req, os>>
        /\ pc[Bsp] # "guest" /\ (pc'[Bsp] = "guest" => pc[Bsp] = "off") /\ pc'[Bsp] # "off"
    BY <1>5
    DEF Virtualize, StopInterception, UnsupportedStore, guestOs, hardware, Goto, Inv, TypeOK
  <2> QED
    BY <2>1 DEF AimInv, Inv, TargetInv
<1>6. CASE EmulateStore(Bsp) \/ EmulateSipi(Bsp)
  <2>1. /\ os' = os /\ req'[Bsp].kind = "other"
        /\ icrHigh'[Bsp] = IF req[Bsp].kind = "icr_high" THEN req[Bsp].dest ELSE icrHigh[Bsp]
    BY <1>6 DEF EmulateStore, EmulateSipi, ApicDoes, Other, guestOs, hardware, Inv, TypeOK
  <2>2. os.phase # "idle" => os.target \in Aps /\ icrHigh'[Bsp] = os.target
    BY <2>1 DEF AimInv, SetDest
  <2> QED
    BY <2>1, <2>2 DEF AimInv
<1>7. ASSUME NEW p \in Procs,
             \/ p # Bsp /\ (OtherStore(p) \/ TakeInit(p) \/ Handler(p))
             \/ TakeInit(p) \/ handle_init_signal(p) \/ wait_for_sipi_load(p)
             \/ wait_for_sipi_swap(p) \/ handle_sipi(p)
      PROVE  AimInv'
  <2>1. p # Bsp
    BY <1>7
    DEF TakeInit, handle_init_signal, wait_for_sipi_load, wait_for_sipi_swap, handle_sipi, Inv, BspInv
  <2>2. os' = os
    BY <1>7
    DEF OtherStore, TakeInit, Handler, Virtualize, StopInterception, UnsupportedStore, EmulateStore,
        EmulateSipi, handle_init_signal, wait_for_sipi_load, wait_for_sipi_swap, handle_sipi, guestOs
  <2>3. req[p] = Other
    BY <2>1 DEF Inv, TargetInv
  <2>4. pc'[Bsp] = pc[Bsp] /\ req'[Bsp] = req[Bsp] /\ icrHigh'[Bsp] = icrHigh[Bsp]
    <3> USE <2>1, <2>3 DEF Inv, TypeOK, Goto, hardware, Other
    <3>1. CASE OtherStore(p)
      BY <3>1 DEF OtherStore, Store, StoreFaults, StorePasses, ApicDoes
    <3>2. CASE EmulateStore(p) \/ EmulateSipi(p)
      BY <3>2 DEF EmulateStore, EmulateSipi, ApicDoes
    <3>3. CASE TakeInit(p) \/ Virtualize(p) \/ StopInterception(p) \/ UnsupportedStore(p)
      BY <3>3 DEF TakeInit, Virtualize, StopInterception, UnsupportedStore
    <3>4. CASE \/ handle_init_signal(p) \/ wait_for_sipi_load(p)
               \/ wait_for_sipi_swap(p) \/ handle_sipi(p)
      BY <3>4 DEF handle_init_signal, wait_for_sipi_load, wait_for_sipi_swap, handle_sipi
    <3> QED
      BY <1>7, <3>1, <3>2, <3>3, <3>4 DEF Handler
  <2> QED
    BY <2>2, <2>4 DEF AimInv
<1>8. CASE UNCHANGED vars
  BY <1>8 DEF vars, AimInv
<1> QED
  BY <1>3, <1>4, <1>5, <1>6, <1>7, <1>8 DEF Next, Handler

LEMMA LastFacts ==
    /\ Last \in Procs
    /\ Last # Bsp => Last \in Aps
    /\ Last = Bsp => Aps = {}
    /\ Last = ProcessorCount - 1
BY CountAssumption DEF Last, Procs, Aps, Bsp

LEMMA OrderlyInit == Init => OrderlyInv
<1> SUFFICES ASSUME Init PROVE OrderlyInv
  OBVIOUS
<1>1. rounds[Last] = 0 /\ pc[Last] = "off" /\ ~initPending[Last] /\ cs[Last] = NoVector
  BY LastFacts DEF Init
<1>2. os.target = Bsp /\ os.phase = "idle" /\ pc[Bsp] = "off"
  BY ProcsFacts DEF Init
<1> QED
  BY <1>1, <1>2 DEF Init, OrderlyInv, LastInv, InitIsOver

(* Nothing reaches the wire past the hypervisor before the last processor  *)
(* has started.                                                            *)
LEMMA PassesOnlyLate ==
    ASSUME OrderlyInv, os.guest.orderly, Last # Bsp, pc[Bsp] = "guest", MayPass(Bsp)
    PROVE  cs[Last] # NoVector
BY DEF OrderlyInv, LastInv, MayPass

LEMMA BypassedPreserved ==
    ASSUME Inv, AimInv, OrderlyInv, [Next]_vars, os'.guest.orderly
    PROVE  os.guest.orderly /\ bypassed' = {}
<1> USE ProcsFacts
<1>1. os'.guest = os.guest
  <2>1. os \in [guest : Guests, phase : Phases, target : Procs]
    BY DEF Inv, TypeOK
  <2>2. ASSUME NEW t \in Aps, OsSelect(t)
        PROVE  os'.guest = os.guest
    BY <2>1, <2>2 DEF OsSelect
  <2>3. ASSUME OsInit \/ \E v \in Vectors : OsSipi(v)
        PROVE  os'.guest = os.guest
    BY <2>1, <2>3 DEF OsInit, OsSipi
  <2>4. ASSUME NEW p \in Procs, OtherStore(p) \/ TakeInit(p) \/ Handler(p)
        PROVE  os'.guest = os.guest
    BY <2>4
    DEF OtherStore, TakeInit, Handler, Virtualize, StopInterception, UnsupportedStore, EmulateStore,
        EmulateSipi, handle_init_signal, wait_for_sipi_load, wait_for_sipi_swap, handle_sipi, guestOs
  <2> QED
    BY <2>2, <2>3, <2>4 DEF Next, OsWakes, vars
<1>2. bypassed = {}
  BY <1>1 DEF OrderlyInv
<1>3. ASSUME NEW v \in Vectors, OsSipi(v)
      PROVE  bypassed' = {}
  <2>1. pc[Bsp] = "guest" /\ icrHigh[Bsp] = os.target /\ os.target \in Aps
    BY <1>3 DEF OsSipi, AimInv
  <2>2. Last # Bsp
    BY <2>1, LastFacts
  <2>3. CASE StorePasses(Bsp, SendSipi(v))
    <3>1. cs[Last] # NoVector
      BY <1>1, <2>1, <2>2, <2>3, PassesOnlyLate DEF StorePasses
    <3>2. os.target = Last /\ pc[Last] \notin {"sx", "wait"}
      BY <1>1, <2>2, <3>1 DEF OrderlyInv, LastInv
    <3> QED
      BY <1>2, <2>1, <2>3, <3>2 DEF StorePasses, ApicDoes
  <2>4. CASE StoreFaults(Bsp, SendSipi(v))
    BY <1>2, <2>4 DEF StoreFaults
  <2> QED
    BY <1>3, <2>3, <2>4 DEF OsSipi, Store
<1>4. ASSUME NEW p \in Procs, NEW w \in {SetDest(t) : t \in Aps} \cup {SendInit, Other}, Store(p, w)
      PROVE  bypassed' = {}
  <2>1. w.kind # "sipi"
    BY DEF SetDest, SendInit, Other
  <2> QED
    BY <1>2, <1>4, <2>1 DEF Store, StoreFaults, StorePasses, ApicDoes
<1>5. ASSUME NEW p \in Procs, TakeInit(p) \/ Handler(p)
      PROVE  bypassed' = {}
  BY <1>2, <1>5
  DEF TakeInit, Handler, Virtualize, StopInterception, UnsupportedStore, EmulateStore, EmulateSipi,
      handle_init_signal, wait_for_sipi_load, wait_for_sipi_swap, handle_sipi, ApicDoes
<1>6. CASE UNCHANGED vars
  BY <1>2, <1>6 DEF vars
<1>7. ASSUME NEW t \in Aps, OsSelect(t)
      PROVE  bypassed' = {}
  BY <1>4, <1>7 DEF OsSelect
<1>8. CASE OsInit
  BY <1>4, <1>8 DEF OsInit
<1>9. ASSUME NEW p \in Procs, OtherStore(p)
      PROVE  bypassed' = {}
  BY <1>4, <1>9 DEF OtherStore
<1> QED
  BY <1>1, <1>3, <1>5, <1>6, <1>7, <1>8, <1>9 DEF Next, OsWakes

-----------------------------------------------------------------------------
(* The last processor: what each step does to its part of the state.       *)

(* No step of another processor, nor one that stays aside, disturbs it.    *)
LEMMA LastUndisturbed ==
    ASSUME Inv, LastInv, Last # Bsp,
           UNCHANGED <<writable, os, rounds>>,
           pc'[Last] = pc[Last], cs'[Last] = cs[Last], initPending'[Last] = initPending[Last],
           pc'[Bsp] # "off" => pc[Bsp] # "off",
           tlb'[Bsp] = "rw" => tlb[Bsp] = "rw" \/ (pc[Bsp] # "off" /\ writable),
           req'[Bsp].kind = "init" => req[Bsp].kind = "init"
    PROVE  LastInv'
BY DEF LastInv, InitIsOver

LEMMA OsSelectLast ==
    ASSUME Inv, AimInv, LastInv, Last # Bsp, os.guest.orderly, NEW t \in Aps, OsSelect(t)
    PROVE  LastInv'
<1> USE ProcsFacts, LastFacts
<1>1. rounds[Last] = 0 /\ os'.phase = "init" /\ os'.target = t /\ pc[Bsp] = "guest"
  BY DEF OsSelect, MayWake, Inv, TypeOK
<1>2. /\ ~initPending[Last] /\ pc[Last] \in {"off", "guest"} /\ cs[Last] = NoVector
  BY <1>1 DEF LastInv
<1>3. rounds'[Last] > 0 <=> t = Last
  BY <1>1 DEF OsSelect, Inv, TypeOK
<1>4. /\ cs' = cs /\ writable' = writable /\ initPending' = initPending
      /\ pc'[Last] = pc[Last]
  BY DEF OsSelect, Store, StoreFaults, StorePasses, ApicDoes, SetDest, Goto, Inv, TypeOK
<1>5. ~writable /\ tlb[Bsp] # "rw"
  BY <1>1, <1>2 DEF LastInv
<1>6. tlb'[Bsp] # "rw"
  BY <1>5 DEF OsSelect, Store, StoreFaults, StorePasses, MayPass, Inv, TypeOK
<1> QED
  BY <1>1, <1>2, <1>3, <1>4, <1>5, <1>6 DEF LastInv, InitIsOver

(* The one INIT that is sent to it.                                        *)
LEMMA OsInitLast ==
    ASSUME Inv, AimInv, LastInv, Last # Bsp, OsInit
    PROVE  LastInv'
<1> USE ProcsFacts, LastFacts
<1>1. /\ os.phase = "init" /\ os'.phase = "sipi1" /\ os'.target = os.target
      /\ pc[Bsp] = "guest" /\ icrHigh[Bsp] = os.target /\ req[Bsp].kind = "other"
  BY DEF OsInit, AimInv, Inv, TypeOK
<1>2. /\ ~initPending[Last] /\ pc[Last] \in {"off", "guest"} /\ cs[Last] = NoVector
  BY <1>1 DEF LastInv, InitIsOver
<1>3. cs' = cs /\ writable' = writable /\ rounds' = rounds /\ pc'[Last] = pc[Last]
  BY DEF OsInit, Store, StoreFaults, StorePasses, Goto, Inv, TypeOK
<1>4. ~writable /\ tlb[Bsp] # "rw"
  BY <1>1, <1>2 DEF LastInv
<1>5. StoreFaults(Bsp, SendInit)
  BY <1>4 DEF OsInit, Store, StorePasses, MayPass
<1>6. tlb'[Bsp] # "rw" /\ initPending' = initPending
  BY <1>5 DEF StoreFaults, Inv, TypeOK
<1> QED
  BY <1>1, <1>2, <1>3, <1>4, <1>6 DEF LastInv, InitIsOver

LEMMA OsSipiLast ==
    ASSUME Inv, AimInv, LastInv, Last # Bsp, NEW v \in Vectors, OsSipi(v)
    PROVE  LastInv'
<1> USE ProcsFacts, LastFacts
<1>1. /\ os'.phase # "init" /\ os'.target = os.target /\ os.phase # "init"
      /\ pc[Bsp] = "guest" /\ req[Bsp].kind = "other"
  BY DEF OsSipi, AimInv, Inv, TypeOK
<1>2. /\ cs' = cs /\ writable' = writable /\ rounds' = rounds /\ pc'[Last] = pc[Last]
      /\ initPending' = initPending
  BY DEF OsSipi, Store, StoreFaults, StorePasses, ApicDoes, SendSipi, Goto, Inv, TypeOK
<1>3. req'[Bsp].kind # "init"
  BY <1>1 DEF OsSipi, Store, StoreFaults, StorePasses, SendSipi, Inv, TypeOK
<1>4. tlb'[Bsp] = "rw" => tlb[Bsp] = "rw" \/ writable
  BY DEF OsSipi, Store, StoreFaults, StorePasses, MayPass, Inv, TypeOK
<1> QED
  BY <1>1, <1>2, <1>3, <1>4 DEF LastInv, InitIsOver

LEMMA OtherStoreLast ==
    ASSUME Inv, AimInv, LastInv, Last # Bsp, os.guest.orderly, NEW p \in Procs, OtherStore(p)
    PROVE  LastInv'
<1> USE ProcsFacts, LastFacts
<1>1. UNCHANGED <<writable, os, rounds, cs, initPending>> /\ pc[p] = "guest"
  BY DEF OtherStore, guestOs, Store, StoreFaults, StorePasses, ApicDoes, Other
<1>2. req'[Bsp].kind = "init" => req[Bsp].kind = "init"
  BY DEF OtherStore, Store, StoreFaults, StorePasses, Other, Inv, TypeOK
<1>3. /\ pc[Bsp] # "off"
      /\ tlb'[Bsp] = "rw" => tlb[Bsp] = "rw" \/ writable
      /\ pc'[Bsp] # "off"
  BY DEF OtherStore, AllVirtualized, Store, StoreFaults, StorePasses, MayPass, Goto, Inv, TypeOK
<1>4. CASE p # Last
  <2>1. pc'[Last] = pc[Last]
    BY <1>4 DEF OtherStore, Store, StoreFaults, StorePasses, Goto, Inv, TypeOK
  <2> QED
    BY <1>1, <1>2, <1>3, <2>1, LastUndisturbed
<1>5. CASE p = Last
  <2>1. cs[Last] # NoVector /\ pc'[Last] \in {"guest", "npf"}
    BY <1>5 DEF OtherStore, Store, StoreFaults, StorePasses, Goto, Inv, TypeOK
  <2> QED
    BY <1>1, <1>2, <1>3, <2>1 DEF LastInv, InitIsOver
<1> QED
  BY <1>4, <1>5

LEMMA TakeInitLast ==
    ASSUME Inv, AimInv, LastInv, Last # Bsp, NEW p \in Procs, TakeInit(p)
    PROVE  LastInv'
<1> USE ProcsFacts, LastFacts
<1>1. UNCHANGED <<writable, tlb, req, os, rounds, cs>> /\ pc[p] = "guest" /\ p # Bsp /\ initPending[p]
  BY DEF TakeInit, guestOs, Inv, BspInv
<1>2. pc'[Bsp] = pc[Bsp]
  BY <1>1 DEF TakeInit, Goto, Inv, TypeOK
<1>3. CASE p # Last
  <2>1. pc'[Last] = pc[Last] /\ initPending'[Last] = initPending[Last]
    BY <1>3 DEF TakeInit, Goto, Inv, TypeOK
  <2> QED
    BY <1>1, <1>2, <2>1, LastUndisturbed
<1>4. CASE p = Last
  <2>1. pc'[Last] = "sx" /\ ~initPending'[Last]
    BY <1>4 DEF TakeInit, Goto, Inv, TypeOK
  <2>2. cs[Last] = NoVector
    BY <1>1, <1>4 DEF LastInv, InitIsOver
  <2> QED
    BY <1>1, <1>2, <1>4, <2>1, <2>2 DEF LastInv, InitIsOver
<1> QED
  BY <1>3, <1>4

LEMMA HandlerLast ==
    ASSUME Inv, AimInv, LastInv, Last # Bsp, NEW p \in Procs, Handler(p)
    PROVE  LastInv'
<1> USE ProcsFacts, LastFacts
<1> USE DEF Goto, Inv, TypeOK, guestOs, hardware
<1>1. CASE Virtualize(p)
  <2>1. UNCHANGED <<req, os, rounds, cs, initPending>> /\ pc[p] = "off"
    BY <1>1 DEF Virtualize
  <2>2. CASE p = Bsp
    <3>1. ~writable' /\ tlb'[Bsp] # "rw" /\ pc'[Last] = pc[Last]
      BY <1>1, <2>2 DEF Virtualize, intercept_apic_write
    <3> QED
      BY <2>1, <3>1 DEF LastInv, InitIsOver
  <2>3. CASE p # Bsp
    <3>1. UNCHANGED <<writable, tlb>> /\ pc'[Bsp] = pc[Bsp]
      BY <1>1, <2>3 DEF Virtualize
    <3>2. pc'[Last] = pc[Last] \/ (pc[Last] = "off" /\ pc'[Last] = "guest")
      BY <1>1 DEF Virtualize
    <3> QED
      BY <2>1, <3>1, <3>2 DEF LastInv, InitIsOver
  <2> QED
    BY <2>2, <2>3
<1>2. CASE StopInterception(p)
  <2>1. /\ UNCHANGED <<req, os, rounds, cs, initPending>> /\ pc[p] = "npf"
        /\ pc' = [pc EXCEPT ![p] = "emulate"]
    BY <1>2 DEF StopInterception
  <2>2. CASE p = Last
    <3>1. cs[Last] # NoVector /\ pc'[Last] = "emulate"
      BY <2>1, <2>2 DEF LastInv
    <3> QED
      BY <2>1, <2>2, <3>1 DEF LastInv, InitIsOver
  <2>3. CASE p # Last
    <3>1. UNCHANGED <<writable, tlb>> /\ pc'[Last] = pc[Last] /\ (pc'[Bsp] # "off" => pc[Bsp] # "off")
      BY <1>2, <2>1, <2>3 DEF StopInterception
    <3> QED
      BY <2>1, <3>1, LastUndisturbed
  <2> QED
    BY <2>2, <2>3
<1>3. CASE UnsupportedStore(p)
  <2>1. /\ UNCHANGED <<writable, tlb, req, os, rounds, cs, initPending>> /\ pc[p] = "emulate"
        /\ pc' = [pc EXCEPT ![p] = "unsupported"]
    BY <1>3 DEF UnsupportedStore
  <2> QED
    BY <2>1 DEF LastInv, InitIsOver
<1>4. CASE EmulateStore(p)
  <2>1. /\ UNCHANGED <<writable, tlb, os, rounds, cs>> /\ pc[p] = "emulate"
        /\ pc' = [pc EXCEPT ![p] = "guest"] /\ req' = [req EXCEPT ![p] = Other]
    BY <1>4 DEF EmulateStore
  <2>2. CASE p # Bsp
    <3>1. initPending' = initPending /\ req'[Bsp] = req[Bsp] /\ pc'[Bsp] = pc[Bsp]
      BY <1>4, <2>1, <2>2 DEF EmulateStore, ApicDoes, TargetInv, Other
    <3> QED
      BY <2>1, <3>1 DEF LastInv, InitIsOver
  <2>3. CASE p = Bsp
    <3>1. req'[Bsp].kind = "other" /\ pc'[Last] = pc[Last]
      BY <2>1, <2>3 DEF Other
    <3>2. CASE req[Bsp].kind # "init"
      <4>1. initPending' = initPending
        BY <1>4, <2>3, <3>2 DEF EmulateStore, ApicDoes
      <4> QED
        BY <2>1, <2>3, <3>1, <4>1, LastUndisturbed
    <3>3. CASE req[Bsp].kind = "init"
      <4>1. os.phase = "sipi1" /\ icrHigh[Bsp] = os.target
        BY <3>3 DEF AimInv, SetDest
      <4>2. initPending' = [initPending EXCEPT ![os.target] = TRUE]
        BY <1>4, <2>3, <3>3, <4>1 DEF EmulateStore, ApicDoes
      <4>3. /\ ~initPending[Last] /\ pc[Last] \in {"off", "guest"} /\ cs[Last] = NoVector
        BY <3>3 DEF LastInv, InitIsOver
      <4>4. initPending'[Last] => os.target = Last
        BY <4>2, <4>3
      <4> QED
        BY <2>1, <2>3, <3>1, <4>1, <4>3, <4>4 DEF LastInv, InitIsOver
    <3> QED
      BY <3>2, <3>3
  <2> QED
    BY <2>2, <2>3
<1>5. CASE EmulateSipi(p)
  <2>1. /\ UNCHANGED <<writable, tlb, os, rounds, cs, initPending>> /\ pc[p] = "emulate"
        /\ pc' = [pc EXCEPT ![p] = "guest"] /\ req' = [req EXCEPT ![p] = Other]
    BY <1>5 DEF EmulateSipi
  <2>2. p = Bsp
    BY <1>5 DEF EmulateSipi, TargetInv, Other
  <2>3. req'[Bsp].kind = "other" /\ pc'[Last] = pc[Last]
    BY <2>1, <2>2 DEF Other
  <2> QED
    BY <2>1, <2>2, <2>3, LastUndisturbed
<1>6. CASE handle_init_signal(p) \/ wait_for_sipi_load(p) \/ wait_for_sipi_swap(p) \/ handle_sipi(p)
  <2>1. UNCHANGED <<writable, req, os, rounds, initPending>>
    BY <1>6 DEF handle_init_signal, wait_for_sipi_load, wait_for_sipi_swap, handle_sipi
  <2>2. p # Bsp
    BY <1>6 DEF handle_init_signal, wait_for_sipi_load, wait_for_sipi_swap, handle_sipi, BspInv
  <2>3. tlb'[Bsp] = tlb[Bsp] /\ pc'[Bsp] = pc[Bsp]
    BY <1>6, <2>2 DEF handle_init_signal, wait_for_sipi_load, wait_for_sipi_swap, handle_sipi
  <2>4. CASE p # Last
    <3>1. pc'[Last] = pc[Last] /\ cs'[Last] = cs[Last]
      BY <1>6, <2>4 DEF handle_init_signal, wait_for_sipi_load, wait_for_sipi_swap, handle_sipi
    <3> QED
      BY <2>1, <2>3, <3>1, LastUndisturbed
  <2>5. CASE p = Last
    <3>1. pc[Last] \in {"sx", "wait", "fetch", "sipi"}
      BY <1>6, <2>5 DEF handle_init_signal, wait_for_sipi_load, wait_for_sipi_swap, handle_sipi
    <3>2. cs[Last] = NoVector
      BY <3>1 DEF LastInv
    <3>3. \/ pc'[Last] \in {"wait", "fetch", "sipi"} /\ cs'[Last] = NoVector
          \/ pc'[Last] = "guest"
      BY <1>6, <2>5, <3>2
      DEF handle_init_signal, wait_for_sipi_load, wait_for_sipi_swap, handle_sipi, ActivityInv
    <3> QED
      BY <2>1, <2>3, <3>1, <3>2, <3>3 DEF LastInv, InitIsOver
  <2> QED
    BY <2>4, <2>5
<1> QED
  BY <1>1, <1>2, <1>3, <1>4, <1>5, <1>6 DEF Handler

LEMMA OrderlyPreserved ==
    ASSUME Inv, AimInv, OrderlyInv, [Next]_vars
    PROVE  OrderlyInv'
<1>1. os'.guest.orderly => os.guest.orderly /\ bypassed' = {}
  BY BypassedPreserved
<1>2. ASSUME os'.guest.orderly, Last # Bsp
      PROVE  LastInv'
  <2>1. os.guest.orderly /\ LastInv
    BY <1>1, <1>2 DEF OrderlyInv
  <2>2. CASE UNCHANGED vars
    BY <2>1, <2>2 DEF vars, LastInv, InitIsOver
  <2> QED
    BY <1>2, <2>1, <2>2, OsSelectLast, OsInitLast, OsSipiLast, OtherStoreLast, TakeInitLast, HandlerLast
    DEF Next, OsWakes
<1> QED
  BY <1>1, <1>2 DEF OrderlyInv, Last

(* If the guest wakes the last processor last and once, no SIPI gets past  *)
(* the hypervisor to a processor that waits for one: the fault by which    *)
(* the last processor ends interception for everybody comes after the last *)
(* SIPI that somebody needs, for any number of processors.                 *)
THEOREM OrderlyBootWorks == Spec => []OrderlyBootIsIntercepted
<1>1. OrderlyInv => OrderlyBootIsIntercepted
  BY DEF OrderlyInv, OrderlyBootIsIntercepted, NoSipiBypassesTheHypervisor
<1>2. Init => Inv /\ AimInv /\ OrderlyInv
  BY InitInv, AimInit, OrderlyInit
<1>3. Inv /\ AimInv /\ OrderlyInv /\ [Next]_vars => (Inv /\ AimInv /\ OrderlyInv)'
  BY NextInv, AimPreserved, OrderlyPreserved
<1> QED
  BY <1>1, <1>2, <1>3, PTL DEF Spec
=============================================================================
