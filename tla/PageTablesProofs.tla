-------------------------- MODULE PageTablesProofs --------------------------
(***************************************************************************)
(* The loops of build_identity_internal() map every page to itself, for    *)
(* any size of the tables, in the host's and in the nested page tables.    *)
(***************************************************************************)
EXTENDS PageTables, TLAPS

LEMMA Monotone ==
    ASSUME NEW a \in Nat, NEW b \in Nat, NEW c \in Nat, a <= b
    PROVE  a * c <= b * c
<1>1. PICK d \in Nat : b = a + d
  BY SMT
<1>2. (a + d) * c = a * c + d * c /\ d * c \in Nat /\ a * c \in Nat
  BY SMT
<1> QED
  BY <1>1, <1>2, SMT

(* Division with remainder by the number of entries of a page table.       *)
LEMMA Division ==
    ASSUME NEW p \in 0 .. (Total - 1)
    PROVE  /\ p \div PtEntries \in PdIndices
           /\ p % PtEntries \in PtIndices
           /\ p = (p \div PtEntries) * PtEntries + (p % PtEntries)
<1> DEFINE q == p \div PtEntries
           r == p % PtEntries
<1>1. p \in Nat /\ p < PdEntries * PtEntries /\ PtEntries \in Nat /\ PtEntries > 0 /\ PdEntries \in Nat
  BY EntriesAssumption DEF Total
<1>2. q \in Nat /\ r \in PtIndices /\ p = q * PtEntries + r
  BY <1>1, SMT DEF PtIndices
<1>3. q < PdEntries
  <2>1. SUFFICES ASSUME PdEntries <= q PROVE FALSE
    BY <1>1, <1>2, SMT
  <2>2. PdEntries * PtEntries <= q * PtEntries
    BY <2>1, <1>1, <1>2, Monotone
  <2>3. PdEntries * PtEntries \in Nat /\ q * PtEntries \in Nat /\ r \in Nat
    BY <1>1, <1>2, SMT DEF PtIndices
  <2>4. \A x, y \in Nat : x <= y /\ p = y + r => ~(p < x)
    BY <1>1, <2>3, SMT
  <2> HIDE DEF q, r
  <2> QED
    BY <2>2, <2>3, <2>4, <1>1, <1>2, Zenon
<1> QED
  BY <1>2, <1>3, <1>1, SMT DEF PdIndices

LEMMA NextMultiple ==
    ASSUME NEW i \in Nat
    PROVE  i * PtEntries \in Nat /\ (i + 1) * PtEntries = i * PtEntries + PtEntries
BY EntriesAssumption, SMT

(* The entries of the loops' finished iterations.  The large page of the   *)
(* local APIC leads to its own table once it is split.                     *)
PdInv ==
    \A i \in 0 .. (n - 1) :
        \/ i = 0 /\ ~npt /\ pd[i] = ToPt(npt)
        \/ (i # 0 \/ npt) /\ pd[i] = Page2MB(npt, i * PtEntries)
        \/ pc = "ready" /\ i = ApicPd /\ pd[i].table = "pt_apic"

PtInv ==
    ~npt /\ n > 0 =>
        \A j \in PtIndices : /\ pt[j].pfn = j /\ ~pt[j].large
                             /\ pt[j].present <=> j # 0

ApicInv ==
    pc = "ready" =>
        /\ npt
        /\ pd[ApicPd].table = "pt_apic" /\ pd[ApicPd].writable
        /\ \A i \in PtIndices : /\ pt_apic[i].present /\ (i = ApicPt \/ pt_apic[i].writable)
                                /\ ~pt_apic[i].large
                                /\ pt_apic[i].pfn = ApicPd * PtEntries + PfnStep * i

(* Where a loop is, and the address it has come to.                        *)
LoopInv ==
    /\ pc = "pd" => pa = n * PtEntries
    /\ pc = "pd" /\ n = 0 => k = 0
    /\ pc = "pt" => /\ ~npt /\ n = 0 /\ pa = k
                    /\ pd[0] = ToPt(npt)
                    /\ \A j \in 0 .. (k - 1) : pt[j] = Page4KB(npt, j)
    /\ pc \in {"built", "ready", "panic"} => n = PdEntries

Inv == TypeOK /\ PdInv /\ PtInv /\ ApicInv /\ LoopInv

LEMMA PageType ==
    ASSUME NEW u \in BOOLEAN, NEW f \in Nat
    PROVE  /\ Page2MB(u, f) \in Entries /\ Page4KB(u, f) \in Entries
           /\ Page2MB(u, f).present /\ Page2MB(u, f).writable /\ Page2MB(u, f).large
           /\ Page4KB(u, f).present /\ ~Page4KB(u, f).large
           /\ Page2MB(u, f).pfn = f /\ Page4KB(u, f).pfn = f /\ Page2MB(u, f).table = "none"
BY DEF Page2MB, Page4KB, Entries

LEMMA TableType == \A u \in BOOLEAN : ToPt(u) \in Entries /\ ToPt(u).table = "pt"
BY DEF ToPt, Entries

LEMMA BooleanNpt == Inv => npt \in BOOLEAN
BY DEF Inv, TypeOK

LEMMA ApicIndices ==
    ASSUME TypeOK
    PROVE  ApicPd \in PdIndices /\ ApicPt \in PtIndices
<1>1. apic.page \in 0 .. (Total - 1)
  BY ApicAssumption DEF TypeOK
<1> QED
  BY <1>1, Division DEF ApicPd, ApicPt

LEMMA InitInv == Init => Inv
<1> SUFFICES ASSUME Init PROVE Inv
  OBVIOUS
<1>1. Zeroed \in Entries
  BY DEF Zeroed, Entries
<1>2. TypeOK
  BY <1>1, EntriesAssumption DEF Init, TypeOK, Pcs
<1>3. 0 * PtEntries = 0
  BY EntriesAssumption, SMT
<1> QED
  BY <1>2, <1>3 DEF Init, Inv, PdInv, PtInv, ApicInv, LoopInv

LEMMA FirstPdeInv == Inv /\ FirstPde => Inv'
<1> SUFFICES ASSUME Inv, FirstPde PROVE Inv'
  OBVIOUS
<1>1. n = 0
  <2>1. n \in Nat /\ PtEntries \in Nat /\ PtEntries # 0 /\ n * PtEntries = 0
    BY EntriesAssumption DEF Inv, TypeOK, LoopInv, FirstPde
  <2> QED
    BY <2>1, SMT
<1>2. TypeOK'
  BY TableType DEF Inv, TypeOK, FirstPde, Pcs
<1>3. 0 \in PdIndices
  BY EntriesAssumption DEF PdIndices
<1>4. PdInv' /\ PtInv' /\ ApicInv'
  BY <1>1, <1>2 DEF PdInv, PtInv, ApicInv, FirstPde, TypeOK
<1>5. LoopInv'
  BY <1>1, <1>3, TableType DEF Inv, TypeOK, LoopInv, FirstPde
<1> QED
  BY <1>2, <1>4, <1>5 DEF Inv

LEMMA PteInv == Inv /\ Pte => Inv'
<1> SUFFICES ASSUME Inv, Pte PROVE Inv'
  OBVIOUS
<1>1. n = 0 /\ pa = k /\ ~npt /\ k \in Nat /\ k < PtEntries
  BY DEF Inv, TypeOK, LoopInv, Pte
<1>2. Page4KB(npt, pa) \in Entries
  BY <1>1, PageType, BooleanNpt
<1>3. TypeOK'
  <2>1. pt' \in [PtIndices -> Entries]
    BY <1>2 DEF Inv, TypeOK, Pte
  <2>2. k' \in 0 .. PtEntries /\ pa' \in Nat
    BY <1>1, EntriesAssumption DEF Pte
  <2> QED
    BY <2>1, <2>2 DEF Inv, TypeOK, Pte
<1>4. PdInv' /\ PtInv' /\ ApicInv'
  BY <1>1 DEF Inv, PdInv, PtInv, ApicInv, Pte
<1>5. pt'[k] = Page4KB(npt, k)
  BY <1>1, EntriesAssumption DEF Inv, TypeOK, Pte, PtIndices
<1>6. \A j \in 0 .. (k' - 1) : pt'[j] = Page4KB(npt, j)
  BY <1>1, <1>5, EntriesAssumption DEF Inv, TypeOK, LoopInv, Pte, PtIndices
<1>7. LoopInv'
  BY <1>1, <1>6 DEF Inv, LoopInv, Pte
<1> QED
  BY <1>3, <1>4, <1>7 DEF Inv

LEMMA NullPageInv == Inv /\ NullPage => Inv'
<1> SUFFICES ASSUME Inv, NullPage PROVE Inv'
  OBVIOUS
<1>1. n = 0 /\ pa = PtEntries /\ ~npt /\ k = PtEntries
  BY DEF Inv, LoopInv, NullPage
<1>2. 0 \in PtIndices /\ PtEntries \in Nat /\ PdEntries \in Nat \ {0}
  BY EntriesAssumption DEF PtIndices
<1>3. TypeOK'
  <2>1. pt \in [PtIndices -> Entries] /\ pt[0] \in Entries
    BY <1>2 DEF Inv, TypeOK
  <2>2. [pt[0] EXCEPT !.present = FALSE] \in Entries
    BY <2>1 DEF Entries
  <2>3. pt' \in [PtIndices -> Entries]
    BY <2>1, <2>2 DEF NullPage
  <2> QED
    BY <1>1, <1>2, <2>3 DEF Inv, TypeOK, NullPage, Pcs
<1>4. \A j \in PtIndices : pt[j] = Page4KB(npt, j)
  BY <1>1, <1>2 DEF Inv, LoopInv, NullPage, PtIndices
<1>5. \A j \in PtIndices : pt[j].pfn = j /\ ~pt[j].large /\ pt[j].present
  BY <1>4, PageType, BooleanNpt DEF PtIndices
<1>6. PtInv'
  BY <1>1, <1>2, <1>5 DEF Inv, TypeOK, PtInv, NullPage, Entries
<1>7. PdInv'
  BY <1>1 DEF Inv, LoopInv, PdInv, NullPage
<1>8. 1 * PtEntries = PtEntries
  BY <1>2, SMT
<1>9. ApicInv' /\ LoopInv'
  BY <1>1, <1>8 DEF ApicInv, LoopInv, NullPage
<1> QED
  BY <1>3, <1>6, <1>7, <1>9 DEF Inv

LEMMA PdeInv == Inv /\ Pde => Inv'
<1> SUFFICES ASSUME Inv, Pde PROVE Inv'
  OBVIOUS
<1>1. /\ pc = "pd" /\ n \in PdIndices /\ n \in Nat /\ pa = n * PtEntries
      /\ n' = n + 1 /\ pa' = pa + PtEntries
  BY EntriesAssumption DEF Inv, TypeOK, LoopInv, Pde, PdIndices
<1>2. Page2MB(npt, pa) \in Entries
  BY <1>1, PageType DEF Inv, TypeOK
<1>3. TypeOK'
  BY <1>1, <1>2, EntriesAssumption DEF Inv, TypeOK, Pde, PdIndices
<1>4. n # 0 \/ npt
  <2>1. CASE npt
    BY <2>1
  <2>2. CASE pa # 0
    <3>1. 0 * PtEntries = 0
      BY EntriesAssumption, SMT
    <3> QED
      BY <1>1, <2>2, <3>1
  <2> QED
    BY <2>1, <2>2 DEF Pde
<1>5. pd'[n] = Page2MB(npt, n * PtEntries) /\ \A i \in 0 .. (n - 1) : pd'[i] = pd[i]
  BY <1>1 DEF Inv, TypeOK, Pde, PdIndices
<1>6. PdInv'
  BY <1>1, <1>4, <1>5 DEF Inv, PdInv, Pde
<1>7. PtInv'
  BY <1>1, <1>4 DEF Inv, PtInv, Pde
<1>8. pa' = n' * PtEntries
  BY <1>1, NextMultiple
<1>9. ApicInv' /\ LoopInv'
  BY <1>1, <1>8 DEF ApicInv, LoopInv, Pde
<1> QED
  BY <1>3, <1>6, <1>7, <1>9 DEF Inv

LEMMA BuiltInv == Inv /\ Built => Inv'
<1> SUFFICES ASSUME Inv, Built PROVE Inv'
  OBVIOUS
<1>1. TypeOK'
  BY DEF Inv, TypeOK, Built, Pcs
<1>2. PdInv' /\ PtInv' /\ ApicInv' /\ LoopInv'
  BY DEF Inv, PdInv, PtInv, ApicInv, LoopInv, Built
<1> QED
  BY <1>1, <1>2 DEF Inv

LEMMA SplitInv == Inv /\ split_apic_page => Inv'
<1> SUFFICES ASSUME Inv, split_apic_page PROVE Inv'
  OBVIOUS
<1>1. /\ pc = "built" /\ n = PdEntries /\ npt /\ PdEntries \in Nat
      /\ ApicPd \in PdIndices /\ ApicPt \in PtIndices /\ ApicPd' = ApicPd /\ ApicPt' = ApicPt
      /\ UNCHANGED <<npt, apic, n, k, pa, pt>>
  BY ApicIndices, EntriesAssumption DEF Inv, LoopInv, split_apic_page, ApicPd, ApicPt
<1>2. CASE ~SplitAllowed
  <2>1. pc' = "panic" /\ UNCHANGED <<pd, pt_apic>>
    BY <1>2 DEF split_apic_page
  <2>2. TypeOK'
    BY <1>1, <2>1 DEF Inv, TypeOK, Pcs
  <2>3. PdInv' /\ PtInv' /\ ApicInv' /\ LoopInv'
    BY <1>1, <2>1 DEF Inv, PdInv, PtInv, ApicInv, LoopInv
  <2> QED
    BY <2>2, <2>3 DEF Inv
<1>3. CASE SplitAllowed
  <2> DEFINE pde == pd[ApicPd]
             split == [pde EXCEPT !.large = FALSE, !.pfn = 0, !.table = "pt_apic"]
  <2>1. pc' = "ready" /\ split_2mb(pde)
    BY <1>3 DEF split_apic_page
  <2>2. pde = Page2MB(npt, ApicPd * PtEntries)
    BY <1>1 DEF Inv, PdInv, PdIndices
  <2>3. ApicPd * PtEntries \in Nat
    BY <1>1, NextMultiple DEF PdIndices
  <2>4. /\ pde \in Entries /\ pde.present /\ pde.writable
        /\ pde.pfn \in Nat /\ pde.pfn = ApicPd * PtEntries
    BY <2>2, <2>3, PageType, BooleanNpt
  <2>5. \A i \in PtIndices : PfnStep * i \in Nat
    BY EntriesAssumption, SMT DEF PtIndices
  <2>6. \A i \in PtIndices :
            /\ pt_apic'[i] = [pde EXCEPT !.large = FALSE, !.pfn = pde.pfn + PfnStep * i]
            /\ pt_apic'[i] \in Entries /\ pt_apic'[i].present /\ pt_apic'[i].writable
            /\ ~pt_apic'[i].large /\ pt_apic'[i].pfn = pde.pfn + PfnStep * i
    <3> TAKE i \in PtIndices
    <3>1. pt_apic'[i] = [pde EXCEPT !.large = FALSE, !.pfn = pde.pfn + PfnStep * i]
      BY <2>1 DEF split_2mb
    <3>2. pde.pfn + PfnStep * i \in Nat
      BY <2>4, <2>5
    <3> QED
      BY <3>1, <3>2, <2>4 DEF Entries
  <2>7. pt_apic' \in [PtIndices -> Entries]
    <3>1. pt_apic' = [i \in PtIndices |-> pt_apic'[i]]
      BY <2>1 DEF split_2mb
    <3> QED
      BY <3>1, <2>6
  <2>8. pd' = [pd EXCEPT ![ApicPd] = split]
    BY <2>1, <1>1 DEF split_2mb, Inv, TypeOK
  <2>9. split \in Entries /\ split.table = "pt_apic" /\ split.writable
    BY <2>4 DEF Entries
  <2> HIDE DEF split, pde
  <2>10. TypeOK'
    BY <1>1, <2>1, <2>7, <2>8, <2>9 DEF Inv, TypeOK, Pcs
  <2>11. pd'[ApicPd] = split /\ \A i \in PdIndices : i # ApicPd => pd'[i] = pd[i]
    BY <1>1, <2>8 DEF Inv, TypeOK
  <2>12. PdInv'
    BY <1>1, <2>1, <2>9, <2>11 DEF Inv, PdInv, PdIndices
  <2>13. ApicInv'
    BY <1>1, <2>1, <2>4, <2>6, <2>9, <2>11 DEF ApicInv
  <2>14. PtInv' /\ LoopInv'
    BY <1>1, <2>1 DEF Inv, PtInv, LoopInv
  <2> QED
    BY <2>10, <2>12, <2>13, <2>14 DEF Inv
<1> QED
  BY <1>2, <1>3

LEMMA InterceptInv ==
    ASSUME Inv, NEW enable \in BOOLEAN, intercept_apic_write(enable)
    PROVE  Inv'
<1> DEFINE e == [pt_apic[ApicPt] EXCEPT !.writable = ~enable]
<1>1. /\ pc = "ready" /\ ApicPt \in PtIndices /\ ApicPd' = ApicPd /\ ApicPt' = ApicPt
      /\ UNCHANGED <<npt, apic, pc, n, k, pa, pd, pt>>
  BY ApicIndices DEF Inv, intercept_apic_write, ApicPd, ApicPt
<1>2. pt_apic' = [pt_apic EXCEPT ![ApicPt] = e]
  BY DEF intercept_apic_write
<1>3. pt_apic \in [PtIndices -> Entries] /\ pt_apic[ApicPt] \in Entries /\ pt_apic[ApicPt].present
  BY <1>1 DEF Inv, TypeOK, ApicInv
<1>4. /\ e \in Entries /\ e.present
      /\ e.large = pt_apic[ApicPt].large /\ e.pfn = pt_apic[ApicPt].pfn
  BY <1>3 DEF Entries
<1> HIDE DEF e
<1>5. TypeOK'
  BY <1>1, <1>2, <1>3, <1>4 DEF Inv, TypeOK
<1>6. ApicInv'
  BY <1>1, <1>2, <1>3, <1>4 DEF Inv, ApicInv
<1>7. PdInv' /\ PtInv' /\ LoopInv'
  BY <1>1 DEF Inv, PdInv, PtInv, LoopInv
<1> QED
  BY <1>5, <1>6, <1>7 DEF Inv

LEMMA NextInv == Inv /\ [Next]_vars => Inv'
<1> SUFFICES ASSUME Inv, [Next]_vars PROVE Inv'
  OBVIOUS
<1>1. CASE UNCHANGED vars
  BY <1>1 DEF vars, Inv, TypeOK, PdInv, PtInv, ApicInv, LoopInv, ApicPd, ApicPt
<1>2. CASE Next
  BY <1>2, FirstPdeInv, PteInv, NullPageInv, PdeInv, BuiltInv, SplitInv, InterceptInv DEF Next
<1> QED
  BY <1>1, <1>2

LEMMA Invariance == Spec => []Inv
<1> QED
  BY InitInv, NextInv, PTL DEF Spec

(* Entries, indices and addresses keep their types: no loop writes past    *)
(* the end of a table.                                                     *)
THEOREM TypeCorrect == Spec => []TypeOK
<1>1. Inv => TypeOK
  BY DEF Inv
<1> QED
  BY <1>1, Invariance, PTL

LEMMA LeafOf ==
    ASSUME Inv, Finished, NEW p \in 0 .. (Total - 1)
    PROVE  LET q == p \div PtEntries
               r == p % PtEntries
           IN  /\ q = 0 /\ ~npt => Leaf(p) = pt[r]
               /\ InSplitPage(p) => Leaf(p) = pt_apic[r]
               /\ (q # 0 \/ npt) /\ ~InSplitPage(p) =>
                      Leaf(p) = Page2MB(npt, q * PtEntries) /\ Leaf(p) = pd[q]
<1> DEFINE q == p \div PtEntries
<1>1. q \in PdIndices /\ n = PdEntries /\ pc \in {"built", "ready"} /\ q \in 0 .. (n - 1)
  BY Division DEF Inv, LoopInv, Finished, PdIndices
<1>2. q = 0 /\ ~npt => pd[q].table = "pt"
  BY <1>1, TableType, BooleanNpt DEF Inv, PdInv, ApicInv
<1>3. InSplitPage(p) => pd[q].table = "pt_apic"
  BY DEF Inv, ApicInv, InSplitPage
<1>4. (q # 0 \/ npt) /\ ~InSplitPage(p) => pd[q] = Page2MB(npt, q * PtEntries)
  BY <1>1 DEF Inv, PdInv, InSplitPage
<1>5. q * PtEntries \in Nat
  BY <1>1, NextMultiple DEF PdIndices
<1>6. Page2MB(npt, q * PtEntries).table = "none"
  BY <1>5, PageType, BooleanNpt
<1> QED
  BY <1>2, <1>3, <1>4, <1>6 DEF Leaf

(* build_identity_internal() gives an identity mapping, for every size of  *)
(* the tables, of the host and of the guest.                               *)
THEOREM IdentityMapping == Spec => []IsIdentity
<1>1. Inv => IsIdentity
  <2> SUFFICES ASSUME Inv, Finished, NEW p \in 0 .. (Total - 1),
                      ~InSplitPage(p), ~(p = 0 /\ ~npt)
               PROVE  Leaf(p).present /\ Translate(p) = p
    BY DEF IsIdentity
  <2> DEFINE q == p \div PtEntries
             r == p % PtEntries
  <2>1. q \in PdIndices /\ r \in PtIndices /\ p = q * PtEntries + r /\ q \in Nat /\ r \in Nat
    BY Division DEF PdIndices, PtIndices
  <2>2. q * PtEntries \in Nat
    BY <2>1, NextMultiple
  <2>3. CASE q = 0 /\ ~npt
    <3>1. Leaf(p) = pt[r] /\ n > 0
      BY <2>3, LeafOf, EntriesAssumption DEF Inv, LoopInv, Finished
    <3>2. q * PtEntries = 0
      BY <2>3, EntriesAssumption, SMT
    <3>3. p = r /\ r # 0
      BY <2>1, <2>2, <2>3, <3>2
    <3>4. pt[r].pfn = r /\ ~pt[r].large /\ pt[r].present
      BY <2>1, <2>3, <3>1, <3>3 DEF Inv, PtInv
    <3> HIDE DEF q, r
    <3> QED
      BY <2>1, <3>1, <3>3, <3>4 DEF Translate
  <2>4. CASE q # 0 \/ npt
    <3>1. Leaf(p) = Page2MB(npt, q * PtEntries)
      BY <2>4, LeafOf
    <3>2. Leaf(p).present /\ Leaf(p).large /\ Leaf(p).pfn = q * PtEntries
      BY <3>1, <2>2, PageType, BooleanNpt
    <3>3. Translate(p) = q * PtEntries + r
      BY <3>2 DEF Translate
    <3> QED
      BY <2>1, <3>2, <3>3
  <2> QED
    BY <2>3, <2>4
<1> QED
  BY <1>1, Invariance, PTL

(* Null pointer accesses of the host are caught, and only those.           *)
THEOREM NullPointersFault == Spec => []NullPageCaught
<1>1. Inv => NullPageCaught
  <2> SUFFICES ASSUME Inv, Finished PROVE Leaf(0).present <=> npt
    BY DEF NullPageCaught
  <2>1. Total \in Nat /\ Total > 0
    BY EntriesAssumption, SMT DEF Total
  <2>2. 0 \in 0 .. (Total - 1)
    BY <2>1
  <2>3. 0 \div PtEntries = 0 /\ 0 % PtEntries = 0 /\ 0 \in PtIndices
    BY EntriesAssumption, SMT DEF PtIndices
  <2>4. CASE ~npt
    <3>1. Leaf(0) = pt[0] /\ n > 0
      BY <2>2, <2>3, <2>4, LeafOf, EntriesAssumption DEF Inv, LoopInv, Finished
    <3> QED
      BY <2>3, <2>4, <3>1 DEF Inv, PtInv
  <2>5. CASE npt /\ InSplitPage(0)
    <3>1. Leaf(0) = pt_apic[0]
      BY <2>2, <2>3, <2>5, LeafOf
    <3> QED
      BY <2>3, <2>5, <3>1 DEF Inv, ApicInv, InSplitPage
  <2>6. CASE npt /\ ~InSplitPage(0)
    <3>1. Leaf(0) = Page2MB(npt, (0 \div PtEntries) * PtEntries)
      BY <2>2, <2>6, LeafOf, Zenon
    <3>2. (0 \div PtEntries) * PtEntries \in Nat
      BY <2>3, EntriesAssumption, SMT
    <3>3. Leaf(0).present
      BY <3>1, <3>2, PageType, BooleanNpt
    <3> QED
      BY <2>6, <3>3
  <2> QED
    BY <2>4, <2>5, <2>6
<1> QED
  BY <1>1, Invariance, PTL

(* Whatever the sequence of intercept_apic_write() calls, the guest can    *)
(* write to all of its memory but the local APIC page.                     *)
THEOREM InterceptionIsConfined == Spec => []OnlyApicProtected
<1>1. Inv => OnlyApicProtected
  <2> SUFFICES ASSUME Inv, pc = "ready", NEW p \in 0 .. (Total - 1), p # apic.page
               PROVE  Leaf(p).present /\ Writable(p)
    BY DEF OnlyApicProtected
  <2> DEFINE q == p \div PtEntries
             r == p % PtEntries
  <2>1. Finished /\ npt
    BY DEF Finished, Inv, ApicInv
  <2>2. q \in PdIndices /\ r \in PtIndices /\ p = q * PtEntries + r
    BY Division
  <2>3. CASE InSplitPage(p)
    <3>1. apic.page \in 0 .. (Total - 1)
      BY ApicAssumption DEF Inv, TypeOK
    <3>2. apic.page = ApicPd * PtEntries + ApicPt
      BY <3>1, Division DEF ApicPd, ApicPt
    <3>3. q = ApicPd
      BY <2>3 DEF InSplitPage
    <3>4. r # ApicPt
      <4> HIDE DEF q, r
      <4> QED
        BY <2>2, <3>2, <3>3
    <3>5. Leaf(p) = pt_apic[r]
      BY <2>1, <2>3, LeafOf
    <3> QED
      BY <2>2, <3>3, <3>4, <3>5 DEF Inv, ApicInv, Writable
  <2>4. CASE ~InSplitPage(p)
    <3>1. Leaf(p) = Page2MB(npt, q * PtEntries) /\ Leaf(p) = pd[q]
      BY <2>1, <2>4, LeafOf
    <3>2. q * PtEntries \in Nat
      BY <2>2, NextMultiple DEF PdIndices
    <3> QED
      BY <3>1, <3>2, PageType, BooleanNpt DEF Writable
  <2> QED
    BY <2>3, <2>4
<1> QED
  BY <1>1, Invariance, PTL

(* split_2mb() adds 4096 to the page frame number for each page, where one *)
(* would do, and yet the local APIC stays where it is at the addresses in  *)
(* use: the first page of a large page is the one that the step does not   *)
(* reach.  That holds after any sequence of intercept_apic_write() calls,  *)
(* for every address of that form and whatever the step.                   *)
THEOREM ApicStaysInPlace == Spec => []ApicIsWhereItIs
<1>1. Inv => ApicIsWhereItIs
  <2> SUFFICES ASSUME Inv, pc = "ready", ApicPt = 0
               PROVE  Translate(apic.page) = apic.page
    BY DEF ApicIsWhereItIs
  <2>1. apic.page \in 0 .. (Total - 1)
    BY ApicAssumption DEF Inv, TypeOK
  <2>2. apic.page = ApicPd * PtEntries + ApicPt /\ ApicPd \in Nat
    BY <2>1, Division DEF ApicPd, ApicPt, PdIndices
  <2>3. Finished /\ InSplitPage(apic.page)
    BY DEF Finished, InSplitPage, ApicPd
  <2>4. Leaf(apic.page) = pt_apic[ApicPt] /\ 0 \in PtIndices
    BY <2>1, <2>3, LeafOf, EntriesAssumption DEF ApicPt, PtIndices
  <2>5. ~Leaf(apic.page).large /\ Leaf(apic.page).pfn = ApicPd * PtEntries + PfnStep * 0
    BY <2>4 DEF Inv, ApicInv
  <2>6. PfnStep * 0 = 0 /\ ApicPd * PtEntries \in Nat
    BY <2>2, EntriesAssumption, SMT
  <2> QED
    BY <2>2, <2>5, <2>6 DEF Translate
<1> QED
  BY <1>1, Invariance, PTL
=============================================================================
