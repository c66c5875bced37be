----------------------------- MODULE PageTables -----------------------------
(***************************************************************************)
(* The page tables of the host (PagingStructuresRaw::build_identity) and   *)
(* AMD's nested page tables (NestedPageTables): the identity mapping of    *)
(* 512GB, the split of the large page that holds the local APIC page, and  *)
(* the write protection of that page.                                      *)
(*                                                                         *)
(* Addresses are page numbers.  A table pointer is the name of the table.  *)
(***************************************************************************)
EXTENDS Integers

CONSTANTS PtEntries,    \* 512: entries of a page table, pages in a large page
          PdEntries,    \* 512 * 512: entries of all page directories, in one row
          PfnStep,      \* 4096: BASE_PAGE_SIZE, which split_2mb() adds to a pfn
          ApicPages     \* inputs: where IA32_APIC_BASE may put the local APIC

Total == PdEntries * PtEntries

ASSUME EntriesAssumption ==
    PtEntries \in Nat \ {0} /\ PdEntries \in Nat \ {0} /\ PfnStep \in Nat
ASSUME ApicAssumption == ApicPages # {} /\ ApicPages \subseteq 0 .. (Total - 1)

VARIABLES
    npt,       \* these are the nested page tables, or the host's own
    apic,      \* IA32_APIC_BASE: page, x2APIC mode, enabled
    pc,        \* which loop or step
    n,         \* the page directory entry it is at
    k,         \* the page table entry it is at
    pa,        \* the next page
    pd,        \* entries of the page directories
    pt,        \* entries of the first page table
    pt_apic    \* entries of the local APIC's page table

vars == <<npt, apic, pc, n, k, pa, pd, pt, pt_apic>>

PtIndices == 0 .. (PtEntries - 1)
PdIndices == 0 .. (PdEntries - 1)

Entries == [present : BOOLEAN, writable : BOOLEAN, user : BOOLEAN, large : BOOLEAN,
            pfn : Nat, table : {"none", "pt", "pt_apic"}]

Zeroed == [present |-> FALSE, writable |-> FALSE, user |-> FALSE, large |-> FALSE,
           pfn |-> 0, table |-> "none"]

Pcs == {"pd", "pt", "built", "ready", "panic"}

TypeOK ==
    /\ npt \in BOOLEAN
    /\ apic \in [page : ApicPages, x2apic : BOOLEAN, enabled : BOOLEAN]
    /\ pc \in Pcs
    /\ n \in 0 .. PdEntries
    /\ k \in 0 .. PtEntries
    /\ pa \in Nat
    /\ pd \in [PdIndices -> Entries]
    /\ pt \in [PtIndices -> Entries]
    /\ pt_apic \in [PtIndices -> Entries]

Init ==
    /\ npt \in BOOLEAN
    /\ apic \in [page : ApicPages, x2apic : BOOLEAN, enabled : BOOLEAN]
    /\ pc = "pd" /\ n = 0 /\ k = 0 /\ pa = 0
    /\ pd = [i \in PdIndices |-> Zeroed]
    /\ pt = [i \in PtIndices |-> Zeroed]
    /\ pt_apic = [i \in PtIndices |-> Zeroed]

-----------------------------------------------------------------------------
(* build_identity_internal().                                              *)

(* Nested page tables are walked as user accesses.                         *)
Page2MB(user, pfn) == [present |-> TRUE, writable |-> TRUE, user |-> user, large |-> TRUE,
                       pfn |-> pfn, table |-> "none"]
Page4KB(user, pfn) == [present |-> TRUE, writable |-> TRUE, user |-> user, large |-> FALSE,
                       pfn |-> pfn, table |-> "none"]
ToPt(user) == [present |-> TRUE, writable |-> TRUE, user |-> user, large |-> FALSE,
               pfn |-> 0, table |-> "pt"]

(* The first 2MB of the host's tables are mapped with 4KB pages.           *)
FirstPde ==
    /\ pc = "pd" /\ n < PdEntries /\ pa = 0 /\ ~npt
    /\ pd' = [pd EXCEPT ![n] = ToPt(npt)]
    /\ pc' = "pt"
    /\ UNCHANGED <<npt, apic, n, k, pa, pt, pt_apic>>

PtePastTheEnd ==
    /\ pc = "pt" /\ k <= PtEntries
    /\ pt' = [pt EXCEPT ![k % PtEntries] = Page4KB(npt, pa)]
    /\ k' = k + 1
    /\ pa' = pa + 1
    /\ UNCHANGED <<npt, apic, pc, n, pd, pt_apic>>

Pte ==
    /\ pc = "pt" /\ k < PtEntries
    /\ pt' = [pt EXCEPT ![k] = Page4KB(npt, pa)]
    /\ k' = k + 1
    /\ pa' = pa + 1
    /\ UNCHANGED <<npt, apic, pc, n, pd, pt_apic>>

NullPageStays ==
    /\ pc = "pt" /\ k = PtEntries
    /\ n' = n + 1
    /\ pc' = "pd"
    /\ UNCHANGED <<npt, apic, k, pa, pd, pt, pt_apic>>

(* The null page is made not present.                                      *)
NullPage ==
    /\ pc = "pt" /\ k = PtEntries
    /\ pt' = [pt EXCEPT ![0].present = FALSE]
    /\ n' = n + 1
    /\ pc' = "pd"
    /\ UNCHANGED <<npt, apic, k, pa, pd, pt_apic>>

PdeAdvancingOnePage ==
    /\ pc = "pd" /\ n < PdEntries /\ (pa # 0 \/ npt)
    /\ pd' = [pd EXCEPT ![n] = Page2MB(npt, pa)]
    /\ n' = n + 1
    /\ pa' = pa + 1
    /\ UNCHANGED <<npt, apic, pc, k, pt, pt_apic>>

Pde ==
    /\ pc = "pd" /\ n < PdEntries /\ (pa # 0 \/ npt)
    /\ pd' = [pd EXCEPT ![n] = Page2MB(npt, pa)]
    /\ n' = n + 1
    /\ pa' = pa + PtEntries
    /\ UNCHANGED <<npt, apic, pc, k, pt, pt_apic>>

Built ==
    /\ pc = "pd" /\ n = PdEntries
    /\ pc' = "built"
    /\ UNCHANGED <<npt, apic, n, k, pa, pd, pt, pt_apic>>

-----------------------------------------------------------------------------
(* NestedPageTables::split_apic_page() and split_2mb().                    *)

ApicPd == apic.page \div PtEntries
ApicPt == apic.page % PtEntries

SplitAllowed ==
    /\ ~apic.x2apic /\ apic.enabled
    /\ pd[ApicPd].present /\ pd[ApicPd].large
    /\ \A i \in PtIndices : ~pt_apic[i].present

split_2mb_incrementing_first(pde) ==
    /\ pt_apic' = [i \in PtIndices |->
                      [pde EXCEPT !.large = FALSE, !.pfn = pde.pfn + PfnStep * (i + 1)]]
    /\ pd' = [pd EXCEPT ![ApicPd].large = FALSE, ![ApicPd].pfn = 0,
                        ![ApicPd].table = "pt_apic"]

split_2mb(pde) ==
    /\ pt_apic' = [i \in PtIndices |->
                      [pde EXCEPT !.large = FALSE, !.pfn = pde.pfn + PfnStep * i]]
    /\ pd' = [pd EXCEPT ![ApicPd].large = FALSE, ![ApicPd].pfn = 0,
                        ![ApicPd].table = "pt_apic"]

split_apic_page ==
    /\ pc = "built" /\ npt
    /\ IF SplitAllowed
         THEN split_2mb(pd[ApicPd]) /\ pc' = "ready"
         ELSE pc' = "panic" /\ UNCHANGED <<pd, pt_apic>>
    /\ UNCHANGED <<npt, apic, n, k, pa, pt>>

intercept_large_page(enable) ==
    /\ pc = "ready"
    /\ pd' = [pd EXCEPT ![ApicPd].writable = ~enable]
    /\ UNCHANGED <<npt, apic, pc, n, k, pa, pt, pt_apic>>

(* SvmGuest::intercept_apic_write(): what it does to the tables.           *)
intercept_apic_write(enable) ==
    /\ pc = "ready"
    /\ pt_apic' = [pt_apic EXCEPT ![ApicPt].writable = ~enable]
    /\ UNCHANGED <<npt, apic, pc, n, k, pa, pd, pt>>

-----------------------------------------------------------------------------
Next ==
    \/ FirstPde \/ Pte \/ NullPage \/ Pde \/ Built
    \/ split_apic_page
    \/ \E enable \in BOOLEAN : intercept_apic_write(enable)

Spec == Init /\ [][Next]_vars

-----------------------------------------------------------------------------
(* The processor's walk: the entry that maps a page, and where it leads.   *)

Leaf(page) ==
    LET pde == pd[page \div PtEntries]
    IN  CASE pde.table = "pt" -> pt[page % PtEntries]
          [] pde.table = "pt_apic" -> pt_apic[page % PtEntries]
          [] OTHER -> pde

Translate(page) ==
    Leaf(page).pfn + (IF Leaf(page).large THEN page % PtEntries ELSE 0)

(* A page may be written to if each entry on the way allows it.            *)
Writable(page) == pd[page \div PtEntries].writable /\ Leaf(page).writable

Finished == pc \in {"built", "ready"}

InSplitPage(page) == pc = "ready" /\ page \div PtEntries = ApicPd

(* Outside the large page that is split, every page but the host's null    *)
(* page is present and leads to itself, whichever table maps it.           *)
IsIdentity ==
    Finished =>
        \A p \in 0 .. (Total - 1) :
            InSplitPage(p) \/ (p = 0 /\ ~npt) \/ (Leaf(p).present /\ Translate(p) = p)

(* A null pointer access by the host causes #PF; the guest's page 0 is     *)
(* ordinary memory.                                                        *)
NullPageCaught == Finished => (Leaf(0).present <=> npt)

(* Write protection for the local APIC takes no other page of the guest's  *)
(* memory with it.                                                         *)
OnlyApicProtected ==
    pc = "ready" =>
        \A p \in 0 .. (Total - 1) : p = apic.page \/ (Leaf(p).present /\ Writable(p))

(* The local APIC is found where it is, when its page is the first of a    *)
(* large page, as at its default address 0xfee00000.                       *)
ApicIsWhereItIs ==
    pc = "ready" /\ ApicPt = 0 => Translate(apic.page) = apic.page
=============================================================================
