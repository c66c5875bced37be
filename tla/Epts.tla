-------------------------------- MODULE Epts --------------------------------
(***************************************************************************)
(* Epts::build_identity(): the extended page tables, entry by entry, with  *)
(* the memory types that Mtrr::find() gives.  4KB pages for the first 2MB, *)
(* 2MB pages for the rest of the first 512GB, 1GB pages above.             *)
(***************************************************************************)
EXTENDS Mtrr

CONSTANTS PtEntries, PdEntries, PdptEntries, Pml4Entries,  \* 512 of each
          RawMtrrs           \* inputs: what the registers hold

LargePage == PtEntries                  \* 2MB
HugePage == PdEntries * LargePage       \* 1GB
SlotSize == PdptEntries * HugePage      \* 512GB, PML4_SLOT_SIZE
Total == Pml4Entries * SlotSize

ASSUME SizeAssumption ==
    /\ {PtEntries, PdEntries, PdptEntries, Pml4Entries} \subseteq Nat \ {0}
    /\ FixedEnd <= LargePage /\ Total = 2^Width
(* What the registers of the machines under consideration can hold.        *)
ASSUME RawAssumption ==
    \A r \in RawMtrrs :
        /\ r.enabled \in BOOLEAN /\ r.default \in MemoryType
        /\ r.fixed \in [1 .. Len(FixedRanges) -> [1 .. BytesPerRegister -> MemoryType]]
        /\ r.variable \in Seq([valid : BOOLEAN, base : 0 .. (Total - 1), mask : Nat, type : MemoryType])
        \* bsf has no result for a mask of zero
        /\ \A k \in DOMAIN r.variable :
               r.variable[k].valid => \E j \in 0 .. (Width - 1) : Bit(r.variable[k].mask, j) = 1

VARIABLES
    raw,    \* the registers of this processor; they do not change
    mtrr,   \* what Mtrr::new() made of them
    pc,     \* which loop
    n,      \* how far it is
    pa,     \* the next address
    pt,     \* entries of the one page table
    pd,     \* entries of the page directories, in one row
    pdpt    \* entries of the page directory pointer tables 1 .., in one row

vars == <<raw, mtrr, pc, n, pa, pt, pd, pdpt>>

Absent == [kind |-> "absent", page |-> 0, type |-> "UC"]
ToPt == [kind |-> "table", page |-> 0, type |-> "UC"]
Leaf(page, type) == [kind |-> "leaf", page |-> page, type |-> type]
Entries == [kind : {"absent", "table", "leaf"}, page : 0 .. (Total - 1), type : MemoryType]

NoMtrr == [default |-> None, fixed |-> <<>>, variable |-> <<>>]

MemoryTypeRange == [type : MemoryType, start : Nat, end : Nat]

(* The type invariant: no entry has an address outside of the physical     *)
(* address space, or the None of find() for a type.                        *)
TypeOK ==
    /\ raw \in RawMtrrs
    /\ mtrr \in [default : MemoryType \cup {None},
                 fixed : Seq(MemoryTypeRange), variable : Seq(MemoryTypeRange)]
    /\ pc \in {"new", "fixed", "variable", "pd", "pt", "pdpt", "done", "panic"}
    /\ n \in Nat
    /\ pa \in 0 .. Total
    /\ pt \in [0 .. (PtEntries - 1) -> Entries]
    /\ pd \in [0 .. (PdptEntries * PdEntries - 1) -> Entries]
    /\ pdpt \in [PdptEntries .. (Pml4Entries * PdptEntries - 1) -> Entries]

Init ==
    /\ raw \in RawMtrrs
    /\ mtrr = NoMtrr
    /\ pc = "new" /\ n = 0 /\ pa = 0
    /\ pt = [k \in 0 .. (PtEntries - 1) |-> Absent]
    /\ pd = [k \in 0 .. (PdptEntries * PdEntries - 1) |-> Absent]
    /\ pdpt = [k \in PdptEntries .. (Pml4Entries * PdptEntries - 1) |-> Absent]

Panic == pc' = "panic" /\ UNCHANGED <<raw, mtrr, n, pa, pt, pd, pdpt>>

(* RawMtrrs::new() asserts that the MTRRs are enabled.                     *)
ReadMtrrs ==
    /\ pc = "new"
    /\ \/ raw.enabled /\ mtrr' = [mtrr EXCEPT !.default = raw.default] /\ pc' = "fixed"
       \/ ~raw.enabled /\ UNCHANGED mtrr /\ pc' = "panic"
    /\ UNCHANGED <<raw, n, pa, pt, pd, pdpt>>

FixedCount == Len(FixedRanges) * BytesPerRegister

convert_from_raw_fixed ==
    /\ pc = "fixed" /\ n < FixedCount
    /\ mtrr' = [mtrr EXCEPT !.fixed = update_combined_ranges(@, FixedRange(raw.fixed, n))]
    /\ n' = n + 1
    /\ UNCHANGED <<raw, pc, pa, pt, pd, pdpt>>

convert_from_raw_variable ==
    /\ pc = "variable" /\ n < ReadCount(raw.variable)
    /\ LET v == raw.variable[n + 1]
       IN  mtrr' = IF v.valid
                     THEN [mtrr EXCEPT !.variable = update_combined_ranges(@, VariableRange(v))]
                     ELSE mtrr
    /\ n' = n + 1
    /\ UNCHANGED <<raw, pc, pa, pt, pd, pdpt>>

(* A loop over the registers is over; the next one starts from 0.          *)
EndConversion ==
    /\ \/ pc = "fixed" /\ n = FixedCount /\ pc' = "variable"
       \/ pc = "variable" /\ n = ReadCount(raw.variable) /\ pc' = "pd"
    /\ n' = 0
    /\ UNCHANGED <<raw, mtrr, pa, pt, pd, pdpt>>

(* The first page directory entry leads to the page table.                 *)
FirstPde ==
    /\ pc = "pd" /\ n < PdptEntries * PdEntries /\ pa = 0
    /\ pd' = [pd EXCEPT ![n] = ToPt]
    /\ pc' = "pt"
    /\ UNCHANGED <<raw, mtrr, n, pa, pt, pdpt>>

MapPte(k, type) ==
    IF type = None
      THEN Panic
      ELSE /\ pt' = [pt EXCEPT ![k] = Leaf(pa, type)]
           /\ pa' = pa + 1
           /\ pc' = IF k = PtEntries - 1 THEN "pd" ELSE "pt"
           /\ n' = IF k = PtEntries - 1 THEN n + 1 ELSE n
           /\ UNCHANGED <<raw, mtrr, pd, pdpt>>

Pte == pc = "pt" /\ MapPte(pa, find(mtrr, pa, pa + 1))

PdeAdvancingOnePage ==
    /\ pc = "pd" /\ n < PdptEntries * PdEntries /\ pa # 0
    /\ LET type == find(mtrr, pa, pa + LargePage)
       IN  pd' = [pd EXCEPT ![n] = Leaf(pa, IF type = None THEN "UC" ELSE type)]
    /\ pa' = pa + 1
    /\ n' = n + 1
    /\ UNCHANGED <<raw, mtrr, pc, pt, pdpt>>

Pde ==
    /\ pc = "pd" /\ n < PdptEntries * PdEntries /\ pa # 0
    /\ LET type == find(mtrr, pa, pa + LargePage)
       IN  pd' = [pd EXCEPT ![n] = Leaf(pa, IF type = None THEN "UC" ELSE type)]
    /\ pa' = pa + LargePage
    /\ n' = n + 1
    /\ UNCHANGED <<raw, mtrr, pc, pt, pdpt>>

AssertSlot ==
    /\ pc = "pd" /\ n = PdptEntries * PdEntries
    /\ IF pa # SlotSize
         THEN Panic
         ELSE /\ pc' = "pdpt" /\ n' = PdptEntries
              /\ UNCHANGED <<raw, mtrr, pa, pt, pd, pdpt>>

(* A 1GB page, with the type that find() gives for 512GB.                  *)
HugeType == find(mtrr, pa, pa + SlotSize)

MapPdpteAdvancingOneSlot(type) ==
    IF type = None
      THEN Panic
      ELSE /\ pdpt' = [pdpt EXCEPT ![n] = Leaf(pa, type)]
           /\ pa' = pa + SlotSize
           /\ n' = n + 1
           /\ UNCHANGED <<raw, mtrr, pc, pt, pd>>

MapPdpte(type) ==
    IF type = None
      THEN Panic
      ELSE /\ pdpt' = [pdpt EXCEPT ![n] = Leaf(pa, type)]
           /\ pa' = pa + HugePage
           /\ n' = n + 1
           /\ UNCHANGED <<raw, mtrr, pc, pt, pd>>

Pdpte == pc = "pdpt" /\ n < Pml4Entries * PdptEntries /\ MapPdpte(HugeType)

Finish ==
    /\ pc = "pdpt" /\ n = Pml4Entries * PdptEntries
    /\ pc' = "done"
    /\ UNCHANGED <<raw, mtrr, n, pa, pt, pd, pdpt>>

Next ==
    \/ ReadMtrrs \/ convert_from_raw_fixed \/ convert_from_raw_variable \/ EndConversion
    \/ FirstPde \/ Pte \/ Pde \/ AssertSlot \/ Pdpte \/ Finish

Spec == Init /\ [][Next]_vars

-----------------------------------------------------------------------------
(* The processor's walk from a guest page to an entry that maps it.        *)
Walk(page) ==
    IF page >= SlotSize THEN pdpt[page \div HugePage]
    ELSE LET pde == pd[page \div LargePage]
         IN  IF pde.kind = "table" THEN pt[page % PtEntries] ELSE pde

FirstPage(page) ==
    IF page >= SlotSize THEN page - (page % HugePage)
    ELSE IF pd[page \div LargePage].kind = "table" THEN page ELSE page - (page % LargePage)

(* The registers that the construction supposes: a valid one is among those*)
(* that are read, controls one aligned block, and does not begin or end    *)
(* inside of a 2MB page but the first, or of a 1GB page above 512GB.       *)
InUse == {k \in DOMAIN raw.variable : raw.variable[k].valid}

Block(v) ==
    \E s \in 0 .. (Width - 1) :
        v.base % 2^s = 0 /\ \A k \in 0 .. (Width - 1) : Bit(v.mask, k) = 1 <=> k >= s

BelowSlot == \A k \in InUse : VariableRange(raw.variable[k]).end <= SlotSize

Boundary(page) ==
    page <= LargePage \/ page % (IF page <= SlotSize THEN LargePage ELSE HugePage) = 0

Supported ==
    \A k \in InUse :
        LET r == VariableRange(raw.variable[k])
        IN  k <= MaxVariable /\ Block(raw.variable[k]) /\ Boundary(r.start) /\ Boundary(r.end)

AgreesOn(pages) == \A p \in pages : Walk(p).type \in HardwareTypes(raw, p)

(* Every guest page is mapped to the physical page of the same number,     *)
(* whichever of the three page sizes maps it.                              *)
IsIdentity ==
    pc = "done" =>
        \A p \in 0 .. (Total - 1) : Walk(p).kind = "leaf" /\ Walk(p).page = FirstPage(p)

(* From 1MB on, the entry that maps a page has the type the processor's    *)
(* own registers give the page, however the registers overlap, adjoin and  *)
(* are ordered: combining ranges and precedence of types lose nothing.     *)
(* Above 512GB, where the type of a 1GB page is looked up for 512GB, the   *)
(* build gives up rather than take a wrong type.                           *)
TypesAgreeAboveFixed == pc = "done" /\ Supported => AgreesOn(FixedEnd .. (Total - 1))

(* epts.rs: the entries below 2MB are 4KB pages "to reflect MTRR memory    *)
(* types into EPT memory types", in the lowest 1MB too.                    *)
TypesAgreeBelowFixed == pc = "done" => AgreesOn(0 .. (FixedEnd - 1))

(* mtrr.rs: "Within `self.fixed` there is no overlap of ranges, so the     *)
(* first match is the only match", and some range has each page below 1MB. *)
OneFixedRangePerPage ==
    pc \notin {"new", "fixed", "panic"} =>
        \A p \in 0 .. (FixedEnd - 1) :
            \E k \in DOMAIN mtrr.fixed :
                /\ InRange(mtrr.fixed[k], p)
                /\ \A l \in DOMAIN mtrr.fixed : InRange(mtrr.fixed[l], p) => l = k

(* Whenever the MTRRs are enabled and none is used above 512GB, a type is  *)
(* found for every page that must have one, and the loops end where the    *)
(* assertion says: the build does not panic.                               *)
BuildSucceeds == raw.enabled /\ BelowSlot => pc # "panic"
=============================================================================
