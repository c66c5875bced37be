----------------------------- MODULE EptsProofs -----------------------------
(***************************************************************************)
(* The loops of Mtrr::new() collect the ranges of the registers without    *)
(* loss, and those of Epts::build_identity() map every page to itself with *)
(* three sizes of pages and the type the processor gives it: for any size  *)
(* of the tables, any layout of the fixed range registers and any number   *)
(* of variable ones.                                                       *)
(***************************************************************************)
EXTENDS Epts, WellFoundedInduction, TLAPS

LEMMA Sizes ==
    /\ PtEntries \in Nat \ {0} /\ PdEntries \in Nat \ {0}
    /\ PdptEntries \in Nat \ {0} /\ Pml4Entries \in Nat \ {0}
    /\ LargePage \in Nat \ {0} /\ HugePage \in Nat \ {0} /\ SlotSize \in Nat \ {0}
    /\ PdptEntries * PdEntries \in Nat \ {0}
    /\ Pml4Entries * PdptEntries \in Nat \ {0}
    /\ PdptEntries <= Pml4Entries * PdptEntries
<1>1. /\ PtEntries \in Nat \ {0} /\ PdEntries \in Nat \ {0}
      /\ PdptEntries \in Nat \ {0} /\ Pml4Entries \in Nat \ {0}
  BY SizeAssumption
<1>2. \A a, b \in Nat \ {0} : a * b \in Nat \ {0} /\ b <= a * b
  BY SMT
<1> QED
  BY <1>1, <1>2 DEF LargePage, HugePage, SlotSize

(* 512 times 512 pages of 2MB are the 512GB that the assertion compares    *)
(* the address with, and the 1GB pages of all slots are the whole space.   *)
LEMMA SizesAgree ==
    /\ (PdptEntries * PdEntries) * LargePage = SlotSize
    /\ (Pml4Entries * PdptEntries) * HugePage = Total
<1>1. \A a, b, c \in Nat : (a * b) * c = a * (b * c)
  BY SMT
<1> QED
  BY <1>1, Sizes DEF HugePage, SlotSize, Total

LEMMA Division ==
    ASSUME NEW p \in Nat, NEW d \in Nat \ {0}
    PROVE  /\ p \div d \in Nat /\ p % d \in 0 .. (d - 1)
           /\ p - (p % d) = (p \div d) * d
           /\ p \div d = 0 => p % d = p
BY SMT

LEMMA Monotone ==
    ASSUME NEW a \in Nat, NEW b \in Nat, NEW c \in Nat, a <= b
    PROVE  a * c <= b * c
<1>1. PICK d \in Nat : b = a + d
  BY SMT
<1>2. (a + d) * c = a * c + d * c /\ d * c \in Nat /\ a * c \in Nat
  BY SMT
<1> QED
  BY <1>1, <1>2, SMT

(* The index of a page in a row of entries that each map d pages.          *)
LEMMA IndexInRow ==
    ASSUME NEW p \in Nat, NEW d \in Nat \ {0}, NEW a \in Nat
    PROVE  /\ p < a * d => p \div d < a
           /\ p >= a * d => p \div d >= a
<1> DEFINE q == p \div d
           r == p % d
<1>1. q \in Nat /\ r \in Nat /\ r < d /\ p = q * d + r /\ q * d \in Nat /\ a * d \in Nat
  BY SMT
<1> HIDE DEF q, r
<1>2. CASE q < a
  <2>1. (q + 1) * d <= a * d
    BY <1>1, <1>2, Monotone
  <2>2. (q + 1) * d = q * d + d
    BY <1>1, SMT
  <2> DEFINE x == q * d
             y == a * d
  <2>3. x + d <= y /\ x \in Nat /\ y \in Nat /\ p = x + r
    BY <2>1, <2>2, <1>1
  <2> HIDE DEF x, y
  <2>4. p < y
    BY <2>3, <1>1, SMT
  <2> QED
    BY <2>4, <1>1, <1>2, SMT DEF y, q
<1>3. CASE a <= q
  <2>1. a * d <= q * d
    BY <1>1, <1>3, Monotone
  <2> DEFINE x == q * d
             y == a * d
  <2>2. y <= x /\ x \in Nat /\ y \in Nat /\ p = x + r
    BY <2>1, <1>1
  <2> HIDE DEF x, y
  <2>3. p >= y
    BY <2>2, <1>1, SMT
  <2> QED
    BY <2>3, <1>1, <1>3, SMT DEF y, q
<1> QED
  BY <1>1, <1>2, <1>3, SMT

(* What RawAssumption says of one set of registers.                        *)
LEMMA Registers ==
    ASSUME NEW r \in RawMtrrs
    PROVE  /\ r.default \in MemoryType
           /\ r.fixed \in [1 .. Len(FixedRanges) -> [1 .. BytesPerRegister -> MemoryType]]
           /\ Len(r.variable) \in Nat /\ DOMAIN r.variable = 1 .. Len(r.variable)
           /\ \A k \in 1 .. Len(r.variable) :
                 /\ r.variable[k].valid \in BOOLEAN /\ r.variable[k].type \in MemoryType
                 /\ r.variable[k].base \in 0 .. (Total - 1) /\ r.variable[k].mask \in Nat
                 /\ r.variable[k].valid =>
                       \E j \in 0 .. (Width - 1) : Bit(r.variable[k].mask, j) = 1
<1> DEFINE Register == [valid : BOOLEAN, base : 0 .. (Total - 1), mask : Nat, type : MemoryType]
<1>1. /\ r.default \in MemoryType
      /\ r.fixed \in [1 .. Len(FixedRanges) -> [1 .. BytesPerRegister -> MemoryType]]
      /\ r.variable \in Seq(Register)
      /\ \A k \in DOMAIN r.variable :
            r.variable[k].valid => \E j \in 0 .. (Width - 1) : Bit(r.variable[k].mask, j) = 1
  BY RawAssumption
<1> HIDE DEF Register
<1>2. /\ Len(r.variable) \in Nat /\ DOMAIN r.variable = 1 .. Len(r.variable)
      /\ \A k \in 1 .. Len(r.variable) : r.variable[k] \in Register
  BY <1>1
<1>3. \A v \in Register : /\ v.valid \in BOOLEAN /\ v.type \in MemoryType
                         /\ v.base \in 0 .. (Total - 1) /\ v.mask \in Nat
  BY DEF Register
<1> QED
  BY <1>1, <1>2, <1>3

LEMMA Counts ==
    /\ FixedCount \in Nat
    /\ \A r \in RawMtrrs : /\ ReadCount(r.variable) \in Nat
                           /\ ReadCount(r.variable) <= Len(r.variable)
                           /\ ReadCount(r.variable) <= MaxVariable
<1>1. Len(FixedRanges) \in Nat /\ BytesPerRegister \in Nat
  BY FixedAssumption
<1>2. \A a, b \in Nat : a * b \in Nat
  BY SMT
<1> QED
  BY <1>1, <1>2, Registers, BoundsAssumption DEF FixedCount, ReadCount

-----------------------------------------------------------------------------
(* Every non-empty set of naturals has a least element; facts about all    *)
(* bits of a number are proved from the least counterexample.              *)
LEMMA LeastElement ==
    ASSUME NEW S, S \subseteq Nat, S # {}
    PROVE  Min(S) \in S /\ \A y \in S : Min(S) <= y
<1> DEFINE R == OpToRel(<, Nat)
<1>1. IsWellFoundedOn(R, Nat)
  BY NatLessThanWellFounded
<1>2. \A x, y \in Nat : x < y => <<x, y>> \in R
  BY DEF OpToRel
<1> HIDE DEF R
<1>3. PICK x \in S : \A y \in S : ~(<<y, x>> \in R)
  BY <1>1, WFMin
<1>4. ASSUME NEW y \in S PROVE x <= y
  <2>1. ~(y < x)
    BY <1>2, <1>3
  <2> QED
    BY <2>1
<1> QED
  BY <1>4 DEF Min

LEMMA Powers ==
    ASSUME NEW k \in 0 .. Width, NEW x \in Nat
    PROVE  /\ 2^k \in Nat \ {0} /\ x \div 2^k \in Nat /\ Bit(x, k) \in {0, 1}
           /\ x \div 2^(k + 1) = (x \div 2^k) \div 2
<1>1. \A d \in Nat \ {0} : x \div (2 * d) = (x \div d) \div 2
  BY SMTT(60)
<1>2. 2^k \in Nat \ {0} /\ 2^(k + 1) = 2 * 2^k
  BY PowersOfTwo
<1>3. \A d \in Nat \ {0} : x \div d \in Nat /\ (x \div d) % 2 \in {0, 1}
  BY SMT
<1>4. x \div 2^k \in Nat /\ Bit(x, k) \in {0, 1}
  BY <1>2, <1>3 DEF Bit
<1>5. x \div 2^(k + 1) = (x \div 2^k) \div 2
  BY <1>1, <1>2
<1> QED
  BY <1>2, <1>4, <1>5

(* Two page numbers with the same upper bits have the same quotient.       *)
LEMMA SameUpperBits ==
    ASSUME NEW x \in Nat, NEW y \in Nat, x < 2^Width, y < 2^Width,
           NEW s \in 0 .. Width, \A k \in s .. (Width - 1) : Bit(x, k) = Bit(y, k)
    PROVE  x \div 2^s = y \div 2^s
<1> DEFINE Bad == {d \in 0 .. (Width - s) : x \div 2^(Width - d) # y \div 2^(Width - d)}
<1>1. Width \in Nat
  BY BoundsAssumption
<1>2. SUFFICES ASSUME Bad # {} PROVE FALSE
  <2>1. Width - s \in 0 .. (Width - s) /\ Width - (Width - s) = s
    BY <1>1
  <2> QED
    BY <1>2, <2>1
<1>3. PICK m \in Bad : \A d \in Bad : m <= d
  <2>1. Bad \subseteq Nat
    BY <1>1
  <2> QED
    BY <1>2, <2>1, LeastElement
<1>4. m \in 0 .. (Width - s) /\ x \div 2^(Width - m) # y \div 2^(Width - m)
  BY <1>3
<1>5. m # 0
  <2>1. \A a \in Nat, d \in Nat \ {0} : a < d => a \div d = 0
    BY SMT
  <2>2. 2^Width \in Nat \ {0}
    BY <1>1, PowersOfTwo
  <2>3. x \div 2^Width = 0 /\ y \div 2^Width = 0
    BY <2>1, <2>2
  <2> QED
    BY <2>3, <1>1, <1>4
<1>6. m - 1 \notin Bad /\ m - 1 \in 0 .. (Width - s)
  <2>1. m \in Nat /\ m - 1 \in 0 .. (Width - s) /\ ~(m <= m - 1)
    BY <1>1, <1>4, <1>5
  <2> HIDE DEF Bad
  <2> QED
    BY <1>3, <2>1
<1> DEFINE k == Width - m
<1>7. k \in s .. (Width - 1) /\ k \in 0 .. Width /\ Width - (m - 1) = k + 1
  BY <1>1, <1>4, <1>5
<1>8. x \div 2^(k + 1) = y \div 2^(k + 1)
  BY <1>6, <1>7
<1> HIDE DEF k
<1>9. /\ (x \div 2^k) \div 2 = (y \div 2^k) \div 2
      /\ (x \div 2^k) % 2 = (y \div 2^k) % 2
      /\ x \div 2^k \in Nat /\ y \div 2^k \in Nat
  BY <1>7, <1>8, Powers DEF Bit
<1>10. \A a, b \in Nat : a \div 2 = b \div 2 /\ a % 2 = b % 2 => a = b
  BY SMT
<1>11. x \div 2^k = y \div 2^k
  BY <1>9, <1>10
<1> QED
  BY <1>4, <1>11 DEF k

LEMMA SameQuotient ==
    ASSUME NEW x \in Nat, NEW y \in Nat, NEW s \in 0 .. Width, x \div 2^s = y \div 2^s
    PROVE  \A k \in s .. Width : x \div 2^k = y \div 2^k
<1> DEFINE Bad == {k \in s .. Width : x \div 2^k # y \div 2^k}
<1>1. Width \in Nat
  BY BoundsAssumption
<1>2. SUFFICES ASSUME Bad # {} PROVE FALSE
  BY <1>2
<1>3. PICK m \in Bad : \A d \in Bad : m <= d
  <2>1. Bad \subseteq Nat
    BY <1>1
  <2> QED
    BY <1>2, <2>1, LeastElement
<1>4. m \in s .. Width /\ x \div 2^m # y \div 2^m /\ m # s
  BY <1>3
<1>5. m - 1 \notin Bad /\ m - 1 \in s .. Width /\ m - 1 \in 0 .. Width /\ (m - 1) + 1 = m
  BY <1>1, <1>3, <1>4
<1>6. x \div 2^(m - 1) = y \div 2^(m - 1)
  BY <1>5
<1> DEFINE k == m - 1
<1>7. k \in 0 .. Width /\ x \div 2^k = y \div 2^k /\ k + 1 = m
  BY <1>5, <1>6
<1> HIDE DEF k
<1>8. x \div 2^(k + 1) = y \div 2^(k + 1)
  <2>1. x \div 2^(k + 1) = (x \div 2^k) \div 2
    BY <1>7, Powers
  <2>2. y \div 2^(k + 1) = (y \div 2^k) \div 2
    BY <1>7, Powers
  <2> QED
    BY <1>7, <2>1, <2>2
<1> QED
  BY <1>4, <1>7, <1>8

(* bsf finds a bit of every mask that is not zero.                         *)
LEMMA BitScanForward ==
    ASSUME NEW mask \in Nat, \E j \in 0 .. (Width - 1) : Bit(mask, j) = 1
    PROVE  /\ bit_scan_forward(mask) \in 0 .. (Width - 1)
           /\ 2^bit_scan_forward(mask) \in Nat \ {0}
<1> DEFINE Ones == {j \in 0 .. (Width - 1) : Bit(mask, j) = 1}
           First(k) == Bit(mask, k) = 1 /\ \A j \in 0 .. (k - 1) : Bit(mask, j) = 0
<1>1. Width \in Nat
  BY BoundsAssumption
<1>2. PICK m \in Ones : \A j \in Ones : m <= j
  <2>1. Ones \subseteq Nat /\ Ones # {}
    BY <1>1
  <2> QED
    BY <2>1, LeastElement
<1>3. m \in 0 .. (Width - 1) /\ First(m)
  <2>1. m \in 0 .. (Width - 1) /\ Bit(mask, m) = 1
    BY <1>2
  <2>2. ASSUME NEW j \in 0 .. (m - 1) PROVE Bit(mask, j) = 0
    <3>1. j \in 0 .. (Width - 1) /\ j \in 0 .. Width /\ ~(m <= j)
      BY <1>1, <2>1
    <3>2. j \notin Ones
      BY <1>2, <3>1
    <3> QED
      BY <3>1, <3>2, Powers
  <2> QED
    BY <2>1, <2>2
<1>4. bit_scan_forward(mask) \in 0 .. (Width - 1)
  <2> HIDE DEF First
  <2>1. (CHOOSE k \in 0 .. (Width - 1) : First(k)) \in 0 .. (Width - 1)
    BY <1>3
  <2> QED
    BY <2>1 DEF bit_scan_forward, First
<1> QED
  BY <1>1, <1>4, Powers

LEMMA VariableRangeType ==
    ASSUME NEW r \in RawMtrrs, NEW k \in 1 .. Len(r.variable), r.variable[k].valid
    PROVE  /\ VariableRange(r.variable[k]) \in MemoryTypeRange
           /\ VariableRange(r.variable[k]).type = r.variable[k].type
           /\ VariableRange(r.variable[k]).start < VariableRange(r.variable[k]).end
<1> DEFINE v == r.variable[k]
<1>1. /\ v.type \in MemoryType /\ v.base \in Nat /\ v.mask \in Nat
      /\ \E j \in 0 .. (Width - 1) : Bit(v.mask, j) = 1
  BY Registers
<1> HIDE DEF v
<1>2. 2^bit_scan_forward(v.mask) \in Nat \ {0}
  BY <1>1, BitScanForward
<1>3. v.base + 2^bit_scan_forward(v.mask) \in Nat /\ v.base < v.base + 2^bit_scan_forward(v.mask)
  BY <1>1, <1>2
<1> QED
  BY <1>1, <1>3 DEF VariableRange, MemoryTypeRange, v

(* The range that convert_from_raw_variable() makes of a register is the   *)
(* set of pages that the processor's comparison under the mask selects.    *)
LEMMA BlockIsRange ==
    ASSUME NEW v, v.valid, v.base \in 0 .. (Total - 1), v.mask \in Nat, Block(v),
           NEW page \in 0 .. (Total - 1)
    PROVE  Controls(v, page) <=> InRange(VariableRange(v), page)
<1>1. Width \in Nat /\ Total \in Nat /\ Total = 2^Width
  BY BoundsAssumption, SizeAssumption, PowersOfTwo
<1>2. PICK s \in 0 .. (Width - 1) :
          /\ v.base % 2^s = 0
          /\ \A k \in 0 .. (Width - 1) : Bit(v.mask, k) = 1 <=> k >= s
  BY DEF Block
<1>3. bit_scan_forward(v.mask) = s
  <2> DEFINE First(k) == Bit(v.mask, k) = 1 /\ \A j \in 0 .. (k - 1) : Bit(v.mask, j) = 0
  <2>1. First(s)
    <3>1. Bit(v.mask, s) = 1
      BY <1>1, <1>2
    <3>2. ASSUME NEW j \in 0 .. (s - 1) PROVE Bit(v.mask, j) = 0
      <4>1. j \in 0 .. (Width - 1) /\ j \in 0 .. Width /\ ~(j >= s)
        BY <1>1, <1>2
      <4> QED
        BY <1>2, <4>1, Powers
    <3> QED
      BY <3>1, <3>2
  <2>2. ASSUME NEW k \in 0 .. (Width - 1), First(k) PROVE k = s
    <3>1. k >= s
      BY <1>2, <2>2
    <3>2. ~(s < k)
      <4>1. Bit(v.mask, s) # 0
        BY <2>1
      <4> QED
        BY <1>1, <1>2, <2>2, <4>1
    <3> QED
      BY <1>1, <1>2, <3>1, <3>2
  <2> HIDE DEF First
  <2>3. (CHOOSE k \in 0 .. (Width - 1) : First(k)) = s
    BY <2>1, <2>2
  <2> QED
    BY <2>3 DEF bit_scan_forward, First
<1> DEFINE d == 2^s
           q == v.base \div d
<1>4. d \in Nat \ {0} /\ page \in Nat /\ v.base \in Nat
  BY <1>1, <1>2, Powers
<1>5. InRange(VariableRange(v), page) <=> v.base <= page /\ page < v.base + d
  BY <1>3 DEF InRange, VariableRange
<1>6. Controls(v, page) <=> \A k \in s .. (Width - 1) : Bit(page, k) = Bit(v.base, k)
  BY <1>1, <1>2 DEF Controls
<1>7. Controls(v, page) <=> page \div d = v.base \div d
  <2>1. ASSUME Controls(v, page) PROVE page \div d = v.base \div d
    BY <1>1, <1>2, <1>4, <1>6, <2>1, SameUpperBits
  <2>2. ASSUME page \div d = v.base \div d PROVE Controls(v, page)
    <3>0. s \in 0 .. Width /\ page \div 2^s = v.base \div 2^s
      BY <1>1, <1>2, <2>2
    <3>1. \A k \in s .. Width : page \div 2^k = v.base \div 2^k
      BY <1>4, <3>0, SameQuotient
    <3>2. ASSUME NEW k \in s .. (Width - 1) PROVE Bit(page, k) = Bit(v.base, k)
      <4>1. k \in s .. Width
        BY <1>1, <1>2
      <4> QED
        BY <3>1, <4>1 DEF Bit
    <3> QED
      BY <1>6, <3>2
  <2> QED
    BY <2>1, <2>2
<1>8. page \div d = v.base \div d <=> v.base <= page /\ page < v.base + d
  <2>1. v.base % d = 0
    BY <1>2
  <2> HIDE DEF d
  <2>2. \A a, b \in Nat, c \in Nat \ {0} :
            a % c = 0 => (b \div c = a \div c <=> a <= b /\ b < a + c)
    BY SMTT(60)
  <2> QED
    BY <1>4, <2>1, <2>2
<1> QED
  BY <1>5, <1>7, <1>8

LEMMA Quotient ==
    ASSUME NEW q \in Nat, NEW d \in Nat \ {0}, NEW r \in 0 .. (d - 1)
    PROVE  (q * d + r) \div d = q /\ (q * d + r) % d = r
BY SMTT(60)

-----------------------------------------------------------------------------
(* The address that the fixed range loop has come to after n sub-ranges.   *)
Reached(k) ==
    IF k = FixedCount THEN FixedEnd
    ELSE LET i == k \div BytesPerRegister + 1
         IN  FixedRanges[i].base + FixedRanges[i].size * (k % BytesPerRegister)

LEMMA FixedRangesType ==
    ASSUME NEW i \in 1 .. Len(FixedRanges)
    PROVE  /\ FixedRanges[i].base \in Nat /\ FixedRanges[i].size \in Nat \ {0}
           /\ FixedRanges[i].base + BytesPerRegister * FixedRanges[i].size
                = (IF i = Len(FixedRanges) THEN FixedEnd ELSE FixedRanges[i + 1].base)
<1> DEFINE Info == [base : Nat, size : Nat \ {0}]
<1>1. FixedRanges \in Seq(Info)
  BY FixedAssumption
<1> HIDE DEF Info
<1>2. DOMAIN FixedRanges = 1 .. Len(FixedRanges) /\ FixedRanges[i] \in Info
  BY <1>1
<1>3. \A f \in Info : f.base \in Nat /\ f.size \in Nat \ {0}
  BY DEF Info
<1> QED
  BY <1>2, <1>3, FixedAssumption

(* The sub-ranges adjoin: each begins where the one before it ends.        *)
LEMMA FixedRangeStep ==
    ASSUME NEW r \in RawMtrrs, NEW k \in Nat, k < FixedCount
    PROVE  /\ FixedRange(r.fixed, k) \in MemoryTypeRange
           /\ FixedRange(r.fixed, k).start = Reached(k)
           /\ FixedRange(r.fixed, k).end = Reached(k + 1)
           /\ FixedRange(r.fixed, k).start < FixedRange(r.fixed, k).end
<1> DEFINE B == BytesPerRegister
           L == Len(FixedRanges)
           i == k \div B
           j == k % B
<1>1. B \in Nat \ {0} /\ L \in Nat
  BY FixedAssumption
<1>2. i \in Nat /\ j \in 0 .. (B - 1) /\ k = i * B + j
  <2>1. i \in Nat /\ j \in 0 .. (B - 1) /\ k - j = i * B
    BY <1>1, Division
  <2> HIDE DEF i, j
  <2> QED
    BY <1>1, <2>1
<1>3. i < L
  BY <1>1, IndexInRow DEF FixedCount
<1> DEFINE f == FixedRanges[i + 1]
<1>4. /\ i + 1 \in 1 .. L /\ f.base \in Nat /\ f.size \in Nat \ {0}
      /\ f.base + B * f.size = (IF i + 1 = L THEN FixedEnd ELSE FixedRanges[i + 2].base)
  BY <1>1, <1>2, <1>3, FixedRangesType
<1> DEFINE g == FixedRange(r.fixed, k)
<1>5. /\ g.start = f.base + f.size * j
      /\ g.end = f.base + f.size * j + f.size
      /\ g.type = to_be_bytes(r.fixed[i + 1])[j + 1]
      /\ g = [type |-> g.type, start |-> g.start, end |-> g.end]
  BY DEF FixedRange
<1>6. g.start = Reached(k)
  BY <1>5 DEF Reached
<1>7. g.type \in MemoryType
  <2> DEFINE s == r.fixed[i + 1]
  <2>1. s \in [1 .. B -> MemoryType]
    BY <1>4, Registers
  <2> HIDE DEF s
  <2>2. s \in Seq(MemoryType) /\ Len(s) = B
    BY <1>1, <2>1
  <2>3. j + 1 \in 1 .. B /\ (B - (j + 1)) + 1 \in 1 .. B
    BY <1>1, <1>2
  <2>4. Reverse(s)[j + 1] = s[(B - (j + 1)) + 1]
    BY <2>2, <2>3 DEF Reverse
  <2> QED
    BY <1>5, <2>1, <2>3, <2>4 DEF to_be_bytes, s
<1>8. f.size * j \in Nat
  BY <1>2, <1>4, SMT
<1> HIDE DEF f, g, B, L, i, j
<1>9. g.end = Reached(k + 1)
  <2>1. CASE j + 1 < B
    <3>1. k + 1 = i * B + (j + 1) /\ j + 1 \in 0 .. (B - 1)
      BY <1>1, <1>2, <2>1
    <3>2. (k + 1) \div B = i /\ (k + 1) % B = j + 1
      <4>1. (i * B + (j + 1)) \div B = i /\ (i * B + (j + 1)) % B = j + 1
        BY <1>1, <1>2, <3>1, Quotient, ZenonT(60)
      <4> QED
        BY <3>1, <4>1, Zenon
    <3>3. k + 1 # FixedCount
      <4>1. (L * B + 0) % B = 0 /\ L * B \in Nat
        BY <1>1, Quotient, SMT
      <4>2. (L * B) % B = 0
        BY <4>1
      <4> QED
        BY <1>1, <1>2, <3>2, <4>2 DEF FixedCount, B, L
    <3>4. Reached(k + 1) = f.base + f.size * (j + 1)
      BY <3>2, <3>3 DEF Reached, B, f
    <3>5. f.size * (j + 1) = f.size * j + f.size
      <4>1. \A a, b \in Nat : a * (b + 1) = a * b + a
        BY SMT
      <4>2. f.size \in Nat /\ j \in Nat
        BY <1>2, <1>4
      <4> QED
        BY <4>1, <4>2, Zenon
    <3> QED
      BY <1>4, <1>5, <1>8, <3>4, <3>5
  <2>2. CASE j + 1 = B
    <3>1. (i + 1) * B = i * B + B /\ i * B \in Nat
      BY <1>1, <1>2, SMT
    <3>2. k + 1 = (i + 1) * B + 0 /\ 0 \in 0 .. (B - 1) /\ i + 1 \in Nat
      BY <1>1, <1>2, <2>2, <3>1
    <3>3. (k + 1) \div B = i + 1 /\ (k + 1) % B = 0
      <4>1. ((i + 1) * B + 0) \div B = i + 1 /\ ((i + 1) * B + 0) % B = 0
        BY <1>1, <3>2, Quotient, ZenonT(60)
      <4> QED
        BY <3>2, <4>1, Zenon
    <3>4. f.size * j + f.size = B * f.size
      <4>1. f.size * (j + 1) = f.size * j + f.size /\ f.size * B = B * f.size
        BY <1>1, <1>2, <1>4, SMT
      <4> QED
        BY <2>2, <4>1
    <3>5. g.end = f.base + B * f.size
      BY <1>4, <1>5, <1>8, <3>4
    <3>6. CASE i + 1 = L
      <4>1. k + 1 = FixedCount
        <5>1. k + 1 = (i + 1) * B
          BY <1>1, <3>1, <3>2
        <5> QED
          BY <3>6, <5>1 DEF FixedCount, B, L
      <4> QED
        BY <4>1, <3>5, <3>6, <1>4 DEF Reached
    <3>7. CASE i + 1 # L
      <4>1. k + 1 # FixedCount
        <5>1. (L * B + 0) \div B = L /\ L * B \in Nat
          BY <1>1, <3>2, Quotient, SMT
        <5>2. (L * B) \div B = L
          BY <5>1
        <5> QED
          BY <3>3, <3>7, <5>2 DEF FixedCount, B, L
      <4>2. i + 2 \in 1 .. L /\ (i + 1) + 1 = i + 2
        BY <1>1, <1>2, <1>3, <3>7
      <4>3. Reached(k + 1) = FixedRanges[i + 2].base + FixedRanges[i + 2].size * 0
        BY <3>3, <4>1, <4>2 DEF Reached, B
      <4>4. FixedRanges[i + 2].size * 0 = 0 /\ FixedRanges[i + 2].base \in Nat
        BY <4>2, FixedRangesType, SMT DEF L
      <4> QED
        BY <1>4, <3>5, <3>7, <4>3, <4>4
    <3> QED
      BY <3>6, <3>7
  <2> QED
    BY <1>1, <1>2, <2>1, <2>2
<1>10. g.start \in Nat /\ g.end \in Nat /\ g.start < g.end
  BY <1>4, <1>5, <1>8
<1>11. g \in MemoryTypeRange
  BY <1>5, <1>7, <1>10 DEF MemoryTypeRange
<1> QED
  BY <1>6, <1>9, <1>10, <1>11 DEF g

LEMMA ReachedEnds == Reached(0) = 0 /\ Reached(FixedCount) = FixedEnd
<1> DEFINE B == BytesPerRegister
           L == Len(FixedRanges)
<1>1. B \in Nat \ {0} /\ L \in Nat \ {0}
  BY FixedAssumption
<1>2. FixedCount # 0
  BY <1>1, SMT DEF FixedCount
<1>3. 0 \div B = 0 /\ 0 % B = 0
  BY <1>1, SMT
<1>4. FixedRanges[1].base = 0 /\ FixedRanges[1].size * 0 = 0
  <2>1. 1 \in 1 .. Len(FixedRanges)
    BY <1>1
  <2>2. FixedRanges[1].size \in Nat
    BY <2>1, FixedRangesType
  <2>3. \A a \in Nat : a * 0 = 0
    BY SMT
  <2> QED
    BY <2>2, <2>3, FixedAssumption
<1> QED
  BY <1>2, <1>3, <1>4 DEF Reached

-----------------------------------------------------------------------------
(* What update_combined_ranges() does: one more range, or the last one     *)
(* grown at its end or at its start; the others stay as they are.          *)
LEMMA Update ==
    ASSUME NEW ranges \in Seq(MemoryTypeRange), NEW r \in MemoryTypeRange
    PROVE  LET n0 == Len(ranges)
               new == update_combined_ranges(ranges, r)
           IN  /\ new \in Seq(MemoryTypeRange) /\ Len(new) \in Nat /\ DOMAIN new = 1 .. Len(new)
               /\ \A k \in 1 .. (n0 - 1) : new[k] = ranges[k]
               /\ \/ /\ Len(new) = n0 + 1 /\ new[n0 + 1] = r
                     /\ n0 > 0 => /\ new[n0] = ranges[n0]
                                  /\ ranges[n0].type = r.type => ranges[n0].end # r.start
                  \/ /\ n0 > 0 /\ Len(new) = n0 /\ ranges[n0].type = r.type
                     /\ \/ /\ ranges[n0].end = r.start
                           /\ new[n0] = [ranges[n0] EXCEPT !.end = r.end]
                        \/ /\ ranges[n0].end # r.start /\ ranges[n0].start = r.end
                           /\ new[n0] = [ranges[n0] EXCEPT !.start = r.start]
<1> DEFINE m == Len(ranges)
           new == update_combined_ranges(ranges, r)
           same == m > 0 /\ ranges[m].type = r.type
<1>1. m \in Nat /\ DOMAIN ranges = 1 .. m
  BY DEF MemoryTypeRange
<1>2. CASE same /\ ranges[m].end = r.start
  <2>1. new = [ranges EXCEPT ![m].end = r.end]
    BY <1>2 DEF update_combined_ranges
  <2>2. ranges[m] \in MemoryTypeRange /\ m \in 1 .. m
    BY <1>1, <1>2
  <2>3. [ranges[m] EXCEPT !.end = r.end] \in MemoryTypeRange
    BY <2>2 DEF MemoryTypeRange
  <2>4. new \in Seq(MemoryTypeRange) /\ Len(new) = m
    BY <2>1, <2>2, <2>3, <1>1
  <2>5. new[m] = [ranges[m] EXCEPT !.end = r.end] /\ \A k \in 1 .. (m - 1) : new[k] = ranges[k]
    BY <1>1, <2>1, <2>2
  <2>6. DOMAIN new = 1 .. Len(new)
    BY <2>4
  <2> HIDE DEF new, m
  <2> QED
    BY <1>1, <1>2, <2>4, <2>5, <2>6 DEF new, m
<1>3. CASE same /\ ranges[m].end # r.start /\ ranges[m].start = r.end
  <2>1. new = [ranges EXCEPT ![m].start = r.start]
    BY <1>3 DEF update_combined_ranges
  <2>2. ranges[m] \in MemoryTypeRange /\ m \in 1 .. m
    BY <1>1, <1>3
  <2>3. [ranges[m] EXCEPT !.start = r.start] \in MemoryTypeRange
    BY <2>2 DEF MemoryTypeRange
  <2>4. new \in Seq(MemoryTypeRange) /\ Len(new) = m
    BY <2>1, <2>2, <2>3, <1>1
  <2>5. new[m] = [ranges[m] EXCEPT !.start = r.start] /\ \A k \in 1 .. (m - 1) : new[k] = ranges[k]
    BY <1>1, <2>1, <2>2
  <2>6. DOMAIN new = 1 .. Len(new)
    BY <2>4
  <2> HIDE DEF new, m
  <2> QED
    BY <1>1, <1>3, <2>4, <2>5, <2>6 DEF new, m
<1>4. CASE /\ ~(same /\ ranges[m].end = r.start)
           /\ ~(same /\ ranges[m].end # r.start /\ ranges[m].start = r.end)
  <2>1. new = Append(ranges, r)
    BY <1>4 DEF update_combined_ranges
  <2>2. new \in Seq(MemoryTypeRange) /\ Len(new) = m + 1 /\ new[m + 1] = r
    BY <2>1, <1>1
  <2>3. \A k \in 1 .. m : new[k] = ranges[k]
    BY <2>1, <1>1
  <2>4. DOMAIN new = 1 .. Len(new)
    BY <2>2
  <2> HIDE DEF new, m
  <2>5. (\A k \in 1 .. (m - 1) : new[k] = ranges[k]) /\ (m > 0 => new[m] = ranges[m])
    BY <1>1, <2>3
  <2>6. m > 0 /\ ranges[m].type = r.type => ranges[m].end # r.start
    BY <1>4
  <2>7. Len(new) \in Nat
    BY <1>1, <2>2
  <2> QED
    BY <2>2, <2>4, <2>5, <2>6, <2>7, Zenon DEF new, m
<1> QED
  BY <1>2, <1>3, <1>4

(* The ranges are in order, do not overlap, and cover the pages below to.  *)
Tiles(ranges, to) ==
    /\ \A k \in DOMAIN ranges : ranges[k].start < ranges[k].end /\ ranges[k].end <= to
    /\ \A k, l \in DOMAIN ranges : k < l => ranges[k].end <= ranges[l].start
    /\ \A p \in 0 .. (to - 1) : \E k \in DOMAIN ranges : InRange(ranges[k], p)
    /\ to > 0 => ranges # <<>> /\ ranges[Len(ranges)].end = to

(* The ranges have, for every page, the types of the first m registers     *)
(* that contain the page, and end and start where those do.                *)
Collects(ranges, variable, m) ==
    /\ \A k \in DOMAIN ranges : ranges[k].start < ranges[k].end
    /\ \A p \in Nat, t \in MemoryType :
          (\E k \in DOMAIN ranges : ranges[k].type = t /\ InRange(ranges[k], p))
            <=> (\E j \in 1 .. m : /\ variable[j].valid /\ variable[j].type = t
                                   /\ InRange(VariableRange(variable[j]), p))
    /\ \A k \in DOMAIN ranges : \E i, j \in 1 .. m :
          /\ variable[i].valid /\ ranges[k].start = VariableRange(variable[i]).start
          /\ variable[j].valid /\ ranges[k].end = VariableRange(variable[j]).end

LEMMA RangeType ==
    ASSUME NEW ranges \in Seq(MemoryTypeRange)
    PROVE  /\ Len(ranges) \in Nat /\ DOMAIN ranges = 1 .. Len(ranges)
           /\ ranges # <<>> => Len(ranges) > 0
           /\ \A k \in 1 .. Len(ranges) : /\ ranges[k].type \in MemoryType
                                          /\ ranges[k].start \in Nat /\ ranges[k].end \in Nat
<1>1. /\ Len(ranges) \in Nat /\ DOMAIN ranges = 1 .. Len(ranges)
      /\ ranges # <<>> => Len(ranges) > 0
      /\ \A k \in 1 .. Len(ranges) : ranges[k] \in MemoryTypeRange
  OBVIOUS
<1>2. \A r \in MemoryTypeRange : r.type \in MemoryType /\ r.start \in Nat /\ r.end \in Nat
  BY DEF MemoryTypeRange
<1> QED
  BY <1>1, <1>2

LEMMA UpdateTiles ==
    ASSUME NEW ranges \in Seq(MemoryTypeRange), NEW to \in Nat, Tiles(ranges, to),
           NEW r \in MemoryTypeRange, r.start = to, r.start < r.end
    PROVE  Tiles(update_combined_ranges(ranges, r), r.end)
<1> DEFINE m == Len(ranges)
           new == update_combined_ranges(ranges, r)
<1>1. /\ m \in Nat /\ DOMAIN ranges = 1 .. m /\ ranges # <<>> => m > 0
      /\ \A k \in 1 .. m : ranges[k].start \in Nat /\ ranges[k].end \in Nat
      /\ r.start \in Nat /\ r.end \in Nat
  BY RangeType DEF MemoryTypeRange
<1>0. m \in Nat
  BY <1>1
<1>2. /\ new \in Seq(MemoryTypeRange) /\ Len(new) \in Nat /\ DOMAIN new = 1 .. Len(new)
      /\ \A k \in 1 .. (m - 1) : new[k] = ranges[k]
  BY Update
<1>3. /\ \A k \in 1 .. m : ranges[k].start < ranges[k].end /\ ranges[k].end <= to
      /\ \A k, l \in 1 .. m : k < l => ranges[k].end <= ranges[l].start
      /\ \A p \in 0 .. (to - 1) : \E k \in 1 .. m : InRange(ranges[k], p)
      /\ to > 0 => m > 0 /\ ranges[m].end = to
  <2>1. /\ \A k \in DOMAIN ranges : ranges[k].start < ranges[k].end /\ ranges[k].end <= to
        /\ \A k, l \in DOMAIN ranges : k < l => ranges[k].end <= ranges[l].start
        /\ \A p \in 0 .. (to - 1) : \E k \in DOMAIN ranges : InRange(ranges[k], p)
    BY DEF Tiles
  <2>2. to > 0 => ranges # <<>> /\ ranges[m].end = to
    BY DEF Tiles
  <2>3. DOMAIN ranges = 1 .. m /\ (ranges # <<>> => m > 0)
    BY <1>1
  <2> HIDE DEF m
  <2> QED
    BY <2>1, <2>2, <2>3, Zenon
<1>4. CASE Len(new) = m + 1 /\ new[m + 1] = r /\ (m > 0 => new[m] = ranges[m])
  <2>1. \A k \in 1 .. m : new[k] = ranges[k]
    BY <1>1, <1>2, <1>4
  <2>2. DOMAIN new = 1 .. (m + 1) /\ new # <<>>
    BY <1>1, <1>2, <1>4
  <2>3. \A k \in 1 .. (m + 1) : k \in 1 .. m \/ k = m + 1
    BY <1>1
  <2> HIDE DEF new, m
  <2>4. ASSUME NEW k \in 1 .. (m + 1) PROVE new[k].start < new[k].end /\ new[k].end <= r.end
    BY <1>1, <1>3, <1>4, <2>1, <2>2, <2>3
  <2>5. ASSUME NEW k \in 1 .. (m + 1), NEW l \in 1 .. (m + 1), k < l
        PROVE  new[k].end <= new[l].start
    <3>1. k \in 1 .. m
      BY <1>0, <2>5
    <3> QED
      BY <1>1, <1>3, <1>4, <2>1, <2>2, <2>3, <2>5, <3>1
  <2>6. ASSUME NEW p \in 0 .. (r.end - 1) PROVE \E k \in 1 .. (m + 1) : InRange(new[k], p)
    <3>1. CASE p < to
      <4>1. p \in 0 .. (to - 1)
        BY <3>1
      <4>2. PICK k \in 1 .. m : InRange(ranges[k], p)
        BY <1>3, <4>1
      <4>3. k \in 1 .. (m + 1) /\ new[k] = ranges[k]
        BY <1>0, <2>1
      <4> QED
        BY <4>2, <4>3
    <3>2. CASE ~(p < to)
      <4>1. InRange(new[m + 1], p)
        BY <1>1, <1>4, <3>2 DEF InRange
      <4>2. m + 1 \in 1 .. (m + 1)
        BY <1>0
      <4> QED
        BY <4>1, <4>2
    <3> QED
      BY <3>1, <3>2
  <2> QED
    BY <1>4, <2>2, <2>4, <2>5, <2>6 DEF Tiles, new
<1>5. CASE /\ m > 0 /\ Len(new) = m /\ ranges[m].end = r.start
           /\ new[m] = [ranges[m] EXCEPT !.end = r.end]
  <2>1. new[m].start = ranges[m].start /\ new[m].end = r.end
    <3>1. m \in 1 .. m
      BY <1>1, <1>5
    <3>2. ranges[m] \in MemoryTypeRange
      BY <3>1, <1>1
    <3> QED
      BY <3>2, <1>5 DEF MemoryTypeRange
  <2>2. DOMAIN new = 1 .. m /\ new # <<>>
    BY <1>1, <1>2, <1>5
  <2>3. \A k \in 1 .. m : k \in 1 .. (m - 1) \/ k = m
    BY <1>1
  <2> HIDE DEF new, m
  <2>4. ASSUME NEW k \in 1 .. m PROVE new[k].start < new[k].end /\ new[k].end <= r.end
    <3>1. ranges[k].start < ranges[k].end /\ ranges[k].end <= r.start
      BY <1>3
    <3>2. ranges[k].start \in Nat /\ ranges[k].end \in Nat /\ r.start \in Nat /\ r.end \in Nat
      BY <1>1
    <3>3. CASE k = m
      BY <2>1, <3>1, <3>2, <3>3
    <3>4. CASE k # m
      <4>1. new[k] = ranges[k]
        BY <1>2, <2>3, <3>4
      <4> QED
        BY <3>1, <3>2, <4>1
    <3> QED
      BY <3>3, <3>4
  <2>5. ASSUME NEW k \in 1 .. m, NEW l \in 1 .. m, k < l
        PROVE  new[k].end <= new[l].start
    <3>1. k \in 1 .. (m - 1)
      BY <1>0, <2>5
    <3>2. new[l].start = ranges[l].start
      BY <1>2, <2>1, <2>2, <2>3
    <3> QED
      BY <1>1, <1>2, <1>3, <2>2, <2>5, <3>1, <3>2
  <2>6. ASSUME NEW p \in 0 .. (r.end - 1) PROVE \E k \in 1 .. m : InRange(new[k], p)
    <3>1. CASE p < to
      <4>1. p \in 0 .. (to - 1)
        BY <3>1
      <4>2. PICK k \in 1 .. m : InRange(ranges[k], p)
        BY <1>3, <4>1
      <4>3. CASE k = m
        <5>1. new[m].start <= p /\ p < new[m].end
          BY <1>1, <4>2, <4>3, <2>1 DEF InRange
        <5> QED
          BY <5>1, <4>3, <2>2 DEF InRange
      <4>4. CASE k # m
        BY <1>1, <1>2, <2>2, <2>3, <4>2, <4>4
      <4> QED
        BY <4>3, <4>4
    <3>2. CASE ~(p < to)
      <4>1. m \in 1 .. m /\ ranges[m].start < ranges[m].end
        BY <1>1, <1>3, <1>5
      <4>2. InRange(new[m], p)
        BY <1>1, <1>5, <2>1, <3>2, <4>1 DEF InRange
      <4> QED
        BY <2>2, <4>1, <4>2
    <3> QED
      BY <3>1, <3>2
  <2> QED
    BY <1>5, <2>1, <2>2, <2>4, <2>5, <2>6 DEF Tiles, new
<1>6. ~(m > 0 /\ ranges[m].end # r.start)
  <2>1. SUFFICES ASSUME m > 0 PROVE ranges[m].end = r.start
    BY <2>1
  <2>2. m \in 1 .. m /\ ranges[m].start < ranges[m].end /\ ranges[m].end <= to
    BY <1>1, <1>3, <2>1
  <2> QED
    BY <1>1, <1>3, <2>2
<1> HIDE DEF new, m
<1>7. \/ Len(new) = m + 1 /\ new[m + 1] = r /\ (m > 0 => new[m] = ranges[m])
      \/ /\ m > 0 /\ Len(new) = m /\ ranges[m].end = r.start
         /\ new[m] = [ranges[m] EXCEPT !.end = r.end]
      \/ m > 0 /\ ranges[m].end # r.start
  BY Update DEF new, m
<1> QED
  BY <1>4, <1>5, <1>6, <1>7 DEF new

(* Combining ranges neither adds a page to a type nor takes one away.      *)
LEMMA UpdateUnion ==
    ASSUME NEW ranges \in Seq(MemoryTypeRange), NEW r \in MemoryTypeRange, r.start < r.end,
           \A k \in DOMAIN ranges : ranges[k].start < ranges[k].end
    PROVE  LET new == update_combined_ranges(ranges, r)
           IN  /\ \A k \in DOMAIN new : new[k].start < new[k].end
               /\ \A p \in Nat, t \in MemoryType :
                     (\E k \in DOMAIN new : new[k].type = t /\ InRange(new[k], p))
                       <=> \/ \E k \in DOMAIN ranges : ranges[k].type = t /\ InRange(ranges[k], p)
                           \/ r.type = t /\ InRange(r, p)
               /\ \A k \in DOMAIN new :
                     /\ new[k].start = r.start \/ \E l \in DOMAIN ranges : new[k].start = ranges[l].start
                     /\ new[k].end = r.end \/ \E l \in DOMAIN ranges : new[k].end = ranges[l].end
<1> DEFINE m == Len(ranges)
           new == update_combined_ranges(ranges, r)
<1>0. m \in Nat
  BY RangeType
<1>1. /\ DOMAIN ranges = 1 .. m
      /\ \A k \in 1 .. m : ranges[k].start \in Nat /\ ranges[k].end \in Nat
      /\ r.start \in Nat /\ r.end \in Nat
  BY RangeType DEF MemoryTypeRange
<1>2. DOMAIN new = 1 .. Len(new) /\ \A k \in 1 .. (m - 1) : new[k] = ranges[k]
  BY Update
<1>3. \A k \in 1 .. m : ranges[k].start < ranges[k].end
  BY <1>1
<1>4. CASE Len(new) = m + 1 /\ new[m + 1] = r /\ (m > 0 => new[m] = ranges[m])
  <2>1. \A k \in 1 .. m : new[k] = ranges[k]
    BY <1>0, <1>2, <1>4
  <2>2. DOMAIN new = 1 .. (m + 1)
    BY <1>2, <1>4
  <2>3. \A k : k \in 1 .. (m + 1) <=> k \in 1 .. m \/ k = m + 1
    BY <1>0
  <2>4. new[m + 1] = r
    BY <1>4
  <2> HIDE DEF new, m
  <2>5. ASSUME NEW k \in DOMAIN new PROVE new[k].start < new[k].end
    BY <1>3, <2>1, <2>2, <2>3, <2>4
  <2>6. ASSUME NEW p \in Nat, NEW t \in MemoryType
        PROVE  (\E k \in DOMAIN new : new[k].type = t /\ InRange(new[k], p))
                  <=> \/ \E k \in DOMAIN ranges : ranges[k].type = t /\ InRange(ranges[k], p)
                      \/ r.type = t /\ InRange(r, p)
    BY <1>1, <2>1, <2>2, <2>3, <2>4, Zenon
  <2>7. ASSUME NEW k \in DOMAIN new
        PROVE  /\ new[k].start = r.start \/ \E l \in DOMAIN ranges : new[k].start = ranges[l].start
               /\ new[k].end = r.end \/ \E l \in DOMAIN ranges : new[k].end = ranges[l].end
    BY <1>1, <2>1, <2>2, <2>3, <2>4, Zenon
  <2> QED
    BY <2>5, <2>6, <2>7 DEF new
<1>5. CASE /\ m > 0 /\ Len(new) = m /\ ranges[m].type = r.type
           /\ \/ /\ ranges[m].end = r.start
                 /\ new[m] = [ranges[m] EXCEPT !.end = r.end]
              \/ /\ ranges[m].end # r.start /\ ranges[m].start = r.end
                 /\ new[m] = [ranges[m] EXCEPT !.start = r.start]
  <2>1. m \in 1 .. m /\ ranges[m].start \in Nat /\ ranges[m].end \in Nat /\ ranges[m].start < ranges[m].end
    BY <1>0, <1>1, <1>3, <1>5
  <2>2. ranges[m] \in MemoryTypeRange
    BY <2>1, <1>1
  <2>3. /\ new[m].type = r.type /\ ranges[m].type = r.type
        /\ \/ ranges[m].end = r.start /\ new[m].start = ranges[m].start /\ new[m].end = r.end
           \/ ranges[m].start = r.end /\ new[m].start = r.start /\ new[m].end = ranges[m].end
    BY <1>5, <2>2 DEF MemoryTypeRange
  <2>4. DOMAIN new = 1 .. m
    BY <1>2, <1>5
  <2>5. \A k \in 1 .. m : k # m => new[k] = ranges[k]
    BY <1>0, <1>2
  <2> HIDE DEF new, m
  <2>6. ASSUME NEW k \in DOMAIN new PROVE new[k].start < new[k].end
    <3>1. CASE k = m
      BY <1>1, <2>1, <2>3, <3>1
    <3>2. CASE k # m
      BY <1>3, <2>4, <2>5, <3>2
    <3> QED
      BY <3>1, <3>2
  <2>7. ASSUME NEW p \in Nat
        PROVE  InRange(new[m], p) <=> InRange(ranges[m], p) \/ InRange(r, p)
    BY <1>1, <2>1, <2>3 DEF InRange
  <2>8. ASSUME NEW p \in Nat, NEW t \in MemoryType
        PROVE  (\E k \in DOMAIN new : new[k].type = t /\ InRange(new[k], p))
                  <=> \/ \E k \in DOMAIN ranges : ranges[k].type = t /\ InRange(ranges[k], p)
                      \/ r.type = t /\ InRange(r, p)
    <3>1. ASSUME NEW k \in DOMAIN new, new[k].type = t, InRange(new[k], p)
          PROVE  \/ \E l \in DOMAIN ranges : ranges[l].type = t /\ InRange(ranges[l], p)
                 \/ r.type = t /\ InRange(r, p)
      BY <1>1, <2>1, <2>3, <2>4, <2>5, <2>7, <3>1, Zenon
    <3>2. ASSUME NEW k \in DOMAIN ranges, ranges[k].type = t, InRange(ranges[k], p)
          PROVE  \E l \in DOMAIN new : new[l].type = t /\ InRange(new[l], p)
      BY <1>1, <2>1, <2>3, <2>4, <2>5, <2>7, <3>2, Zenon
    <3>3. ASSUME r.type = t, InRange(r, p)
          PROVE  \E l \in DOMAIN new : new[l].type = t /\ InRange(new[l], p)
      BY <2>1, <2>3, <2>4, <2>7, <3>3, Zenon
    <3> QED
      BY <3>1, <3>2, <3>3
  <2>9. ASSUME NEW k \in DOMAIN new
        PROVE  /\ new[k].start = r.start \/ \E l \in DOMAIN ranges : new[k].start = ranges[l].start
               /\ new[k].end = r.end \/ \E l \in DOMAIN ranges : new[k].end = ranges[l].end
    BY <1>1, <2>1, <2>3, <2>4, <2>5, Zenon
  <2> QED
    BY <2>6, <2>8, <2>9 DEF new
<1>6. \/ Len(new) = m + 1 /\ new[m + 1] = r /\ (m > 0 => new[m] = ranges[m])
      \/ /\ m > 0 /\ Len(new) = m /\ ranges[m].type = r.type
         /\ \/ /\ ranges[m].end = r.start
               /\ new[m] = [ranges[m] EXCEPT !.end = r.end]
            \/ /\ ranges[m].end # r.start /\ ranges[m].start = r.end
               /\ new[m] = [ranges[m] EXCEPT !.start = r.start]
  BY Update
<1> QED
  BY <1>4, <1>5, <1>6

LEMMA UpdateCollects ==
    ASSUME NEW ranges \in Seq(MemoryTypeRange), NEW r \in RawMtrrs,
           NEW m \in Nat, m < Len(r.variable), Collects(ranges, r.variable, m)
    PROVE  /\ r.variable[m + 1].valid =>
                 LET new == update_combined_ranges(ranges, VariableRange(r.variable[m + 1]))
                 IN  new \in Seq(MemoryTypeRange) /\ Collects(new, r.variable, m + 1)
           /\ ~r.variable[m + 1].valid => Collects(ranges, r.variable, m + 1)
<1> DEFINE variable == r.variable
           v == variable[m + 1]
           old(p, t) == \E j \in 1 .. m : /\ variable[j].valid /\ variable[j].type = t
                                          /\ InRange(VariableRange(variable[j]), p)
           all(p, t) == \E j \in 1 .. (m + 1) : /\ variable[j].valid /\ variable[j].type = t
                                                /\ InRange(VariableRange(variable[j]), p)
           in(s, p, t) == \E k \in DOMAIN s : s[k].type = t /\ InRange(s[k], p)
<1>1. m + 1 \in 1 .. Len(variable) /\ \A j : j \in 1 .. (m + 1) <=> j \in 1 .. m \/ j = m + 1
  BY Registers
<1>2. /\ \A k \in DOMAIN ranges : ranges[k].start < ranges[k].end
      /\ \A p \in Nat, t \in MemoryType : in(ranges, p, t) <=> old(p, t)
      /\ \A k \in DOMAIN ranges : \E i, j \in 1 .. m :
            /\ variable[i].valid /\ ranges[k].start = VariableRange(variable[i]).start
            /\ variable[j].valid /\ ranges[k].end = VariableRange(variable[j]).end
  BY DEF Collects
<1> HIDE DEF variable
<1>3. \A p, t : all(p, t) <=> old(p, t) \/ (v.valid /\ v.type = t /\ InRange(VariableRange(v), p))
  BY <1>1, Zenon
<1> HIDE DEF old, all, in
<1>4. ASSUME v.valid
      PROVE  LET new == update_combined_ranges(ranges, VariableRange(v))
             IN  new \in Seq(MemoryTypeRange) /\ Collects(new, variable, m + 1)
  <2> DEFINE w == VariableRange(v)
             new == update_combined_ranges(ranges, w)
  <2>1. w \in MemoryTypeRange /\ w.start < w.end /\ w.type = v.type
    BY <1>1, <1>4, VariableRangeType DEF variable
  <2>2. new \in Seq(MemoryTypeRange)
    BY <2>1, Update
  <2> HIDE DEF w, v
  <2>3. /\ \A k \in DOMAIN new : new[k].start < new[k].end
        /\ \A p \in Nat, t \in MemoryType :
              in(new, p, t) <=> in(ranges, p, t) \/ (w.type = t /\ InRange(w, p))
        /\ \A k \in DOMAIN new :
              /\ new[k].start = w.start \/ \E l \in DOMAIN ranges : new[k].start = ranges[l].start
              /\ new[k].end = w.end \/ \E l \in DOMAIN ranges : new[k].end = ranges[l].end
    BY <1>2, <2>1, UpdateUnion DEF in
  <2> HIDE DEF new
  <2>4. \A p \in Nat, t \in MemoryType : in(new, p, t) <=> all(p, t)
    BY <1>2, <1>3, <1>4, <2>1, <2>3, Zenon DEF w
  <2>5. ASSUME NEW k \in DOMAIN new
        PROVE  \E i, j \in 1 .. (m + 1) :
                  /\ variable[i].valid /\ new[k].start = VariableRange(variable[i]).start
                  /\ variable[j].valid /\ new[k].end = VariableRange(variable[j]).end
    <3>1. \E i \in 1 .. (m + 1) : variable[i].valid /\ new[k].start = VariableRange(variable[i]).start
      <4>1. CASE new[k].start = w.start
        BY <1>1, <1>4, <4>1, Zenon DEF w, v
      <4>2. CASE \E l \in DOMAIN ranges : new[k].start = ranges[l].start
        BY <1>1, <1>2, <4>2, Zenon
      <4> QED
        BY <2>3, <4>1, <4>2
    <3>2. \E j \in 1 .. (m + 1) : variable[j].valid /\ new[k].end = VariableRange(variable[j]).end
      <4>1. CASE new[k].end = w.end
        BY <1>1, <1>4, <4>1, Zenon DEF w, v
      <4>2. CASE \E l \in DOMAIN ranges : new[k].end = ranges[l].end
        BY <1>1, <1>2, <4>2, Zenon
      <4> QED
        BY <2>3, <4>1, <4>2
    <3> QED
      BY <3>1, <3>2
  <2>6. Collects(new, variable, m + 1)
    BY <2>3, <2>4, <2>5 DEF Collects, in, all
  <2> QED
    BY <2>2, <2>6 DEF new, w
<1>5. ASSUME ~v.valid PROVE Collects(ranges, variable, m + 1)
  <2>1. \A p \in Nat, t \in MemoryType : in(ranges, p, t) <=> all(p, t)
    BY <1>2, <1>3, <1>5, Zenon
  <2>2. ASSUME NEW k \in DOMAIN ranges
        PROVE  \E i, j \in 1 .. (m + 1) :
                  /\ variable[i].valid /\ ranges[k].start = VariableRange(variable[i]).start
                  /\ variable[j].valid /\ ranges[k].end = VariableRange(variable[j]).end
    BY <1>1, <1>2, Zenon
  <2> QED
    BY <1>2, <2>1, <2>2 DEF Collects, in, all
<1> QED
  BY <1>4, <1>5 DEF v, variable

-----------------------------------------------------------------------------
MtrrType == [default : MemoryType \cup {None},
             fixed : Seq(MemoryTypeRange), variable : Seq(MemoryTypeRange)]

LEMMA NoneIsNoType == None \notin MemoryType /\ "UC" \in MemoryType /\ "WT" \in MemoryType
BY DEF None, MemoryType

(* Below 1MB a type is found for every 4KB page.                           *)
LEMMA FindFixed ==
    ASSUME NEW m \in MtrrType, Tiles(m.fixed, FixedEnd), NEW p \in 0 .. (FixedEnd - 1)
    PROVE  find(m, p, p + 1) \in MemoryType
<1> DEFINE hits == {k \in DOMAIN m.fixed :
                       InRange(m.fixed[k], p) /\ InRange(m.fixed[k], (p + 1) - 1)}
<1>1. m.fixed \in Seq(MemoryTypeRange) /\ FixedEnd \in Nat
  BY FixedAssumption DEF MtrrType
<1>2. p \in Nat /\ p < FixedEnd /\ ~(p + 1 > FixedEnd) /\ (p + 1) - 1 = p
  BY <1>1
<1>3. find(m, p, p + 1) = find_from_fixed(m, p, p + 1)
  BY <1>1, <1>2 DEF find
<1>4. hits # {}
  <2>1. PICK k \in DOMAIN m.fixed : InRange(m.fixed[k], p)
    BY DEF Tiles
  <2>2. k \in hits
    BY <1>2, <2>1
  <2> QED
    BY <2>2
<1>5. Min(hits) \in hits
  <2>1. hits \subseteq Nat
    BY <1>1, RangeType
  <2> QED
    BY <1>4, <2>1, LeastElement
<1>6. m.fixed[Min(hits)].type \in MemoryType
  <2>1. Min(hits) \in 1 .. Len(m.fixed)
    BY <1>1, <1>5, RangeType
  <2> QED
    BY <1>1, <2>1, RangeType
<1>7. find_from_fixed(m, p, p + 1) = m.fixed[Min(hits)].type
  BY <1>4 DEF find_from_fixed
<1> QED
  BY <1>3, <1>6, <1>7

(* The loop of find_from_variable() finds a type when no range that        *)
(* contains the start ends before the end, and when it finds one, that     *)
(* follows the precedence of types at the start.                           *)
LEMMA FindVariable ==
    ASSUME NEW m \in MtrrType, m.default \in MemoryType, NEW start, NEW end
    PROVE  /\ find_from_variable(m, start, end) \in MemoryType \cup {None}
           /\ (\A k \in DOMAIN m.variable :
                   InRange(m.variable[k], start) => InRange(m.variable[k], end - 1))
              => find_from_variable(m, start, end) # None
           /\ find_from_variable(m, start, end) # None =>
              \A types \in SUBSET MemoryType :
                 (\A t \in MemoryType :
                     t \in types <=> \E k \in DOMAIN m.variable :
                                        m.variable[k].type = t /\ InRange(m.variable[k], start))
                 => find_from_variable(m, start, end) \in Resolve(types, m.default)
<1> DEFINE v == m.variable
           hits == {k \in DOMAIN v : InRange(v[k], start)}
           partial == {k \in hits : ~InRange(v[k], end - 1)}
           returns == partial \cup {k \in hits : v[k].type = "UC"}
           result == find_from_variable(m, start, end)
<1>1. v \in Seq(MemoryTypeRange)
  BY DEF MtrrType
<1>2. hits \subseteq Nat /\ \A k \in hits : v[k].type \in MemoryType
  BY <1>1, RangeType
<1>3. /\ returns \subseteq hits
      /\ (\A k \in DOMAIN v : InRange(v[k], start) => InRange(v[k], end - 1)) => partial = {}
  OBVIOUS
<1>4. result = CASE returns # {} -> IF Min(returns) \in partial THEN None ELSE "UC"
                 [] returns = {} /\ hits = {} -> m.default
                 [] OTHER -> IF v[Min(hits)].type = "WB" /\ \E k \in hits : v[k].type = "WT"
                               THEN "WT"
                               ELSE v[Min(hits)].type
  BY DEF find_from_variable
<1> DEFINE Types(types) ==
               \A t \in MemoryType : t \in types <=> \E k \in hits : v[k].type = t
<1>5. SUFFICES /\ result \in MemoryType \cup {None}
               /\ partial = {} => result # None
               /\ result # None =>
                  \A types \in SUBSET MemoryType : Types(types) => result \in Resolve(types, m.default)
  <2>1. \A types : Types(types) <=>
            (\A t \in MemoryType :
                t \in types <=> \E k \in DOMAIN m.variable :
                                   m.variable[k].type = t /\ InRange(m.variable[k], start))
    BY Zenon
  <2> HIDE DEF Types
  <2> QED
    BY <1>3, <1>5, <2>1
<1>6. \A k \in hits : v[k].type = "UC" => k \in returns
  OBVIOUS
<1>7. \A k \in returns : k \in partial \/ v[k].type = "UC"
  OBVIOUS
<1> HIDE DEF v, hits, partial, returns, result
<1>8. CASE returns # {}
  <2>1. Min(returns) \in returns /\ Min(returns) \in hits
    BY <1>2, <1>3, <1>8, LeastElement
  <2>2. CASE Min(returns) \in partial
    <3>1. result = None /\ partial # {}
      BY <1>4, <1>8, <2>2
    <3> QED
      BY <3>1
  <2>3. CASE Min(returns) \notin partial
    <3>1. result = "UC"
      BY <1>4, <1>8, <2>3
    <3>2. v[Min(returns)].type = "UC"
      BY <1>7, <2>1, <2>3
    <3>3. \A types \in SUBSET MemoryType : Types(types) => "UC" \in types
      BY <2>1, <3>2, NoneIsNoType
    <3>4. \A types : "UC" \in types => Resolve(types, m.default) = {"UC"}
      BY DEF Resolve
    <3> QED
      BY <3>1, <3>3, <3>4, NoneIsNoType
  <2> QED
    BY <2>2, <2>3
<1>9. CASE returns = {} /\ hits = {}
  <2>1. result = m.default
    BY <1>4, <1>9
  <2>2. \A types \in SUBSET MemoryType : Types(types) => types = {}
    BY <1>9
  <2>3. Resolve({}, m.default) = {m.default}
    BY DEF Resolve
  <2> QED
    BY <2>1, <2>2, <2>3, NoneIsNoType
<1>10. CASE returns = {} /\ hits # {}
  <2> DEFINE first == v[Min(hits)].type
  <2>1. Min(hits) \in hits
    BY <1>2, <1>10, LeastElement
  <2>2. first \in MemoryType /\ first # "UC"
    BY <1>2, <1>6, <1>10, <2>1
  <2>3. result = IF first = "WB" /\ \E k \in hits : v[k].type = "WT" THEN "WT" ELSE first
    BY <1>4, <1>10
  <2>4. result \in MemoryType
    BY <2>2, <2>3, NoneIsNoType
  <2>5. ASSUME NEW types \in SUBSET MemoryType, Types(types)
        PROVE  result \in Resolve(types, m.default)
    <3>1. first \in types /\ "UC" \notin types
      BY <1>6, <1>10, <2>1, <2>2, <2>5, NoneIsNoType
    <3>2. "WT" \in types <=> \E k \in hits : v[k].type = "WT"
      BY <2>5, NoneIsNoType
    <3> HIDE DEF first, Types
    <3>3. result = IF first = "WB" /\ "WT" \in types THEN "WT" ELSE first
      BY <2>3, <3>2
    <3>4. CASE types = {"WT", "WB"}
      <4>1. Resolve(types, m.default) = {"WT"}
        BY <3>4 DEF Resolve
      <4> QED
        BY <3>1, <3>3, <3>4, <4>1
    <3>5. CASE types # {"WT", "WB"} /\ \E t \in types : types = {t}
      <4>1. Resolve(types, m.default) = types
        BY <3>1, <3>5 DEF Resolve
      <4>2. types = {first}
        BY <3>1, <3>5
      <4> QED
        BY <3>3, <4>1, <4>2
    <3>6. CASE types # {"WT", "WB"} /\ ~\E t \in types : types = {t}
      <4>1. Resolve(types, m.default) = MemoryType
        BY <3>1, <3>6 DEF Resolve
      <4> QED
        BY <2>4, <4>1
    <3> QED
      BY <3>4, <3>5, <3>6
  <2> QED
    BY <2>4, <2>5, NoneIsNoType
<1> QED
  BY <1>8, <1>9, <1>10

-----------------------------------------------------------------------------
PtIndices == 0 .. (PtEntries - 1)
PdIndices == 0 .. (PdptEntries * PdEntries - 1)
PdptIndices == PdptEntries .. (Pml4Entries * PdptEntries - 1)

MapsTo(entry, page) == entry.kind = "leaf" /\ entry.page = page

ShapeInv ==
    /\ raw \in RawMtrrs
    /\ pc \in {"new", "fixed", "variable", "pd", "pt", "pdpt", "done", "panic"}
    /\ n \in Nat /\ pa \in Nat
    /\ pt = [k \in PtIndices |-> pt[k]]
    /\ pd = [k \in PdIndices |-> pd[k]]
    /\ pdpt = [k \in PdptIndices |-> pdpt[k]]

(* Where a loop is, and the address it has come to.                        *)
LoopInv ==
    /\ pc = "new" => n = 0
    /\ pc = "fixed" => n <= FixedCount
    /\ pc = "variable" => n <= ReadCount(raw.variable)
    /\ pc \in {"new", "fixed", "variable"} => pa = 0
    /\ pc = "pd" => n <= PdptEntries * PdEntries /\ pa = n * LargePage
    /\ pc = "pt" => n = 0 /\ pa \in PtIndices
    /\ pc = "pdpt" => /\ PdptEntries <= n /\ n <= Pml4Entries * PdptEntries
                      /\ pa = n * HugePage
    /\ pc = "done" => n = Pml4Entries * PdptEntries

(* The entries that the loops have written.                                *)
PtInv ==
    /\ pc = "pt" => \A k \in 0 .. (pa - 1) : MapsTo(pt[k], k)
    /\ pc \in {"pd", "pdpt", "done"} /\ n > 0 => \A k \in PtIndices : MapsTo(pt[k], k)

PdInv ==
    /\ pc = "pt" \/ (pc \in {"pd", "pdpt", "done"} /\ n > 0) => pd[0] = ToPt
    /\ pc = "pd" => \A k \in 1 .. (n - 1) : MapsTo(pd[k], k * LargePage)
    /\ pc \in {"pdpt", "done"} => \A k \in PdIndices \ {0} : MapsTo(pd[k], k * LargePage)

PdptInv ==
    pc \in {"pdpt", "done"} =>
        \A k \in PdptEntries .. (n - 1) : MapsTo(pdpt[k], k * HugePage)

(* What the build panics for: disabled MTRRs, or a page or a slot for      *)
(* which find() gives no type.                                             *)
PanicsOnlyWithoutType ==
    pc = "panic" => \/ ~raw.enabled
                    \/ pa < LargePage /\ find(mtrr, pa, pa + 1) = None
                    \/ pa >= SlotSize /\ HugeType = None

Inv == ShapeInv /\ LoopInv /\ PtInv /\ PdInv /\ PdptInv /\ PanicsOnlyWithoutType

LEMMA LeafMaps == \A page, type : MapsTo(Leaf(page, type), page)
BY DEF MapsTo, Leaf

LEMMA InitInv == Init => Inv
<1> SUFFICES ASSUME Init PROVE Inv
  OBVIOUS
<1>1. ShapeInv
  BY DEF Init, ShapeInv, PtIndices, PdIndices, PdptIndices
<1> QED
  BY <1>1 DEF Init, Inv, LoopInv, PtInv, PdInv, PdptInv, PanicsOnlyWithoutType

LEMMA PanicInv ==
    ASSUME Inv, Panic,
           \/ pa < LargePage /\ find(mtrr, pa, pa + 1) = None
           \/ pa >= SlotSize /\ HugeType = None
    PROVE  Inv'
<1>1. PanicsOnlyWithoutType'
  BY DEF PanicsOnlyWithoutType, Panic, HugeType
<1>2. ShapeInv'
  BY DEF Inv, ShapeInv, Panic
<1> QED
  BY <1>1, <1>2 DEF Panic, Inv, LoopInv, PtInv, PdInv, PdptInv

LEMMA ReadMtrrsInv == Inv /\ ReadMtrrs => Inv'
<1> SUFFICES ASSUME Inv, ReadMtrrs PROVE Inv'
  OBVIOUS
<1>1. n = 0 /\ pa = 0 /\ UNCHANGED <<raw, n, pa, pt, pd, pdpt>>
  BY DEF Inv, LoopInv, ReadMtrrs
<1>2. pc' = "fixed" \/ (pc' = "panic" /\ ~raw.enabled)
  BY DEF ReadMtrrs
<1>3. 0 <= FixedCount
  BY Counts
<1>4. ShapeInv'
  BY <1>1, <1>2 DEF Inv, ShapeInv
<1>5. LoopInv' /\ PtInv' /\ PdInv' /\ PdptInv' /\ PanicsOnlyWithoutType'
  BY <1>1, <1>2, <1>3 DEF LoopInv, PtInv, PdInv, PdptInv, PanicsOnlyWithoutType
<1> QED
  BY <1>4, <1>5 DEF Inv

(* A step of the loops that convert registers leaves the tables alone.     *)
LEMMA ConversionInv ==
    Inv /\ (convert_from_raw_fixed \/ convert_from_raw_variable \/ EndConversion) => Inv'
<1> SUFFICES ASSUME Inv, convert_from_raw_fixed \/ convert_from_raw_variable \/ EndConversion
             PROVE  Inv'
  OBVIOUS
<1>1. pc \in {"fixed", "variable"} /\ pa = 0 /\ UNCHANGED <<raw, pa, pt, pd, pdpt>>
  BY DEF Inv, LoopInv, convert_from_raw_fixed, convert_from_raw_variable, EndConversion
<1>2. \/ pc' = "fixed" /\ n' \in Nat /\ n' <= FixedCount
      \/ pc' = "variable" /\ n' \in Nat /\ n' <= ReadCount(raw.variable)
      \/ pc' = "pd" /\ n' = 0
  <2>1. raw \in RawMtrrs /\ n \in Nat
    BY DEF Inv, ShapeInv
  <2>2. FixedCount \in Nat /\ ReadCount(raw.variable) \in Nat
    BY <2>1, Counts
  <2> QED
    BY <2>1, <2>2 DEF convert_from_raw_fixed, convert_from_raw_variable, EndConversion
<1>3. 0 * LargePage = 0 /\ 0 <= PdptEntries * PdEntries
  BY Sizes, SMT
<1>4. ShapeInv'
  BY <1>1, <1>2 DEF Inv, ShapeInv
<1>5. LoopInv' /\ PtInv' /\ PdInv' /\ PdptInv' /\ PanicsOnlyWithoutType'
  BY <1>1, <1>2, <1>3 DEF LoopInv, PtInv, PdInv, PdptInv, PanicsOnlyWithoutType
<1> QED
  BY <1>4, <1>5 DEF Inv

LEMMA FirstPdeInv == Inv /\ FirstPde => Inv'
<1> SUFFICES ASSUME Inv, FirstPde PROVE Inv'
  OBVIOUS
<1>1. pc = "pd" /\ n \in Nat /\ pa = n * LargePage /\ pa = 0
  BY DEF Inv, ShapeInv, LoopInv, FirstPde
<1>2. n = 0
  BY <1>1, Sizes, SMT
<1>3. 0 \in PdIndices /\ 0 \in PtIndices
  BY Sizes DEF PdIndices, PtIndices
<1>4. /\ pd' = [pd EXCEPT ![0] = ToPt] /\ pc' = "pt"
      /\ UNCHANGED <<raw, mtrr, n, pa, pt, pdpt>>
  BY <1>2 DEF FirstPde
<1>5. pd' = [k \in PdIndices |-> pd'[k]] /\ pd'[0] = ToPt
  BY <1>3, <1>4 DEF Inv, ShapeInv
<1>6. ShapeInv'
  BY <1>4, <1>5 DEF Inv, ShapeInv
<1>7. LoopInv' /\ PtInv' /\ PdInv' /\ PdptInv' /\ PanicsOnlyWithoutType'
  BY <1>1, <1>2, <1>3, <1>4, <1>5 DEF LoopInv, PtInv, PdInv, PdptInv, PanicsOnlyWithoutType
<1> QED
  BY <1>6, <1>7 DEF Inv

LEMMA PteInv == Inv /\ Pte => Inv'
<1> SUFFICES ASSUME Inv, Pte PROVE Inv'
  OBVIOUS
<1> DEFINE type == find(mtrr, pa, pa + 1)
<1>1. pc = "pt" /\ n = 0 /\ pa \in PtIndices /\ pa \in Nat /\ pa < LargePage /\ MapPte(pa, type)
  BY Sizes DEF Inv, LoopInv, Pte, PtIndices, LargePage
<1>2. CASE type = None
  <2>1. Panic
    BY <1>1, <1>2 DEF MapPte
  <2> QED
    BY <2>1, <1>1, <1>2, PanicInv
<1>3. CASE type # None
  <2>1. /\ pt' = [pt EXCEPT ![pa] = Leaf(pa, type)] /\ pa' = pa + 1
        /\ pc' = IF pa = PtEntries - 1 THEN "pd" ELSE "pt"
        /\ n' = IF pa = PtEntries - 1 THEN n + 1 ELSE n
        /\ UNCHANGED <<raw, mtrr, pd, pdpt>>
    BY <1>1, <1>3 DEF MapPte
  <2> HIDE DEF type
  <2>2. pt' = [k \in PtIndices |-> pt'[k]]
    BY <1>1, <2>1 DEF Inv, ShapeInv
  <2>3. \A k \in 0 .. pa : MapsTo(pt'[k], k)
    <3> TAKE k \in 0 .. pa
    <3>1. k \in PtIndices
      BY <1>1, Sizes DEF PtIndices
    <3>2. CASE k = pa
      <4>1. pt'[k] = Leaf(pa, type)
        BY <1>1, <2>1, <3>2 DEF Inv, ShapeInv
      <4> QED
        BY <4>1, <3>2, LeafMaps
    <3>3. CASE k # pa
      <4>1. pt'[k] = pt[k] /\ k \in 0 .. (pa - 1)
        BY <1>1, <2>1, <3>1, <3>3 DEF Inv, ShapeInv
      <4> QED
        BY <4>1, <1>1 DEF Inv, PtInv
    <3> QED
      BY <3>2, <3>3
  <2>4. ShapeInv'
    BY <1>1, <2>1, <2>2 DEF Inv, ShapeInv
  <2>5. 1 * LargePage = PtEntries /\ 1 <= PdptEntries * PdEntries
    BY Sizes DEF LargePage
  <2>6. LoopInv'
    BY <1>1, <2>1, <2>5, Sizes DEF LoopInv, PtIndices
  <2>7. PtInv'
    BY <1>1, <2>1, <2>3, Sizes DEF PtInv, PtIndices
  <2>8. PdInv' /\ PdptInv' /\ PanicsOnlyWithoutType'
    BY <1>1, <2>1 DEF Inv, PdInv, PdptInv, PanicsOnlyWithoutType
  <2> QED
    BY <2>4, <2>6, <2>7, <2>8 DEF Inv
<1> QED
  BY <1>2, <1>3

LEMMA PdeInv == Inv /\ Pde => Inv'
<1> SUFFICES ASSUME Inv, Pde PROVE Inv'
  OBVIOUS
<1>1. /\ pc = "pd" /\ n \in Nat /\ n \in PdIndices /\ pa = n * LargePage /\ pa # 0
      /\ pa' = pa + LargePage /\ n' = n + 1
      /\ UNCHANGED <<raw, mtrr, pc, pt, pdpt>>
  BY Sizes DEF Inv, ShapeInv, LoopInv, Pde, PdIndices
<1>2. n > 0
  <2>1. 0 * LargePage = 0
    BY Sizes, SMT
  <2> QED
    BY <1>1, <2>1
<1>3. PICK type : pd' = [pd EXCEPT ![n] = Leaf(pa, type)]
  BY DEF Pde
<1>4. pd' = [k \in PdIndices |-> pd'[k]]
  BY <1>1, <1>3 DEF Inv, ShapeInv
<1>5. pd'[n] = Leaf(pa, type) /\ \A k \in PdIndices : k # n => pd'[k] = pd[k]
  BY <1>1, <1>3 DEF Inv, ShapeInv
<1>6. n' * LargePage = n * LargePage + LargePage /\ n * LargePage \in Nat
  BY <1>1, Sizes, SMT
<1>7. ShapeInv'
  BY <1>1, <1>4, <1>6, Sizes DEF Inv, ShapeInv
<1>8. LoopInv'
  BY <1>1, <1>6, Sizes DEF LoopInv, PdIndices
<1>9. PdInv'
  <2>1. pd'[0] = ToPt
    BY <1>1, <1>2, <1>5, Sizes DEF Inv, PdInv, PdIndices
  <2>2. \A k \in 1 .. n : MapsTo(pd'[k], k * LargePage)
    <3> TAKE k \in 1 .. n
    <3>1. CASE k = n
      BY <3>1, <1>1, <1>5, LeafMaps
    <3>2. CASE k # n
      <4>1. k \in PdIndices /\ k \in 1 .. (n - 1)
        BY <1>1, <3>2, Sizes DEF PdIndices
      <4> QED
        BY <4>1, <1>1, <1>5, <3>2 DEF Inv, PdInv
    <3> QED
      BY <3>1, <3>2
  <2> QED
    BY <2>1, <2>2, <1>1 DEF PdInv
<1>10. PtInv' /\ PdptInv' /\ PanicsOnlyWithoutType'
  BY <1>1, <1>2 DEF Inv, PtInv, PdptInv, PanicsOnlyWithoutType
<1> QED
  BY <1>7, <1>8, <1>9, <1>10 DEF Inv

(* The assertion of the code: after the 2MB pages the address is 512GB.    *)
LEMMA AssertSlotHolds ==
    ASSUME Inv, pc = "pd", n = PdptEntries * PdEntries
    PROVE  pa = SlotSize
BY SizesAgree DEF Inv, LoopInv

LEMMA AssertSlotInv == Inv /\ AssertSlot => Inv'
<1> SUFFICES ASSUME Inv, AssertSlot PROVE Inv'
  OBVIOUS
<1>1. /\ pc = "pd" /\ n = PdptEntries * PdEntries /\ pa = SlotSize
      /\ pc' = "pdpt" /\ n' = PdptEntries
      /\ UNCHANGED <<raw, mtrr, pa, pt, pd, pdpt>>
  BY AssertSlotHolds DEF AssertSlot
<1>2. ShapeInv'
  BY <1>1, Sizes DEF Inv, ShapeInv
<1>3. LoopInv'
  BY <1>1, Sizes DEF LoopInv, SlotSize
<1>4. PtInv'
  BY <1>1, Sizes DEF Inv, PtInv
<1>5. PdInv' /\ PdptInv'
  BY <1>1, Sizes DEF Inv, PdInv, PdptInv, PdIndices
<1> QED
  BY <1>1, <1>2, <1>3, <1>4, <1>5 DEF Inv, PanicsOnlyWithoutType

LEMMA PdpteInv == Inv /\ Pdpte => Inv'
<1> SUFFICES ASSUME Inv, Pdpte PROVE Inv'
  OBVIOUS
<1>1. /\ pc = "pdpt" /\ n \in Nat /\ n \in PdptIndices /\ pa = n * HugePage
      /\ PdptEntries <= n /\ MapPdpte(HugeType)
  BY Sizes DEF Inv, ShapeInv, LoopInv, Pdpte, PdptIndices
<1>2. CASE HugeType = None
  <2>1. Panic
    BY <1>1, <1>2 DEF MapPdpte
  <2>2. pa >= SlotSize
    <3>1. PdptEntries * HugePage <= n * HugePage
      BY <1>1, Sizes, Monotone
    <3> QED
      BY <1>1, <3>1 DEF SlotSize
  <2> QED
    BY <2>1, <2>2, <1>2, PanicInv
<1>3. CASE HugeType # None
  <2>1. PICK type : pdpt' = [pdpt EXCEPT ![n] = Leaf(pa, type)]
    BY <1>1, <1>3 DEF MapPdpte
  <2>2. pa' = pa + HugePage /\ n' = n + 1 /\ UNCHANGED <<raw, mtrr, pc, pt, pd>>
    BY <1>1, <1>3 DEF MapPdpte
  <2>3. pdpt' = [k \in PdptIndices |-> pdpt'[k]]
    BY <1>1, <2>1 DEF Inv, ShapeInv
  <2>4. pdpt'[n] = Leaf(pa, type) /\ \A k \in PdptIndices : k # n => pdpt'[k] = pdpt[k]
    BY <1>1, <2>1 DEF Inv, ShapeInv
  <2>5. n' * HugePage = n * HugePage + HugePage /\ n * HugePage \in Nat
    BY <1>1, <2>2, Sizes, SMT
  <2>6. ShapeInv'
    BY <1>1, <2>2, <2>3, <2>5, Sizes DEF Inv, ShapeInv
  <2>7. LoopInv'
    BY <1>1, <2>2, <2>5, Sizes DEF LoopInv, PdptIndices
  <2>8. PtInv' /\ PdInv' /\ PanicsOnlyWithoutType'
    BY <1>1, <2>2, Sizes DEF Inv, PtInv, PdInv, PanicsOnlyWithoutType
  <2>9. PdptInv'
    <3>1. SUFFICES \A k \in PdptEntries .. n : MapsTo(pdpt'[k], k * HugePage)
      BY <1>1, <2>2 DEF PdptInv
    <3> TAKE k \in PdptEntries .. n
    <3>2. CASE k = n
      BY <3>2, <1>1, <2>4, LeafMaps
    <3>3. CASE k # n
      <4>1. k \in PdptIndices /\ k \in PdptEntries .. (n - 1)
        BY <1>1, <3>3, Sizes DEF PdptIndices
      <4> QED
        BY <4>1, <1>1, <2>4, <3>3 DEF Inv, PdptInv
    <3> QED
      BY <3>2, <3>3
  <2> QED
    BY <2>6, <2>7, <2>8, <2>9 DEF Inv
<1> QED
  BY <1>2, <1>3

LEMMA FinishInv == Inv /\ Finish => Inv'
<1> SUFFICES ASSUME Inv, Finish PROVE Inv'
  OBVIOUS
<1>1. ShapeInv'
  BY DEF Inv, ShapeInv, Finish
<1>2. LoopInv' /\ PtInv' /\ PdInv' /\ PdptInv' /\ PanicsOnlyWithoutType'
  BY DEF Inv, LoopInv, PtInv, PdInv, PdptInv, PanicsOnlyWithoutType, Finish
<1> QED
  BY <1>1, <1>2 DEF Inv

LEMMA NextInv == Inv /\ [Next]_vars => Inv'
<1> SUFFICES ASSUME Inv, [Next]_vars PROVE Inv'
  OBVIOUS
<1>1. CASE UNCHANGED vars
  <2>1. ShapeInv'
    BY <1>1 DEF vars, Inv, ShapeInv
  <2> QED
    BY <1>1, <2>1 DEF vars, Inv, LoopInv, PtInv, PdInv, PdptInv, PanicsOnlyWithoutType, HugeType
<1>2. CASE Next
  BY <1>2, ReadMtrrsInv, ConversionInv, FirstPdeInv, PteInv, PdeInv, AssertSlotInv, PdpteInv, FinishInv DEF Next
<1> QED
  BY <1>1, <1>2

LEMMA Invariance == Spec => []Inv
<1> QED
  BY InitInv, NextInv, PTL DEF Spec

-----------------------------------------------------------------------------
(* build_identity() gives an identity mapping of the whole guest-physical  *)
(* address space, for every size of the tables and all MTRRs with which it *)
(* comes to its end: the three loops meet without a gap.                   *)
THEOREM IdentityMapping == Spec => []IsIdentity
<1>1. Inv => IsIdentity
  <2> SUFFICES ASSUME Inv, pc = "done", NEW p \in 0 .. (Total - 1)
               PROVE  Walk(p).kind = "leaf" /\ Walk(p).page = FirstPage(p)
    BY DEF IsIdentity
  <2>1. p \in Nat /\ p < Total /\ n = Pml4Entries * PdptEntries /\ n > 0
    <3>1. Total \in Nat
      BY SizesAgree, Sizes, SMT
    <3> QED
      BY <3>1, Sizes DEF Inv, LoopInv
  <2>2. CASE p >= SlotSize
    <3> DEFINE q == p \div HugePage
    <3>1. q \in Nat /\ p - (p % HugePage) = q * HugePage
      BY <2>1, Sizes, Division
    <3>2. q < Pml4Entries * PdptEntries
      BY <2>1, SizesAgree, Sizes, IndexInRow
    <3>3. q >= PdptEntries
      BY <2>1, <2>2, Sizes, IndexInRow DEF SlotSize
    <3>4. MapsTo(pdpt[q], q * HugePage)
      BY <2>1, <3>1, <3>2, <3>3, Sizes DEF Inv, PdptInv
    <3> QED
      BY <2>2, <3>1, <3>4 DEF Walk, FirstPage, MapsTo
  <2>3. CASE ~(p >= SlotSize)
    <3> DEFINE q == p \div LargePage
    <3>1. q \in Nat /\ p - (p % LargePage) = q * LargePage /\ p % LargePage \in PtIndices
      BY <2>1, Sizes, Division DEF PtIndices, LargePage
    <3>2. q < PdptEntries * PdEntries
      <4>1. p < (PdptEntries * PdEntries) * LargePage
        BY <2>1, <2>3, SizesAgree, Sizes
      <4> QED
        BY <4>1, <2>1, Sizes, IndexInRow
    <3>3. CASE q = 0
      <4>1. pd[q] = ToPt
        BY <2>1, <3>3 DEF Inv, PdInv
      <4>2. p % PtEntries = p /\ p \in PtIndices
        BY <2>1, <3>1, <3>3, Sizes, Division DEF LargePage
      <4>3. MapsTo(pt[p], p)
        BY <2>1, <4>2 DEF Inv, PtInv
      <4> HIDE DEF q
      <4>4. Walk(p) = pt[p] /\ FirstPage(p) = p
        BY <2>3, <4>1, <4>2 DEF Walk, FirstPage, ToPt, q
      <4> QED
        BY <4>3, <4>4 DEF MapsTo
    <3>4. CASE q # 0
      <4>1. q \in PdIndices \ {0}
        BY <3>1, <3>2, <3>4, Sizes DEF PdIndices
      <4>2. MapsTo(pd[q], q * LargePage)
        BY <4>1 DEF Inv, PdInv
      <4> QED
        BY <2>3, <3>1, <4>2 DEF Walk, FirstPage, MapsTo
    <3> QED
      BY <3>3, <3>4
  <2> QED
    BY <2>2, <2>3
<1> QED
  BY <1>1, Invariance, PTL

(* The build panics for no other reason than that the MTRRs are disabled   *)
(* or that find() has no type for a 4KB page below 2MB or for a 1GB page:  *)
(* the assertion on the address after the 2MB pages never fails, and a 2MB *)
(* page without one type is made uncacheable.                              *)
THEOREM BuildReducesToFind == Spec => []PanicsOnlyWithoutType
<1>1. Inv => PanicsOnlyWithoutType
  BY DEF Inv
<1> QED
  BY <1>1, Invariance, PTL
-----------------------------------------------------------------------------
(* Both loops of Mtrr::new() are over.                                     *)
Converted == pc \in {"pd", "pt", "pdpt", "done"} \/ (pc = "panic" /\ raw.enabled)

MtrrInv ==
    /\ mtrr \in MtrrType
    /\ pc \notin {"new", "panic"} => raw.enabled
    /\ pc = "new" => mtrr = NoMtrr
    /\ pc # "new" /\ raw.enabled => mtrr.default = raw.default
    /\ pc = "fixed" => Tiles(mtrr.fixed, Reached(n)) /\ mtrr.variable = <<>>
    /\ pc = "variable" => /\ Tiles(mtrr.fixed, FixedEnd)
                          /\ Collects(mtrr.variable, raw.variable, n)
    /\ Converted => /\ Tiles(mtrr.fixed, FixedEnd)
                    /\ Collects(mtrr.variable, raw.variable, ReadCount(raw.variable))

LEMMA InitMtrr == Init => MtrrInv
<1>1. NoMtrr \in MtrrType
  BY DEF NoMtrr, MtrrType
<1> QED
  BY <1>1 DEF Init, MtrrInv, Converted

LEMMA EmptyRanges ==
    /\ Tiles(<<>>, 0)
    /\ \A r \in RawMtrrs : Collects(<<>>, r.variable, 0)
BY DEF Tiles, Collects

LEMMA ReadMtrrsMtrr == Inv /\ MtrrInv /\ ReadMtrrs => MtrrInv'
<1> SUFFICES ASSUME Inv, MtrrInv, ReadMtrrs PROVE MtrrInv'
  OBVIOUS
<1>1. pc = "new" /\ mtrr = NoMtrr /\ n = 0 /\ raw' = raw /\ n' = n /\ raw \in RawMtrrs
  BY DEF MtrrInv, ReadMtrrs, Inv, LoopInv, ShapeInv
<1>2. CASE raw.enabled
  <2>1. mtrr' = [NoMtrr EXCEPT !.default = raw.default] /\ pc' = "fixed"
    BY <1>1, <1>2 DEF ReadMtrrs
  <2>2. raw.default \in MemoryType
    BY <1>1, Registers
  <2>3. mtrr' \in MtrrType /\ mtrr'.default = raw.default /\ mtrr'.fixed = <<>> /\ mtrr'.variable = <<>>
    <3>1. mtrr' = [default |-> raw.default, fixed |-> <<>>, variable |-> <<>>]
      BY <2>1 DEF NoMtrr
    <3>2. <<>> \in Seq(MemoryTypeRange)
      OBVIOUS
    <3>3. mtrr' \in MtrrType
      BY <2>2, <3>1, <3>2, Zenon DEF MtrrType
    <3> QED
      BY <3>1, <3>3
  <2>4. Tiles(mtrr'.fixed, Reached(n'))
    BY <1>1, <2>3, EmptyRanges, ReachedEnds
  <2> QED
    BY <1>1, <1>2, <2>1, <2>3, <2>4 DEF MtrrInv, Converted
<1>3. CASE ~raw.enabled
  BY <1>1, <1>3 DEF MtrrInv, ReadMtrrs, Converted
<1> QED
  BY <1>2, <1>3

LEMMA FixedMtrr == Inv /\ MtrrInv /\ convert_from_raw_fixed => MtrrInv'
<1> SUFFICES ASSUME Inv, MtrrInv, convert_from_raw_fixed PROVE MtrrInv'
  OBVIOUS
<1> DEFINE r == FixedRange(raw.fixed, n)
<1>1. /\ pc = "fixed" /\ pc' = "fixed" /\ raw' = raw /\ n' = n + 1 /\ n < FixedCount
      /\ n \in Nat /\ raw \in RawMtrrs
      /\ mtrr' = [mtrr EXCEPT !.fixed = update_combined_ranges(mtrr.fixed, r)]
  BY DEF convert_from_raw_fixed, Inv, ShapeInv
<1>2. /\ r \in MemoryTypeRange /\ r.start = Reached(n) /\ r.end = Reached(n + 1) /\ r.start < r.end
  BY <1>1, FixedRangeStep
<1> HIDE DEF r
<1>3. mtrr.fixed \in Seq(MemoryTypeRange) /\ mtrr \in MtrrType
  BY DEF MtrrInv, MtrrType
<1>4. r.start \in Nat
  BY <1>2 DEF MemoryTypeRange
<1> DEFINE new == update_combined_ranges(mtrr.fixed, r)
<1>5. new \in Seq(MemoryTypeRange)
  BY <1>2, <1>3, Update
<1>6. Tiles(mtrr.fixed, r.start)
  BY <1>1, <1>2 DEF MtrrInv
<1>7. Tiles(new, r.end)
  BY <1>2, <1>3, <1>4, <1>6, UpdateTiles
<1> HIDE DEF new
<1>8. /\ mtrr' \in MtrrType /\ mtrr'.fixed = new
      /\ mtrr'.variable = mtrr.variable /\ mtrr'.default = mtrr.default
  BY <1>1, <1>3, <1>5 DEF MtrrType, new
<1> QED
  BY <1>1, <1>2, <1>7, <1>8 DEF MtrrInv, Converted

LEMMA VariableMtrr == Inv /\ MtrrInv /\ convert_from_raw_variable => MtrrInv'
<1> SUFFICES ASSUME Inv, MtrrInv, convert_from_raw_variable PROVE MtrrInv'
  OBVIOUS
<1> DEFINE v == raw.variable[n + 1]
           new == update_combined_ranges(mtrr.variable, VariableRange(v))
<1>1. /\ pc = "variable" /\ pc' = "variable" /\ raw' = raw /\ n' = n + 1
      /\ n < ReadCount(raw.variable) /\ n \in Nat /\ raw \in RawMtrrs
      /\ mtrr' = IF v.valid THEN [mtrr EXCEPT !.variable = new] ELSE mtrr
  BY DEF convert_from_raw_variable, Inv, ShapeInv
<1>2. n < Len(raw.variable)
  BY <1>1, Counts, Registers
<1>3. mtrr.variable \in Seq(MemoryTypeRange) /\ mtrr \in MtrrType
  BY DEF MtrrInv, MtrrType
<1>4. Collects(mtrr.variable, raw.variable, n)
  BY <1>1 DEF MtrrInv
<1>5. /\ v.valid => new \in Seq(MemoryTypeRange) /\ Collects(new, raw.variable, n + 1)
      /\ ~v.valid => Collects(mtrr.variable, raw.variable, n + 1)
  BY <1>1, <1>2, <1>3, <1>4, UpdateCollects
<1> HIDE DEF v, new
<1>6. /\ mtrr' \in MtrrType /\ mtrr'.fixed = mtrr.fixed /\ mtrr'.default = mtrr.default
      /\ Collects(mtrr'.variable, raw.variable, n + 1)
  <2>1. CASE v.valid
    BY <1>1, <1>3, <1>5, <2>1 DEF MtrrType
  <2>2. CASE ~v.valid
    BY <1>1, <1>3, <1>5, <2>2
  <2> QED
    BY <2>1, <2>2
<1> QED
  BY <1>1, <1>6 DEF MtrrInv, Converted

LEMMA EndConversionMtrr == Inv /\ MtrrInv /\ EndConversion => MtrrInv'
<1> SUFFICES ASSUME Inv, MtrrInv, EndConversion PROVE MtrrInv'
  OBVIOUS
<1>1. raw \in RawMtrrs /\ raw' = raw /\ mtrr' = mtrr /\ n' = 0
  BY DEF Inv, ShapeInv, EndConversion
<1>2. CASE pc = "fixed" /\ n = FixedCount /\ pc' = "variable"
  BY <1>1, <1>2, EmptyRanges, ReachedEnds DEF MtrrInv, Converted
<1>3. CASE pc = "variable" /\ n = ReadCount(raw.variable) /\ pc' = "pd"
  BY <1>1, <1>3 DEF MtrrInv, Converted
<1> QED
  BY <1>2, <1>3 DEF EndConversion

(* From then on the ranges stay as they are.                               *)
LEMMA BuildMtrr ==
    Inv /\ MtrrInv /\ (FirstPde \/ Pte \/ Pde \/ AssertSlot \/ Pdpte \/ Finish) => MtrrInv'
<1> SUFFICES ASSUME Inv, MtrrInv, FirstPde \/ Pte \/ Pde \/ AssertSlot \/ Pdpte \/ Finish
             PROVE  MtrrInv'
  OBVIOUS
<1>1. /\ pc \in {"pd", "pt", "pdpt"} /\ pc' \in {"pd", "pt", "pdpt", "done", "panic"}
      /\ raw' = raw /\ mtrr' = mtrr
  BY DEF FirstPde, Pte, MapPte, Pde, AssertSlot, Pdpte, MapPdpte, Finish, Panic
<1> QED
  BY <1>1 DEF MtrrInv, Converted

LEMMA NextMtrr == Inv /\ MtrrInv /\ [Next]_vars => MtrrInv'
<1> SUFFICES ASSUME Inv, MtrrInv, [Next]_vars PROVE MtrrInv'
  OBVIOUS
<1>1. CASE UNCHANGED vars
  BY <1>1 DEF vars, MtrrInv, Converted
<1>2. CASE Next
  BY <1>2, ReadMtrrsMtrr, FixedMtrr, VariableMtrr, EndConversionMtrr, BuildMtrr DEF Next
<1> QED
  BY <1>1, <1>2

LEMMA MtrrInvariance == Spec => [](Inv /\ MtrrInv)
<1> QED
  BY InitInv, NextInv, InitMtrr, NextMtrr, PTL DEF Spec

(* The ranges of the lowest 1MB partition it, so that the first match of   *)
(* find_from_fixed() is the only one, for every layout of the fixed range  *)
(* registers and every content of them: the comment in find_from_fixed()   *)
(* is true.                                                                *)
THEOREM FixedRangesPartition == Spec => []OneFixedRangePerPage
<1>1. Inv /\ MtrrInv => OneFixedRangePerPage
  <2> SUFFICES ASSUME Inv, MtrrInv, pc \notin {"new", "fixed", "panic"},
                      NEW p \in 0 .. (FixedEnd - 1)
               PROVE  \E k \in DOMAIN mtrr.fixed :
                         /\ InRange(mtrr.fixed[k], p)
                         /\ \A l \in DOMAIN mtrr.fixed : InRange(mtrr.fixed[l], p) => l = k
    BY DEF OneFixedRangePerPage
  <2> DEFINE f == mtrr.fixed
  <2>1. Tiles(f, FixedEnd) /\ f \in Seq(MemoryTypeRange)
    BY DEF Inv, ShapeInv, MtrrInv, MtrrType, Converted
  <2>2. PICK k \in DOMAIN f : InRange(f[k], p)
    BY <2>1 DEF Tiles
  <2>3. ASSUME NEW l \in DOMAIN f, InRange(f[l], p) PROVE l = k
    <3>0. DOMAIN f = 1 .. Len(f) /\ Len(f) \in Nat /\ FixedEnd \in Nat
      BY <2>1, RangeType, FixedAssumption
    <3>1. k \in Nat /\ l \in Nat /\ p \in Nat
      BY <3>0
    <3>2. \A i \in DOMAIN f : f[i].start \in Nat /\ f[i].end \in Nat
      BY <2>1, <3>0, RangeType
    <3>3. \A i, j \in DOMAIN f : i < j => f[i].end <= f[j].start
      BY <2>1 DEF Tiles
    <3>4. f[k].start <= p /\ p < f[k].end /\ f[l].start <= p /\ p < f[l].end
      BY <2>2, <2>3 DEF InRange
    <3> HIDE DEF f
    <3>5. ~(k < l)
      <4>1. ~(f[k].end <= f[l].start)
        BY <3>1, <3>2, <3>4
      <4> QED
        BY <3>3, <4>1
    <3>6. ~(l < k)
      <4>1. ~(f[l].end <= f[k].start)
        BY <3>1, <3>2, <3>4
      <4> QED
        BY <3>3, <4>1
    <3> QED
      BY <3>1, <3>5, <3>6
  <2> QED
    BY <2>2, <2>3
<1> QED
  BY <1>1, MtrrInvariance, PTL

-----------------------------------------------------------------------------
LEMMA Bounds ==
    /\ FixedEnd \in Nat /\ FixedEnd <= LargePage /\ LargePage <= SlotSize /\ SlotSize <= Total
    /\ Total \in Nat /\ PtEntries <= Total
<1>1. FixedEnd \in Nat /\ FixedEnd <= LargePage /\ LargePage \in Nat
  BY FixedAssumption, SizeAssumption, Sizes
<1>2. \A a \in Nat \ {0}, b \in Nat : b <= a * b /\ a * b \in Nat
  BY SMT
<1>3. LargePage <= SlotSize
  BY <1>2, Sizes, SizesAgree
<1>4. SlotSize <= Total /\ Total \in Nat
  BY <1>2, Sizes DEF Total
<1> QED
  BY <1>1, <1>3, <1>4, Sizes DEF LargePage

(* What is known of the ranges once they are converted.                    *)
LEMMA ConvertedMtrr ==
    ASSUME Inv, MtrrInv, Converted
    PROVE  /\ raw \in RawMtrrs /\ raw.enabled
           /\ mtrr \in MtrrType /\ mtrr.default = raw.default /\ mtrr.default \in MemoryType
           /\ Tiles(mtrr.fixed, FixedEnd)
           /\ Collects(mtrr.variable, raw.variable, ReadCount(raw.variable))
           /\ mtrr.variable \in Seq(MemoryTypeRange)
<1>1. raw \in RawMtrrs /\ raw.enabled
  BY DEF Inv, ShapeInv, MtrrInv, Converted
<1>2. raw.default \in MemoryType
  BY <1>1, Registers
<1> QED
  BY <1>1, <1>2 DEF MtrrInv, Converted, MtrrType

(* Each end of a range is an end of a register that is in use.             *)
LEMMA RangeEnds ==
    ASSUME Inv, MtrrInv, Converted, NEW k \in DOMAIN mtrr.variable
    PROVE  /\ mtrr.variable[k].start \in Nat /\ mtrr.variable[k].end \in Nat
           /\ \E i \in InUse : mtrr.variable[k].start = VariableRange(raw.variable[i]).start
           /\ \E j \in InUse : mtrr.variable[k].end = VariableRange(raw.variable[j]).end
<1>1. /\ raw \in RawMtrrs /\ mtrr.variable \in Seq(MemoryTypeRange)
      /\ Collects(mtrr.variable, raw.variable, ReadCount(raw.variable))
  BY ConvertedMtrr
<1>2. mtrr.variable[k].start \in Nat /\ mtrr.variable[k].end \in Nat
  BY <1>1, RangeType
<1>3. PICK i \in 1 .. ReadCount(raw.variable), j \in 1 .. ReadCount(raw.variable) :
          /\ raw.variable[i].valid /\ mtrr.variable[k].start = VariableRange(raw.variable[i]).start
          /\ raw.variable[j].valid /\ mtrr.variable[k].end = VariableRange(raw.variable[j]).end
  BY <1>1 DEF Collects
<1>4. \A l \in 1 .. ReadCount(raw.variable) : l \in DOMAIN raw.variable
  BY <1>1, Counts, Registers
<1> QED
  BY <1>2, <1>3, <1>4 DEF InUse

(* The ranges of a page have the types of the registers that control it.   *)
LEMMA TypesAt ==
    ASSUME Inv, MtrrInv, Converted, Supported, NEW p \in 0 .. (Total - 1)
    PROVE  /\ ControllingTypes(raw, p) \in SUBSET MemoryType
           /\ \A t \in MemoryType :
                 t \in ControllingTypes(raw, p)
                   <=> \E k \in DOMAIN mtrr.variable :
                          mtrr.variable[k].type = t /\ InRange(mtrr.variable[k], p)
<1> DEFINE v == raw.variable
           c == ReadCount(v)
<1>1. /\ raw \in RawMtrrs /\ Collects(mtrr.variable, v, c) /\ p \in Nat
  BY ConvertedMtrr, Bounds
<1>2. DOMAIN v = 1 .. Len(v) /\ Len(v) \in Nat /\ \A k \in 1 .. Len(v) : v[k].type \in MemoryType
  BY <1>1, Registers
<1>3. c \in Nat /\ c <= Len(v) /\ \A k \in 1 .. Len(v) : k <= MaxVariable => k <= c
  BY <1>1, <1>2, Counts, BoundsAssumption DEF ReadCount
<1>4. ASSUME NEW k \in DOMAIN v
      PROVE  Controls(v[k], p) <=> k \in 1 .. c /\ v[k].valid /\ InRange(VariableRange(v[k]), p)
  <2>1. CASE ~v[k].valid
    BY <2>1 DEF Controls
  <2>2. CASE v[k].valid
    <3>1. k \in InUse
      BY <2>2 DEF InUse
    <3>2. Block(v[k]) /\ k <= MaxVariable
      BY <3>1 DEF Supported
    <3>3. v[k].base \in 0 .. (Total - 1) /\ v[k].mask \in Nat /\ k \in 1 .. c
      BY <1>1, <1>2, <1>3, <3>2, Registers
    <3> QED
      BY <2>2, <3>2, <3>3, BlockIsRange
  <2> QED
    BY <2>1, <2>2
<1>5. ControllingTypes(raw, p) \in SUBSET MemoryType
  BY <1>2 DEF ControllingTypes
<1>6. \A t : t \in ControllingTypes(raw, p) <=> \E k \in DOMAIN v : Controls(v[k], p) /\ v[k].type = t
  BY DEF ControllingTypes
<1>7. \A t \in MemoryType :
          (\E k \in DOMAIN mtrr.variable :
              mtrr.variable[k].type = t /\ InRange(mtrr.variable[k], p))
            <=> \E j \in 1 .. c : v[j].valid /\ v[j].type = t /\ InRange(VariableRange(v[j]), p)
  BY <1>1 DEF Collects
<1>8. \A k \in 1 .. c : k \in DOMAIN v
  BY <1>2, <1>3
<1> HIDE DEF v, c
<1>9. \A t \in MemoryType :
          t \in ControllingTypes(raw, p)
            <=> \E j \in 1 .. c : v[j].valid /\ v[j].type = t /\ InRange(VariableRange(v[j]), p)
  BY <1>4, <1>6, <1>8, Zenon
<1> QED
  BY <1>5, <1>7, <1>9, Zenon

LEMMA FindAbove ==
    ASSUME NEW m, NEW start \in Nat, NEW end, start >= FixedEnd
    PROVE  find(m, start, end) = find_from_variable(m, start, end)
<1>1. ~(start < FixedEnd)
  BY Bounds
<1> QED
  BY <1>1 DEF find

(* find() for a range of pages above 1MB: it gives a type where no range   *)
(* of the registers ends inside, and the type is one that the architecture *)
(* gives each page that is in the same ranges as the first.                *)
LEMMA FindWhole ==
    ASSUME Inv, MtrrInv, Converted, NEW start \in Nat, NEW end, FixedEnd <= start
    PROVE  /\ find(mtrr, start, end) \in MemoryType \cup {None}
           /\ (\A k \in DOMAIN mtrr.variable :
                   InRange(mtrr.variable[k], start) => InRange(mtrr.variable[k], end - 1))
              => find(mtrr, start, end) # None
           /\ \A p \in 0 .. (Total - 1) :
                 /\ Supported /\ start <= p /\ find(mtrr, start, end) # None
                 /\ \A k \in DOMAIN mtrr.variable :
                       InRange(mtrr.variable[k], start) <=> InRange(mtrr.variable[k], p)
                 => find(mtrr, start, end) \in HardwareTypes(raw, p)
<1>1. mtrr \in MtrrType /\ mtrr.default \in MemoryType /\ mtrr.default = raw.default
  BY ConvertedMtrr
<1> DEFINE result == find_from_variable(mtrr, start, end)
<1>2. find(mtrr, start, end) = result
  BY FindAbove, Bounds
<1>3. /\ result \in MemoryType \cup {None}
      /\ (\A k \in DOMAIN mtrr.variable :
              InRange(mtrr.variable[k], start) => InRange(mtrr.variable[k], end - 1))
         => result # None
  BY <1>1, FindVariable
<1>4. ASSUME NEW p \in 0 .. (Total - 1), Supported, start <= p, result # None,
             \A k \in DOMAIN mtrr.variable :
                 InRange(mtrr.variable[k], start) <=> InRange(mtrr.variable[k], p)
      PROVE  result \in HardwareTypes(raw, p)
  <2> DEFINE types == ControllingTypes(raw, p)
  <2>1. types \in SUBSET MemoryType
    BY <1>4, TypesAt
  <2>2. \A t \in MemoryType :
            t \in types <=> \E k \in DOMAIN mtrr.variable :
                               mtrr.variable[k].type = t /\ InRange(mtrr.variable[k], p)
    BY <1>4, TypesAt
  <2> HIDE DEF types, result
  <2>3. \A t \in MemoryType :
            t \in types <=> \E k \in DOMAIN mtrr.variable :
                               mtrr.variable[k].type = t /\ InRange(mtrr.variable[k], start)
    BY <1>4, <2>2, Zenon
  <2>4. result \in Resolve(types, mtrr.default)
    BY <1>1, <1>4, <2>1, <2>3, FindVariable DEF result
  <2>5. ~(p < FixedEnd)
    BY <1>4, Bounds
  <2> QED
    BY <1>1, <2>4, <2>5 DEF HardwareTypes, types
<1> QED
  BY <1>2, <1>3, <1>4

LEMMA FindPage ==
    ASSUME Inv, MtrrInv, Converted, NEW p \in Nat, p < LargePage
    PROVE  /\ find(mtrr, p, p + 1) \in MemoryType
           /\ Supported /\ FixedEnd <= p => find(mtrr, p, p + 1) \in HardwareTypes(raw, p)
<1>1. CASE p < FixedEnd
  <2>1. p \in 0 .. (FixedEnd - 1) /\ ~(FixedEnd <= p)
    BY <1>1, Bounds
  <2> QED
    BY <2>1, ConvertedMtrr, FindFixed
<1>2. CASE ~(p < FixedEnd)
  <2>1. FixedEnd <= p /\ (p + 1) - 1 = p /\ p \in 0 .. (Total - 1) /\ p <= p
    BY <1>2, Bounds, Sizes
  <2>2. find(mtrr, p, p + 1) # None /\ find(mtrr, p, p + 1) \in MemoryType
    BY <2>1, FindWhole
  <2> QED
    BY <2>1, <2>2, FindWhole
<1> QED
  BY <1>1, <1>2

(* A multiple of a page's size does not lie inside of the page.            *)
LEMMA NotInside ==
    ASSUME NEW L \in Nat \ {0}, NEW k \in Nat, NEW x \in Nat, x % L = 0,
           NEW p \in k * L .. (k * L + L - 1)
    PROVE  x <= p <=> x <= k * L
<1> DEFINE start == k * L
<1>1. start \in Nat
  BY SMT
<1>2. PICK q \in Nat : x = q * L
  <2>1. x \div L \in Nat /\ x - (x % L) = (x \div L) * L
    BY Division
  <2>2. x = (x \div L) * L
    BY <2>1
  <2> QED
    BY <2>1, <2>2
<1>3. CASE q <= k
  <2>1. q * L <= k * L
    BY <1>3, Monotone
  <2> QED
    BY <1>1, <1>2, <2>1
<1>4. CASE k + 1 <= q
  <2>1. (k + 1) * L <= q * L
    BY <1>4, Monotone
  <2>2. (k + 1) * L = k * L + L
    BY SMT
  <2>3. start + L <= x
    BY <1>2, <2>1, <2>2
  <2>4. p \in start .. (start + L - 1)
    OBVIOUS
  <2> HIDE DEF start
  <2>5. ~(x <= p) /\ ~(x <= start)
    BY <1>1, <2>3, <2>4
  <2> QED
    BY <2>5 DEF start
<1> QED
  BY <1>3, <1>4

(* Pages with no possible end of a register between them are in the same   *)
(* ranges.                                                                 *)
LEMMA SameRanges ==
    ASSUME Inv, MtrrInv, Converted, Supported, NEW start \in Nat, NEW p \in Nat,
           \A x \in Nat : Boundary(x) => (x <= p <=> x <= start)
    PROVE  \A l \in DOMAIN mtrr.variable :
              InRange(mtrr.variable[l], start) <=> InRange(mtrr.variable[l], p)
<1> SUFFICES ASSUME NEW l \in DOMAIN mtrr.variable
             PROVE  InRange(mtrr.variable[l], start) <=> InRange(mtrr.variable[l], p)
  OBVIOUS
<1> DEFINE r == mtrr.variable[l]
<1>1. r.start \in Nat /\ r.end \in Nat
  BY RangeEnds
<1>2. Boundary(r.start) /\ Boundary(r.end)
  BY RangeEnds DEF Supported
<1> HIDE DEF r
<1>3. (r.start <= p <=> r.start <= start) /\ (r.end <= p <=> r.end <= start)
  BY <1>1, <1>2
<1> QED
  BY <1>1, <1>3 DEF InRange, r

(* No supported register begins or ends inside of a 2MB page above the     *)
(* first, so all pages of it are in the same ranges.                       *)
LEMMA FindLargePage ==
    ASSUME Inv, MtrrInv, Converted, Supported, NEW k \in Nat \ {0},
           k * LargePage + LargePage <= SlotSize
    PROVE  LET start == k * LargePage
           IN  \A p \in start .. (start + LargePage - 1) :
                  /\ find(mtrr, start, start + LargePage) \in MemoryType
                  /\ find(mtrr, start, start + LargePage) \in HardwareTypes(raw, p)
<1> DEFINE L == LargePage
           start == k * L
<1>1. L \in Nat \ {0} /\ start \in Nat /\ L <= start /\ FixedEnd <= L /\ FixedEnd \in Nat
  <2>1. \A a \in Nat \ {0}, b \in Nat : b <= a * b /\ a * b \in Nat
    BY SMT
  <2> QED
    BY <2>1, Sizes, Bounds
<1>2. start + L <= SlotSize /\ SlotSize \in Nat
  BY Sizes
<1>3. ASSUME NEW x \in Nat, Boundary(x), NEW p \in start .. (start + L - 1)
      PROVE  x <= p <=> x <= start
  <2>1. CASE x <= L
    BY <1>1, <2>1
  <2>2. CASE ~(x <= L) /\ x <= SlotSize
    <3>1. x % L = 0
      BY <1>3, <2>2 DEF Boundary
    <3> QED
      BY <1>1, <1>3, <3>1, NotInside
  <2>3. CASE ~(x <= SlotSize)
    <3> HIDE DEF start, L
    <3> QED
      BY <1>1, <1>2, <1>3, <2>3
  <2> QED
    BY <2>1, <2>2, <2>3
<1>4. SUFFICES ASSUME NEW p \in start .. (start + L - 1)
               PROVE  /\ find(mtrr, start, start + L) \in MemoryType
                      /\ find(mtrr, start, start + L) \in HardwareTypes(raw, p)
  BY Zenon
<1> HIDE DEF start, L
<1>5. /\ FixedEnd <= start /\ start <= p /\ p \in 0 .. (Total - 1) /\ p \in Nat
      /\ (start + L) - 1 \in start .. (start + L - 1) /\ (start + L) - 1 \in Nat
  BY <1>1, <1>2, Bounds
<1>6. \A q \in start .. (start + L - 1) : q \in Nat =>
          \A l \in DOMAIN mtrr.variable :
              InRange(mtrr.variable[l], start) <=> InRange(mtrr.variable[l], q)
  BY <1>1, <1>3, SameRanges
<1>7. \A l \in DOMAIN mtrr.variable :
          InRange(mtrr.variable[l], start) => InRange(mtrr.variable[l], (start + L) - 1)
  BY <1>5, <1>6
<1>8. find(mtrr, start, start + L) # None /\ find(mtrr, start, start + L) \in MemoryType
  BY <1>1, <1>5, <1>7, FindWhole
<1>9. find(mtrr, start, start + L) \in HardwareTypes(raw, p)
  BY <1>1, <1>4, <1>5, <1>6, <1>8, FindWhole
<1> QED
  BY <1>8, <1>9 DEF start, L

(* Where no register reaches above 512GB, there is a type for every 512GB. *)
LEMMA FindSlot ==
    ASSUME Inv, MtrrInv, Converted, BelowSlot, NEW start \in Nat, SlotSize <= start
    PROVE  find(mtrr, start, start + SlotSize) # None
<1>1. ASSUME NEW k \in DOMAIN mtrr.variable
      PROVE  ~InRange(mtrr.variable[k], start)
  <2>1. mtrr.variable[k].end \in Nat /\ mtrr.variable[k].end <= SlotSize
    BY RangeEnds DEF BelowSlot
  <2> QED
    BY <1>1, <2>1, Sizes DEF InRange
<1>2. FixedEnd <= start
  BY Bounds, Sizes
<1> QED
  BY <1>1, <1>2, FindWhole

(* No supported register begins or ends inside of a 1GB page above 512GB:  *)
(* if there is a type for the 512GB from its start on, then that is the    *)
(* type of all pages of it.                                                *)
LEMMA FindHugePage ==
    ASSUME Inv, MtrrInv, Converted, Supported, NEW k \in Nat,
           SlotSize <= k * HugePage, NEW p \in k * HugePage .. (k * HugePage + HugePage - 1),
           p < Total, find(mtrr, k * HugePage, k * HugePage + SlotSize) # None
    PROVE  find(mtrr, k * HugePage, k * HugePage + SlotSize) \in HardwareTypes(raw, p)
<1> DEFINE start == k * HugePage
<1>1. HugePage \in Nat \ {0} /\ SlotSize \in Nat /\ LargePage <= SlotSize /\ LargePage \in Nat
  BY Sizes, Bounds
<1>2. start \in Nat
  BY <1>1, SMT
<1>3. ASSUME NEW x \in Nat, Boundary(x)
      PROVE  x <= p <=> x <= start
  <2>1. CASE x <= SlotSize
    <3>1. p \in start .. (start + HugePage - 1) /\ SlotSize <= start
      OBVIOUS
    <3> HIDE DEF start
    <3> QED
      BY <1>1, <1>2, <2>1, <3>1
  <2>2. CASE ~(x <= SlotSize)
    <3>1. ~(x <= LargePage)
      BY <1>1, <2>2
    <3>2. x % HugePage = 0
      BY <1>3, <2>2, <3>1 DEF Boundary
    <3> QED
      BY <1>1, <3>2, NotInside
  <2> QED
    BY <2>1, <2>2
<1>4. p \in start .. (start + HugePage - 1) /\ SlotSize <= start
  OBVIOUS
<1> HIDE DEF start
<1>5. p \in Nat /\ start <= p /\ p \in 0 .. (Total - 1) /\ FixedEnd <= start
  BY <1>1, <1>2, <1>4, Bounds
<1>6. \A l \in DOMAIN mtrr.variable :
          InRange(mtrr.variable[l], start) <=> InRange(mtrr.variable[l], p)
  BY <1>2, <1>3, <1>5, SameRanges
<1>7. find(mtrr, start, start + SlotSize) # None
  BY DEF start
<1>8. find(mtrr, start, start + SlotSize) \in HardwareTypes(raw, p)
  BY <1>2, <1>5, <1>6, <1>7, FindWhole
<1> QED
  BY <1>8 DEF start

(* build_identity() never panics when the MTRRs are enabled and none that  *)
(* is in use reaches above 512GB, for every size of the tables: find() has *)
(* a type for every page below 2MB and for every slot above the first, and *)
(* the loops end where the assertion says.                                 *)
THEOREM BuildNeverPanics == Spec => []BuildSucceeds
<1>1. Inv /\ MtrrInv => BuildSucceeds
  <2> SUFFICES ASSUME Inv, MtrrInv, raw.enabled, BelowSlot, pc = "panic" PROVE FALSE
    BY DEF BuildSucceeds
  <2>1. Converted /\ pa \in Nat
    BY DEF Converted, Inv, ShapeInv
  <2>2. CASE pa < LargePage /\ find(mtrr, pa, pa + 1) = None
    BY <2>1, <2>2, FindPage, NoneIsNoType
  <2>3. CASE pa >= SlotSize /\ HugeType = None
    <3>1. SlotSize <= pa
      BY <2>1, <2>3, Sizes
    <3> QED
      BY <2>1, <2>3, <3>1, FindSlot DEF HugeType
  <2> QED
    BY <2>2, <2>3 DEF Inv, PanicsOnlyWithoutType
<1> QED
  BY <1>1, MtrrInvariance, PTL

-----------------------------------------------------------------------------
TableInv ==
    /\ pa <= Total
    /\ pt \in [PtIndices -> Entries]
    /\ pd \in [PdIndices -> Entries]
    /\ pdpt \in [PdptIndices -> Entries]

Agrees(entry, from, size) ==
    \A p \in from .. (from + size - 1) : entry.type \in HardwareTypes(raw, p)

(* The entries that the loops have written have the registers' types.      *)
PtAgree(k) == FixedEnd <= k => pt[k].type \in HardwareTypes(raw, k)
PdAgree(k) == Agrees(pd[k], k * LargePage, LargePage)
PdptAgree(k) == Agrees(pdpt[k], k * HugePage, HugePage)

AgreeInv ==
    Supported =>
        /\ pc = "pt" => \A k \in 0 .. (pa - 1) : PtAgree(k)
        /\ pc \in {"pd", "pdpt", "done"} /\ n > 0 => \A k \in PtIndices : PtAgree(k)
        /\ pc = "pd" => \A k \in 1 .. (n - 1) : PdAgree(k)
        /\ pc \in {"pdpt", "done"} => \A k \in PdIndices \ {0} : PdAgree(k)
        /\ pc \in {"pdpt", "done"} => \A k \in PdptEntries .. (n - 1) : PdptAgree(k)

LEMMA EntryTypes ==
    /\ Absent \in Entries /\ ToPt \in Entries
    /\ \A page \in 0 .. (Total - 1), type \in MemoryType : Leaf(page, type) \in Entries
    /\ \A page, type : Leaf(page, type).type = type
<1>1. 0 \in 0 .. (Total - 1)
  BY Bounds, Sizes
<1> QED
  BY <1>1, NoneIsNoType DEF Absent, ToPt, Leaf, Entries

LEMMA InitTables == Init => TableInv /\ AgreeInv
<1> SUFFICES ASSUME Init PROVE TableInv /\ AgreeInv
  OBVIOUS
<1>1. TableInv
  BY EntryTypes, Bounds DEF Init, TableInv, PtIndices, PdIndices, PdptIndices
<1>2. AgreeInv
  BY DEF Init, AgreeInv
<1> QED
  BY <1>1, <1>2

LEMMA SupportedStays == raw' = raw => (Supported' <=> Supported)
BY DEF Supported, InUse

(* Steps that leave the tables and the address alone.                      *)
LEMMA OtherTables ==
    Inv /\ TableInv /\ AgreeInv
      /\ (ReadMtrrs \/ convert_from_raw_fixed \/ convert_from_raw_variable \/ EndConversion
            \/ AssertSlot \/ Finish)
      => TableInv' /\ AgreeInv'
<1> SUFFICES ASSUME Inv, TableInv, AgreeInv,
                    \/ ReadMtrrs \/ convert_from_raw_fixed \/ convert_from_raw_variable
                    \/ EndConversion \/ AssertSlot \/ Finish
             PROVE  TableInv' /\ AgreeInv'
  OBVIOUS
<1>1. UNCHANGED <<raw, pa, pt, pd, pdpt>>
  BY AssertSlotHolds DEF ReadMtrrs, convert_from_raw_fixed, convert_from_raw_variable,
                         EndConversion, AssertSlot, Finish
<1>2. TableInv'
  BY <1>1 DEF TableInv
<1>3. /\ \A k : PtAgree(k)' <=> PtAgree(k)
      /\ \A k : PdAgree(k)' <=> PdAgree(k)
      /\ \A k : PdptAgree(k)' <=> PdptAgree(k)
  BY <1>1 DEF PtAgree, PdAgree, PdptAgree, Agrees
<1>4. Supported' <=> Supported
  BY <1>1, SupportedStays
<1>5. CASE ReadMtrrs \/ convert_from_raw_fixed \/ convert_from_raw_variable \/ EndConversion
  <2>1. pc' \in {"fixed", "variable", "panic"} \/ (pc' = "pd" /\ n' = 0)
    BY <1>5 DEF ReadMtrrs, convert_from_raw_fixed, convert_from_raw_variable, EndConversion
  <2> QED
    BY <1>2, <2>1 DEF AgreeInv
<1>6. CASE AssertSlot
  <2>1. /\ pc = "pd" /\ n = PdptEntries * PdEntries
        /\ pc' = "pdpt" /\ n' = PdptEntries
    BY <1>6, AssertSlotHolds DEF AssertSlot
  <2>2. n > 0 /\ n' > 0
    BY <2>1, Sizes
  <2>3. \A k \in PdIndices \ {0} : k \in 1 .. (n - 1)
    BY <2>1, Sizes DEF PdIndices
  <2>4. PdptEntries .. (n' - 1) = {}
    BY <2>1, Sizes
  <2>5. AgreeInv'
    BY <1>3, <1>4, <2>1, <2>2, <2>3, <2>4, Zenon DEF AgreeInv
  <2> QED
    BY <1>2, <2>5
<1>7. CASE Finish
  <2>1. pc = "pdpt" /\ pc' = "done" /\ n' = n
    BY <1>7 DEF Finish
  <2>2. AgreeInv'
    BY <1>3, <1>4, <2>1 DEF AgreeInv
  <2> QED
    BY <1>2, <2>2
<1> QED
  BY <1>5, <1>6, <1>7

LEMMA PanicTables == TableInv /\ Panic => TableInv' /\ AgreeInv'
BY DEF Panic, TableInv, AgreeInv

LEMMA FirstPdeTables == Inv /\ TableInv /\ AgreeInv /\ FirstPde => TableInv' /\ AgreeInv'
<1> SUFFICES ASSUME Inv, TableInv, AgreeInv, FirstPde PROVE TableInv' /\ AgreeInv'
  OBVIOUS
<1>1. /\ pc' = "pt" /\ pa = 0 /\ pa' = 0 /\ pt' = pt /\ pdpt' = pdpt
      /\ pd' = [pd EXCEPT ![n] = ToPt]
  BY DEF FirstPde
<1>2. TableInv'
  BY <1>1, EntryTypes DEF TableInv
<1>3. AgreeInv'
  BY <1>1 DEF AgreeInv
<1> QED
  BY <1>2, <1>3

LEMMA PteTables == Inv /\ MtrrInv /\ TableInv /\ AgreeInv /\ Pte => TableInv' /\ AgreeInv'
<1> SUFFICES ASSUME Inv, MtrrInv, TableInv, AgreeInv, Pte PROVE TableInv' /\ AgreeInv'
  OBVIOUS
<1> DEFINE type == find(mtrr, pa, pa + 1)
<1>1. /\ pc = "pt" /\ n = 0 /\ pa \in PtIndices /\ pa \in Nat /\ pa < LargePage
      /\ Converted /\ MapPte(pa, type)
  BY Sizes DEF Inv, LoopInv, Pte, PtIndices, LargePage, Converted
<1>2. type \in MemoryType /\ (Supported /\ FixedEnd <= pa => type \in HardwareTypes(raw, pa))
  BY <1>1, FindPage
<1> HIDE DEF type
<1>3. /\ pt' = [pt EXCEPT ![pa] = Leaf(pa, type)] /\ pa' = pa + 1
      /\ pc' = IF pa = PtEntries - 1 THEN "pd" ELSE "pt"
      /\ n' = IF pa = PtEntries - 1 THEN n + 1 ELSE n
      /\ UNCHANGED <<raw, mtrr, pd, pdpt>>
  BY <1>1, <1>2, NoneIsNoType DEF MapPte
<1>4. TableInv'
  <2>1. pa \in 0 .. (Total - 1) /\ pa' <= Total
    BY <1>1, <1>3, Bounds, Sizes
  <2>2. Leaf(pa, type) \in Entries
    BY <1>2, <2>1, EntryTypes
  <2> QED
    BY <1>1, <1>3, <2>1, <2>2 DEF TableInv
<1>5. ASSUME Supported, NEW k \in 0 .. pa PROVE PtAgree(k)'
  <2>1. k \in PtIndices
    BY <1>1, Sizes DEF PtIndices
  <2>2. CASE k = pa
    <3>1. pt'[k] = Leaf(pa, type)
      BY <1>1, <1>3, <2>2 DEF TableInv
    <3> QED
      BY <1>2, <1>3, <1>5, <2>2, <3>1, EntryTypes DEF PtAgree
  <2>3. CASE k # pa
    <3>1. pt'[k] = pt[k] /\ k \in 0 .. (pa - 1)
      BY <1>1, <1>3, <2>1, <2>3 DEF TableInv
    <3>2. PtAgree(k)
      BY <1>1, <1>5, <3>1 DEF AgreeInv
    <3> QED
      BY <1>3, <3>1, <3>2 DEF PtAgree
  <2> QED
    BY <2>2, <2>3
<1>6. AgreeInv'
  <2>1. Supported' <=> Supported
    BY <1>3, SupportedStays
  <2>2. CASE pa = PtEntries - 1
    <3>1. pc' = "pd" /\ n' = 1 /\ PtIndices = 0 .. pa /\ 1 .. (n' - 1) = {}
      BY <1>1, <1>3, <2>2 DEF PtIndices
    <3> QED
      BY <1>5, <2>1, <3>1 DEF AgreeInv
  <2>3. CASE pa # PtEntries - 1
    <3>1. pc' = "pt" /\ 0 .. (pa' - 1) = 0 .. pa
      BY <1>1, <1>3, <2>3
    <3> QED
      BY <1>5, <2>1, <3>1 DEF AgreeInv
  <2> QED
    BY <2>2, <2>3
<1> QED
  BY <1>4, <1>6

LEMMA PdeTables == Inv /\ MtrrInv /\ TableInv /\ AgreeInv /\ Pde => TableInv' /\ AgreeInv'
<1> SUFFICES ASSUME Inv, MtrrInv, TableInv, AgreeInv, Pde PROVE TableInv' /\ AgreeInv'
  OBVIOUS
<1> DEFINE found == find(mtrr, pa, pa + LargePage)
           type == IF found = None THEN "UC" ELSE found
<1>1. /\ pc = "pd" /\ n \in Nat /\ n \in PdIndices /\ pa = n * LargePage /\ pa # 0 /\ pa \in Nat
      /\ Converted
      /\ pd' = [pd EXCEPT ![n] = Leaf(pa, type)] /\ pa' = pa + LargePage /\ n' = n + 1
      /\ UNCHANGED <<raw, mtrr, pc, pt, pdpt>>
  BY Sizes DEF Inv, ShapeInv, LoopInv, Pde, PdIndices, Converted
<1>2. n > 0
  <2>1. 0 * LargePage = 0
    BY Sizes, SMT
  <2> QED
    BY <1>1, <2>1
<1>3. pa + LargePage <= SlotSize
  <2>1. (n + 1) * LargePage <= (PdptEntries * PdEntries) * LargePage
    <3>1. n + 1 <= PdptEntries * PdEntries /\ n + 1 \in Nat
      BY <1>1, Sizes DEF PdIndices
    <3> QED
      BY <3>1, Sizes, Monotone
  <2>2. (n + 1) * LargePage = n * LargePage + LargePage
    BY <1>1, Sizes, SMT
  <2> QED
    BY <1>1, <2>1, <2>2, SizesAgree
<1>4. type \in MemoryType
  <2>1. LargePage <= pa
    <3>1. 1 * LargePage <= n * LargePage /\ 1 * LargePage = LargePage
      BY <1>1, <1>2, Sizes, Monotone
    <3> QED
      BY <1>1, <3>1
  <2>2. found = find_from_variable(mtrr, pa, pa + LargePage)
    BY <1>1, <2>1, Bounds, Sizes, FindAbove
  <2>3. found \in MemoryType \cup {None}
    BY <1>1, <2>2, ConvertedMtrr, FindVariable
  <2> HIDE DEF found
  <2> QED
    BY <2>3, NoneIsNoType
<1>5. Supported => \A p \in pa .. (pa + LargePage - 1) : type \in HardwareTypes(raw, p)
  <2> SUFFICES ASSUME Supported, NEW p \in pa .. (pa + LargePage - 1)
               PROVE  type \in HardwareTypes(raw, p)
    BY Zenon
  <2>1. n \in Nat \ {0} /\ n * LargePage + LargePage <= SlotSize
    BY <1>1, <1>2, <1>3
  <2>2. found \in MemoryType /\ found \in HardwareTypes(raw, p)
    BY <1>1, <2>1, FindLargePage
  <2> HIDE DEF found
  <2> QED
    BY <2>2, NoneIsNoType
<1> HIDE DEF found, type
<1>6. TableInv'
  <2>1. pa \in 0 .. (Total - 1) /\ pa' <= Total
    BY <1>1, <1>3, Bounds, Sizes
  <2>2. Leaf(pa, type) \in Entries
    BY <1>4, <2>1, EntryTypes
  <2> QED
    BY <1>1, <2>1, <2>2 DEF TableInv
<1>7. ASSUME Supported, NEW k \in 1 .. n PROVE PdAgree(k)'
  <2>1. k \in PdIndices
    BY <1>1, Sizes DEF PdIndices
  <2>2. CASE k = n
    <3>1. pd'[k] = Leaf(pa, type)
      BY <1>1, <2>2 DEF TableInv
    <3> QED
      BY <1>1, <1>5, <1>7, <2>2, <3>1, EntryTypes DEF PdAgree, Agrees
  <2>3. CASE k # n
    <3>1. pd'[k] = pd[k] /\ k \in 1 .. (n - 1)
      BY <1>1, <2>1, <2>3 DEF TableInv
    <3>2. PdAgree(k)
      BY <1>1, <1>7, <3>1 DEF AgreeInv
    <3> QED
      BY <1>1, <3>1, <3>2 DEF PdAgree, Agrees
  <2> QED
    BY <2>2, <2>3
<1>8. AgreeInv'
  <2>1. (Supported' <=> Supported) /\ \A k : PtAgree(k)' <=> PtAgree(k)
    BY <1>1, SupportedStays DEF PtAgree
  <2>2. pc' = "pd" /\ 1 .. (n' - 1) = 1 .. n
    BY <1>1
  <2> QED
    BY <1>1, <1>2, <1>7, <2>1, <2>2 DEF AgreeInv
<1> QED
  BY <1>6, <1>8

LEMMA PdpteTables == Inv /\ MtrrInv /\ TableInv /\ AgreeInv /\ Pdpte => TableInv' /\ AgreeInv'
<1> SUFFICES ASSUME Inv, MtrrInv, TableInv, AgreeInv, Pdpte PROVE TableInv' /\ AgreeInv'
  OBVIOUS
<1>1. /\ pc = "pdpt" /\ n \in Nat /\ n \in PdptIndices /\ pa = n * HugePage /\ pa \in Nat
      /\ PdptEntries <= n /\ MapPdpte(HugeType) /\ Converted
  BY Sizes DEF Inv, ShapeInv, LoopInv, Pdpte, PdptIndices, Converted
<1>2. CASE HugeType = None
  <2>1. Panic
    BY <1>1, <1>2 DEF MapPdpte
  <2> QED
    BY <2>1, PanicTables
<1>3. CASE HugeType # None
  <2> DEFINE type == HugeType
  <2>1. /\ pdpt' = [pdpt EXCEPT ![n] = Leaf(pa, type)]
        /\ pa' = pa + HugePage /\ n' = n + 1 /\ UNCHANGED <<raw, mtrr, pc, pt, pd>>
    BY <1>1, <1>3 DEF MapPdpte
  <2>2. SlotSize <= pa
    <3>1. PdptEntries * HugePage <= n * HugePage
      BY <1>1, Sizes, Monotone
    <3> QED
      BY <1>1, <3>1 DEF SlotSize
  <2>3. pa + HugePage <= Total
    <3>1. (n + 1) * HugePage <= (Pml4Entries * PdptEntries) * HugePage
      <4>1. n + 1 <= Pml4Entries * PdptEntries /\ n + 1 \in Nat
        BY <1>1, Sizes DEF PdptIndices
      <4> QED
        BY <4>1, Sizes, Monotone
    <3>2. (n + 1) * HugePage = n * HugePage + HugePage
      BY <1>1, Sizes, SMT
    <3> QED
      BY <1>1, <3>1, <3>2, SizesAgree
  <2>4. type \in MemoryType
    <3>1. type = find_from_variable(mtrr, pa, pa + SlotSize)
      BY <1>1, <2>2, Bounds, Sizes, FindAbove DEF HugeType
    <3> QED
      BY <1>1, <1>3, <3>1, ConvertedMtrr, FindVariable
  <2>5. Supported => \A p \in pa .. (pa + HugePage - 1) : type \in HardwareTypes(raw, p)
    <3> SUFFICES ASSUME Supported, NEW p \in pa .. (pa + HugePage - 1)
                 PROVE  type \in HardwareTypes(raw, p)
      BY Zenon
    <3>1. p < Total
      BY <1>1, <2>3, Sizes, Bounds
    <3> QED
      BY <1>1, <1>3, <2>2, <3>1, FindHugePage DEF HugeType
  <2> HIDE DEF type
  <2>6. TableInv'
    <3>1. pa \in 0 .. (Total - 1) /\ pa' <= Total
      BY <1>1, <2>1, <2>3, Bounds, Sizes
    <3>2. Leaf(pa, type) \in Entries
      BY <2>4, <3>1, EntryTypes
    <3> QED
      BY <1>1, <2>1, <3>1, <3>2 DEF TableInv
  <2>7. ASSUME Supported, NEW k \in PdptEntries .. n PROVE PdptAgree(k)'
    <3>1. k \in PdptIndices
      BY <1>1, Sizes DEF PdptIndices
    <3>2. CASE k = n
      <4>1. pdpt'[k] = Leaf(pa, type)
        BY <1>1, <2>1, <3>2 DEF TableInv
      <4> QED
        BY <1>1, <2>1, <2>5, <2>7, <3>2, <4>1, EntryTypes DEF PdptAgree, Agrees
    <3>3. CASE k # n
      <4>1. pdpt'[k] = pdpt[k] /\ k \in PdptEntries .. (n - 1)
        BY <1>1, <2>1, <3>1, <3>3, Sizes DEF TableInv
      <4>2. PdptAgree(k)
        BY <1>1, <2>7, <4>1 DEF AgreeInv
      <4> QED
        BY <2>1, <4>1, <4>2 DEF PdptAgree, Agrees
    <3> QED
      BY <3>2, <3>3
  <2>8. AgreeInv'
    <3>1. /\ Supported' <=> Supported
          /\ \A k : PtAgree(k)' <=> PtAgree(k)
          /\ \A k : PdAgree(k)' <=> PdAgree(k)
      BY <2>1, SupportedStays DEF PtAgree, PdAgree, Agrees
    <3>2. pc' = "pdpt" /\ n > 0 /\ PdptEntries .. (n' - 1) = PdptEntries .. n
      BY <1>1, <2>1, Sizes
    <3> QED
      BY <1>1, <2>7, <3>1, <3>2 DEF AgreeInv
  <2> QED
    BY <2>6, <2>8
<1> QED
  BY <1>2, <1>3

LEMMA NextTables ==
    Inv /\ MtrrInv /\ TableInv /\ AgreeInv /\ [Next]_vars => TableInv' /\ AgreeInv'
<1> SUFFICES ASSUME Inv, MtrrInv, TableInv, AgreeInv, [Next]_vars PROVE TableInv' /\ AgreeInv'
  OBVIOUS
<1>1. CASE UNCHANGED vars
  <2>1. UNCHANGED <<raw, pc, n, pa, pt, pd, pdpt>>
    BY <1>1 DEF vars
  <2>2. /\ \A k : PtAgree(k)' <=> PtAgree(k)
        /\ \A k : PdAgree(k)' <=> PdAgree(k)
        /\ \A k : PdptAgree(k)' <=> PdptAgree(k)
        /\ Supported' <=> Supported
    BY <2>1, SupportedStays DEF PtAgree, PdAgree, PdptAgree, Agrees
  <2> QED
    BY <2>1, <2>2 DEF TableInv, AgreeInv
<1>2. CASE Next
  BY <1>2, OtherTables, FirstPdeTables, PteTables, PdeTables, PdpteTables DEF Next
<1> QED
  BY <1>1, <1>2

LEMMA TablesInvariance == Spec => [](Inv /\ MtrrInv /\ TableInv /\ AgreeInv)
<1> QED
  BY InitInv, NextInv, InitMtrr, NextMtrr, InitTables, NextTables, PTL DEF Spec

(* Every value that the construction writes has its type: in particular no *)
(* entry gets an address outside of the physical address space and none    *)
(* gets the absence of a type, for every size of the tables and all MTRRs. *)
THEOREM TypeCorrect == Spec => []TypeOK
<1>1. Inv /\ MtrrInv /\ TableInv /\ AgreeInv => TypeOK
  <2> SUFFICES ASSUME Inv, MtrrInv, TableInv PROVE TypeOK
    OBVIOUS
  <2>1. pa \in 0 .. Total
    BY Bounds DEF Inv, ShapeInv, TableInv
  <2> QED
    BY <2>1 DEF TypeOK, Inv, ShapeInv, MtrrInv, MtrrType, TableInv, PtIndices, PdIndices, PdptIndices
<1> QED
  BY <1>1, TablesInvariance, PTL

(* From 1MB on, every page has in the extended page tables a type that the *)
(* processor's own reading of the MTRRs gives it, for any number, order    *)
(* and overlap of registers that are in use, each an aligned block that    *)
(* does not begin or end inside of a 2MB page above the first, or of a 1GB *)
(* page above 512GB, and for every size of the tables.                     *)
THEOREM TypesAgree == Spec => []TypesAgreeAboveFixed
<1>1. Inv /\ MtrrInv /\ TableInv /\ AgreeInv => TypesAgreeAboveFixed
  <2> SUFFICES ASSUME Inv, AgreeInv, pc = "done", Supported, NEW p \in FixedEnd .. (Total - 1)
               PROVE  Walk(p).type \in HardwareTypes(raw, p)
    BY DEF TypesAgreeAboveFixed, AgreesOn
  <2>1. /\ p \in Nat /\ p < Total /\ FixedEnd <= p /\ n = Pml4Entries * PdptEntries /\ n > 0
    BY Bounds, Sizes DEF Inv, LoopInv
  <2>2. CASE p >= SlotSize
    <3> DEFINE q == p \div HugePage
    <3>1. q \in Nat /\ p - (p % HugePage) = q * HugePage /\ p % HugePage \in 0 .. (HugePage - 1)
      BY <2>1, Sizes, Division
    <3>2. q < Pml4Entries * PdptEntries
      BY <2>1, SizesAgree, Sizes, IndexInRow
    <3>3. q >= PdptEntries
      BY <2>1, <2>2, Sizes, IndexInRow DEF SlotSize
    <3>4. PdptAgree(q)
      <4>1. q \in PdptEntries .. (n - 1)
        BY <2>1, <3>1, <3>2, <3>3, Sizes
      <4> QED
        BY <4>1 DEF AgreeInv
    <3>5. p \in q * HugePage .. (q * HugePage + HugePage - 1)
      <4> HIDE DEF q
      <4> DEFINE x == q * HugePage
      <4>1. x \in Nat /\ p - (p % HugePage) = x
        BY <3>1, Sizes, SMT
      <4> HIDE DEF x
      <4>2. p \in x .. (x + HugePage - 1)
        BY <2>1, <3>1, <4>1, Sizes
      <4> QED
        BY <4>2 DEF x
    <3> QED
      BY <2>2, <3>4, <3>5 DEF Walk, PdptAgree, Agrees
  <2>3. CASE ~(p >= SlotSize)
    <3> DEFINE q == p \div LargePage
    <3>1. /\ q \in Nat /\ p - (p % LargePage) = q * LargePage /\ p % LargePage \in PtIndices
          /\ p % LargePage \in 0 .. (LargePage - 1)
      BY <2>1, Sizes, Division DEF PtIndices, LargePage
    <3>2. q < PdptEntries * PdEntries
      <4>1. p < (PdptEntries * PdEntries) * LargePage
        BY <2>1, <2>3, SizesAgree, Sizes
      <4> QED
        BY <4>1, <2>1, Sizes, IndexInRow
    <3>3. CASE q = 0
      <4>1. pd[q] = ToPt
        BY <2>1, <3>3 DEF Inv, PdInv
      <4>2. p % PtEntries = p /\ p \in PtIndices
        BY <2>1, <3>1, <3>3, Sizes, Division DEF LargePage
      <4>3. PtAgree(p)
        BY <2>1, <4>2 DEF AgreeInv
      <4> HIDE DEF q
      <4>4. Walk(p) = pt[p]
        BY <2>3, <4>1, <4>2 DEF Walk, ToPt, q
      <4> QED
        BY <2>1, <4>3, <4>4 DEF PtAgree
    <3>4. CASE q # 0
      <4>1. q \in PdIndices \ {0}
        BY <3>1, <3>2, <3>4, Sizes DEF PdIndices
      <4>2. PdAgree(q) /\ pd[q].kind = "leaf"
        BY <4>1 DEF AgreeInv, Inv, PdInv, MapsTo
      <4>3. p \in q * LargePage .. (q * LargePage + LargePage - 1)
        <5> HIDE DEF q
        <5> DEFINE x == q * LargePage
        <5>1. x \in Nat /\ p - (p % LargePage) = x
          BY <3>1, Sizes, SMT
        <5> HIDE DEF x
        <5>2. p \in x .. (x + LargePage - 1)
          BY <2>1, <3>1, <5>1, Sizes
        <5> QED
          BY <5>2 DEF x
      <4>4. Walk(p) = pd[q]
        BY <2>3, <4>2 DEF Walk
      <4> QED
        BY <4>2, <4>3, <4>4 DEF PdAgree, Agrees
    <3> QED
      BY <3>3, <3>4
  <2> QED
    BY <2>2, <2>3
<1> QED
  BY <1>1, TablesInvariance, PTL
=============================================================================
