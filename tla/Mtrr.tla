-------------------------------- MODULE Mtrr --------------------------------
(***************************************************************************)
(* The memory type range registers: what RawMtrrs reads, how Mtrr turns    *)
(* the registers into ranges, how find() answers for a range, and what the *)
(* processor itself makes of the same registers.                           *)
(*                                                                         *)
(* Addresses are page numbers: a page is 4KB.                              *)
(***************************************************************************)
EXTENDS Integers, Sequences, SequencesExt

CONSTANTS FixedRanges,       \* FIXED_MTRR_RANGES: a base and a size per register
          BytesPerRegister,  \* 8: each byte is the type of one sub-range
          FixedEnd,          \* 1MB
          MaxVariable,       \* 10: half the length of VARIABLE_MTRRS
          Width              \* bits of a page number

MemoryType == {"UC", "WC", "WT", "WP", "WB"}
None == "none"

(* FIXED_MTRR_RANGES lists the sub-ranges of the lowest 1MB in order.      *)
ASSUME FixedAssumption ==
    /\ FixedEnd \in Nat /\ BytesPerRegister \in Nat \ {0}
    /\ FixedRanges \in Seq([base : Nat, size : Nat \ {0}])
    /\ FixedRanges # <<>> /\ FixedRanges[1].base = 0
    /\ \A i \in DOMAIN FixedRanges :
           FixedRanges[i].base + BytesPerRegister * FixedRanges[i].size
             = (IF i = Len(FixedRanges) THEN FixedEnd ELSE FixedRanges[i + 1].base)
ASSUME BoundsAssumption == MaxVariable \in Nat /\ Width \in Nat
(* Arithmetic, stated because the provers do not know exponentiation.      *)
ASSUME PowersOfTwo == 2^0 = 1 /\ \A k \in 0 .. Width : 2^k \in Nat \ {0} /\ 2^(k + 1) = 2 * 2^k

Bit(x, k) == (x \div 2^k) % 2

-----------------------------------------------------------------------------
(* What the processor does: the architecture's rules for one page.         *)

FixedIndex(page) ==
    CHOOSE i \in DOMAIN FixedRanges :
        /\ FixedRanges[i].base <= page
        /\ page < FixedRanges[i].base + BytesPerRegister * FixedRanges[i].size

(* Byte 0, here 1, of a fixed range register is its lowest sub-range.      *)
FixedType(raw, page) ==
    LET i == FixedIndex(page)
    IN  raw.fixed[i][1 + (page - FixedRanges[i].base) \div FixedRanges[i].size]

Controls(v, page) ==
    v.valid /\ \A k \in 0 .. (Width - 1) : Bit(v.mask, k) = 1 => Bit(page, k) = Bit(v.base, k)

ControllingTypes(raw, page) ==
    {raw.variable[k].type :
        k \in {n \in DOMAIN raw.variable : Controls(raw.variable[n], page)}}

(* The types the architecture allows where registers of these types       *)
(* overlap: any for an undefined overlap.                                  *)
Resolve(types, default) ==
    CASE types = {} -> {default}
      [] "UC" \in types -> {"UC"}
      [] types = {"WT", "WB"} -> {"WT"}
      [] \E t \in types : types = {t} -> types
      [] OTHER -> MemoryType

HardwareTypes(raw, page) ==
    IF page < FixedEnd THEN {FixedType(raw, page)}
    ELSE Resolve(ControllingTypes(raw, page), raw.default)

-----------------------------------------------------------------------------
(* What the loops of convert_from_raw_fixed() and                          *)
(* convert_from_raw_variable() do with one register.                       *)

update_combined_ranges_losing_one(ranges, r) ==
    LET n == Len(ranges)
    IN  CASE n > 0 /\ ranges[n].type = r.type /\ ranges[n].end = r.start -> ranges
          [] OTHER -> Append(ranges, r)

update_combined_ranges(ranges, r) ==
    LET n == Len(ranges)
        same == n > 0 /\ ranges[n].type = r.type
    IN  CASE same /\ ranges[n].end = r.start -> [ranges EXCEPT ![n].end = r.end]
          [] same /\ ranges[n].end # r.start /\ ranges[n].start = r.end ->
                 [ranges EXCEPT ![n].start = r.start]
          [] OTHER -> Append(ranges, r)

to_be_bytes(value) == Reverse(value)

(* The sub-range of the n-th byte, from 0, of all fixed range registers.   *)
FixedRange(fixed, n) ==
    LET i == n \div BytesPerRegister + 1
        j == n % BytesPerRegister
        base == FixedRanges[i].base + FixedRanges[i].size * j
    IN  [type |-> to_be_bytes(fixed[i])[j + 1],
         start |-> base, end |-> base + FixedRanges[i].size]

bit_scan_forward(value) ==
    CHOOSE k \in 0 .. (Width - 1) : Bit(value, k) = 1 /\ \A j \in 0 .. (k - 1) : Bit(value, j) = 0

VariableRange(v) ==
    [type |-> v.type, start |-> v.base, end |-> v.base + 2^bit_scan_forward(v.mask)]

(* Only the pairs that VARIABLE_MTRRS names are read.                      *)
ReadCount(variable) == IF Len(variable) < MaxVariable THEN Len(variable) ELSE MaxVariable

-----------------------------------------------------------------------------
(* find() for the pages start .. end - 1.                                  *)

InRange(r, page) == r.start <= page /\ page < r.end

find_from_fixed(mtrr, start, end) ==
    LET hits == {k \in DOMAIN mtrr.fixed :
                    InRange(mtrr.fixed[k], start) /\ InRange(mtrr.fixed[k], end - 1)}
    IN  IF hits = {} THEN None ELSE mtrr.fixed[Min(hits)].type

find_from_variable_first_type(mtrr, start, end) ==
    LET v == mtrr.variable
        hits == {k \in DOMAIN v : InRange(v[k], start)}
    IN  IF hits = {} THEN mtrr.default ELSE v[Min(hits)].type

(* The loop returns at the first hit that does not contain the whole range *)
(* or is uncacheable; else it keeps the first hit's type, but for WB then  *)
(* WT.                                                                     *)
find_from_variable(mtrr, start, end) ==
    LET v == mtrr.variable
        hits == {k \in DOMAIN v : InRange(v[k], start)}
        partial == {k \in hits : ~InRange(v[k], end - 1)}
        returns == partial \cup {k \in hits : v[k].type = "UC"}
    IN  CASE returns # {} -> IF Min(returns) \in partial THEN None ELSE "UC"
          [] returns = {} /\ hits = {} -> mtrr.default
          [] OTHER -> IF v[Min(hits)].type = "WB" /\ \E k \in hits : v[k].type = "WT"
                        THEN "WT"
                        ELSE v[Min(hits)].type

find(mtrr, start, end) ==
    CASE start < FixedEnd /\ end > FixedEnd -> None
      [] start < FixedEnd /\ end <= FixedEnd -> find_from_fixed(mtrr, start, end)
      [] OTHER -> find_from_variable(mtrr, start, end)
=============================================================================
