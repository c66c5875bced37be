------------------------------- MODULE MCEpts -------------------------------
(***************************************************************************)
(* Small page tables and register sets for Epts: 16 pages of 4KB in 2MB, 8 *)
(* of them in the lowest 1MB, two 2MB pages in 1GB, two times 1GB in       *)
(* 512GB, and as much again above.                                         *)
(***************************************************************************)
EXTENDS Epts

MCFixedRanges == <<[base |-> 0, size |-> 2], [base |-> 4, size |-> 1], [base |-> 6, size |-> 1]>>

Invalid == [valid |-> FALSE, base |-> 0, mask |-> 0, type |-> "UC"]

Register(base, size, type) ==
    [valid |-> TRUE, base |-> base, mask |-> 2^Width - size, type |-> type]

(* Aligned blocks of the given sizes between two pages.                    *)
Registers(from, to, sizes, types) ==
    {Register(b, s, t) :
        <<b, s, t>> \in {x \in (from .. (to - 1)) \X sizes \X types :
                            x[1] % x[2] = 0 /\ x[1] + x[2] <= to}}

(* Below 512GB, of 2MB and more, and smaller ones between 1MB and 2MB.     *)
Compatible ==
    {Invalid} \cup Registers(0, 64, {16, 32, 64}, {"UC", "WT", "WB"})
              \cup Registers(8, 16, {4, 8}, {"UC", "WB"})

Raw(enabled, defaults, fixedTypes, variables, count) ==
    [enabled : enabled, default : defaults,
     fixed : [1 .. Len(MCFixedRanges) -> [1 .. BytesPerRegister -> fixedTypes]],
     variable : [1 .. count -> variables]]

(* Every use of the variable range registers, with the fixed ranges alike. *)
VariableConfigurations == Raw({TRUE}, {"UC", "WB"}, {"UC"}, Compatible, 3)

(* Every use of the fixed range registers, and MTRRs that are disabled.    *)
FixedConfigurations == Raw(BOOLEAN, {"WB"}, {"UC", "WT", "WB"}, {Invalid}, 1)

(* Registers of 1GB and more above 512GB, which may adjoin ones below.     *)
HighConfigurations ==
    Raw({TRUE}, {"WB"}, {"UC"},
        {Invalid, Register(0, 64, "UC"), Register(32, 32, "WT")}
            \cup Registers(64, 128, {32, 64}, {"UC", "WT"}), 3)

(* Registers that the type properties do not cover: inside of a 2MB page,  *)
(* and a mask with a hole; the last of four is never read.                 *)
UnsupportedConfigurations ==
    Raw({TRUE}, {"WB"}, {"WT"},
        {Invalid, Register(64, 64, "UC"), Register(40, 4, "WB"),
         [Register(0, 32, "WT") EXCEPT !.mask = 80]}, 4)

Configurations ==
    VariableConfigurations \cup FixedConfigurations \cup HighConfigurations
                           \cup UnsupportedConfigurations
=============================================================================
