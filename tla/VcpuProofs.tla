----------------------------- MODULE VcpuProofs -----------------------------
(***************************************************************************)
(* The guest keeps its registers over any sequence of exits, INITs and     *)
(* SIPIs, on both vendors.                                                 *)
(***************************************************************************)
EXTENDS Vcpu, TLAPS

E == expect.cpu

(* The instruction pointer grows by one with each exit, from its reset     *)
(* value at most, so that it does not wrap around.                         *)
RipInv ==
    /\ cpu["rip"] <= exits + ResetRip /\ registers["rip"] <= exits + ResetRip
    /\ vmcs["rip"] <= exits + ResetRip /\ E["rip"] <= exits + ResetRip
    /\ pc = "handle" => registers["rip"] < exits + ResetRip

(* Where the guest's registers are while it does not run.  Those that      *)
(* run() copies are taken from struct Registers; segments come from the    *)
(* VMCB or, where the clean bits allow, from what the processor has kept.  *)
HeldByHost ==
    /\ \A r \in InRegisters \ StaleAfterInit : registers[r] = E[r]
    /\ \A r \in Sys \ StaleAfterInit :
          vmcs[r] = E[r] /\ (vendor = "amd" /\ clean => cached[r] = E[r])

(* Just after an exit.                                                     *)
Saved ==
    /\ \A r \in InRegisters : registers[r] = cpu[r]
    /\ \A r \in InVmcs : vmcs[r] = cpu[r] /\ cached[r] = cpu[r]

(* In the wait for SIPI, or with the SIPI to handle: the start address is  *)
(* not there yet, and nothing is marked clean.                             *)
HeldForSipi ==
    /\ \A r \in InRegisters \ (StaleAfterInit \cup {"rip"}) : registers[r] = E[r]
    /\ \A r \in Sys \ (StaleAfterInit \cup {"cs"}) : vmcs[r] = E[r]
    /\ vector # NoVector => E["rip"] = 0 /\ E["cs"] = vector
    /\ vendor = "amd" => ~clean

(* What an instruction that exits leaves in register r.                    *)
NextValue(i, f, m, r) ==
    CASE i = "cpuid" /\ r \in {"rax", "rbx", "rcx", "rdx"} -> Cpuid(Low(f["rax"]), r)
      [] r = "rip" -> f["rip"] + 1
      [] i = "rdmsr" /\ r = "rax" -> Low(m)
      [] i = "rdmsr" /\ r = "rdx" -> m \div Half
      [] i = "vmcall" /\ r = "rax" /\ f["rax"] # Devirtualize -> UnknownCall
      [] OTHER -> f[r]

HeldInv ==
    /\ pc = "run" => HeldByHost
    /\ pc = "entry" => HeldByHost /\ \A r \in Copied : vmcs[r] = registers[r]
    /\ pc = "guest" => \A r \in Regs \ StaleAfterInit : cpu[r] = E[r]
    /\ pc = "handle" => /\ Saved /\ reason \in Instructions
                        /\ \A r \in Regs : E[r] = NextValue(reason, cpu, msr, r)
                        /\ expect.msr = IF reason = "wrmsr" THEN ToWrite(cpu) ELSE msr
                        /\ expect.xcr0 = IF reason = "xsetbv" THEN ToWrite(cpu) ELSE xcr0
    /\ pc = "init" => /\ Saved
                      /\ \A r \in Regs \ Xmm : E[r] = Reset[r]
                      /\ E["xmm"] = registers["xmm"]
    /\ pc = "sipi" => HeldForSipi
    /\ pc = "native" => \A r \in InRegisters \ StaleAfterInit : cpu[r] = E[r]

MsrInv == pc \notin {"handle", "panic"} => msr = expect.msr /\ xcr0 = expect.xcr0

(* INIT and SIPI: the bootstrap processor gets neither.                    *)
WaitInv ==
    /\ activity = "wait_for_sipi" \/ pc \in {"init", "sipi"} => ~bsp
    /\ pc \in {"handle", "init", "native"} => activity = "active"
    /\ pc = "sipi" => activity = "wait_for_sipi"
    /\ vector # NoVector => pc = "sipi"

Inv == TypeOK /\ RipInv /\ HeldInv /\ MsrInv /\ WaitInv

-----------------------------------------------------------------------------
(* Values: two halves of one word.                                         *)

LEMMA HalfFacts == Half \in Nat /\ Half > 8 /\ Half * Half \in Nat /\ Half * Half > Half + 8
<1>1. Half \in Nat /\ Half > 8
  BY ValueAssumption
<1>2. \E k \in Nat : Half = k + 9
  <2>1. Half - 9 \in Nat /\ Half = (Half - 9) + 9
    BY <1>1
  <2> QED
    BY <2>1
<1> PICK k \in Nat : Half = k + 9
  BY <1>2
<1>3. (k + 9) * (k + 9) = k * k + 18 * k + 81 /\ k * k \in Nat
  BY SMT
<1>4. k * k + 18 * k + 81 > k + 9 + 8
  BY <1>3
<1> QED
  BY <1>1, <1>3, <1>4

LEMMA SmallValues == \A v \in Nat : v <= Half + 8 => v \in Values
BY HalfFacts DEF Values

LEMMA LowRange == \A v \in Values : Low(v) \in 0 .. (Half - 1) /\ Low(v) \in Values
<1>1. \A v \in Values : v \in Nat
  BY HalfFacts DEF Values
<1>2. \A v \in Nat : v % Half \in 0 .. (Half - 1)
  BY HalfFacts
<1> QED
  BY <1>1, <1>2, HalfFacts, SmallValues DEF Low

LEMMA PairRange == \A a, b \in Values : Pair(a, b) \in Values
<1> SUFFICES ASSUME NEW a \in Values, NEW b \in Values PROVE Pair(a, b) \in Values
  OBVIOUS
<1>1. PICK h \in 0 .. (Half - 1), l \in 0 .. (Half - 1) : h = Low(a) /\ l = Low(b)
  BY LowRange
<1>2. \E k \in Nat : Half = h + 1 + k
  <2>1. Half - 1 - h \in Nat /\ Half = h + 1 + (Half - 1 - h)
    BY HalfFacts
  <2> QED
    BY <2>1
<1> PICK k \in Nat : Half = h + 1 + k
  BY <1>2
<1>3. (h + 1 + k) * Half = h * Half + Half + k * Half /\ h * Half \in Nat /\ k * Half \in Nat
  BY HalfFacts, SMT
<1>4. h * Half + l \in Nat /\ h * Half + l < h * Half + Half
  BY <1>3, HalfFacts
<1>5. h * Half + l < Half * Half
  BY <1>3, <1>4, HalfFacts
<1> QED
  BY <1>1, <1>4, <1>5, HalfFacts DEF Pair, Values

LEMMA DivRange == \A v \in Values : v \div Half \in Values
<1> SUFFICES ASSUME NEW v \in Values PROVE v \div Half \in Values
  OBVIOUS
<1>1. v \in Nat /\ v <= Half * Half - 1
  BY HalfFacts DEF Values
<1> DEFINE q == v \div Half
           l == v % Half
<1>2. Half \in Nat /\ Half > 0
  BY HalfFacts
<1>3. q \in Nat /\ l \in Nat /\ v = q * Half + l
  BY <1>1, <1>2, SMT
<1> HIDE DEF q, l
<1>4. \A h \in Nat : h > 0 => q <= q * h
  <2>1. \A h \in Nat : h > 0 => \E g \in Nat : h = g + 1
    <3>1. \A h \in Nat : h > 0 => h - 1 \in Nat /\ h = (h - 1) + 1
      OBVIOUS
    <3> QED
      BY <3>1
  <2>2. \A g \in Nat : q * (g + 1) = q * g + q /\ q * g \in Nat
    BY <1>3, SMT
  <2> QED
    BY <1>3, <2>1, <2>2
<1>5. q <= q * Half /\ q * Half \in Nat
  BY <1>2, <1>3, <1>4, SMT
<1>6. q <= v
  BY <1>1, <1>3, <1>5
<1> QED
  BY <1>1, <1>3, <1>6, HalfFacts DEF Values, q

LEMMA CpuidRange ==
    \A leaf, r : r \in {"rax", "rbx", "rcx", "rdx"} => Cpuid(leaf, r) \in Values
<1>1. \A leaf, r : r \in {"rax", "rbx", "rcx", "rdx"} => Cpuid(leaf, r) \in 0 .. 8
  BY DEF Cpuid
<1> QED
  BY <1>1, SmallValues, HalfFacts

LEMMA ToWriteRange ==
    ASSUME NEW S, "rax" \in S, "rdx" \in S, NEW f \in [S -> Values]
    PROVE  ToWrite(f) \in Values
BY PairRange DEF ToWrite

LEMMA UnknownCallRange == UnknownCall \in Values
BY HalfFacts DEF UnknownCall, Values

(* Result, register by register.                                           *)
LEMMA ResultFacts ==
    ASSUME NEW S, {"rax", "rbx", "rcx", "rdx", "rip"} \subseteq S,
           NEW f \in [S -> Values], NEW i, NEW m
    PROVE  /\ DOMAIN Result(i, f, m) = S /\ Result(i, f, m) = [r \in S |-> Result(i, f, m)[r]]
           /\ \A r \in S : Result(i, f, m)[r] = NextValue(i, f, m, r)
<1>1. CASE i = "cpuid"
  BY <1>1 DEF Result, NextValue, Advance, InstructionLength
<1>2. CASE i = "rdmsr"
  BY <1>2 DEF Result, NextValue, Advance, InstructionLength
<1>3. CASE i = "vmcall"
  BY <1>3 DEF Result, NextValue, Advance, InstructionLength
<1>4. CASE i \notin {"cpuid", "rdmsr", "vmcall"}
  BY <1>4 DEF Result, NextValue, Advance, InstructionLength
<1> QED
  BY <1>1, <1>2, <1>3, <1>4

LEMMA NextValueRange ==
    ASSUME NEW S, {"rax", "rbx", "rcx", "rdx", "rip"} \subseteq S,
           NEW f \in [S -> Values], NEW i, NEW m \in Values, f["rip"] <= Half + 7, NEW r \in S
    PROVE  NextValue(i, f, m, r) \in Values
<1>1. f["rip"] \in Nat /\ f["rip"] + 1 \in Values
  BY SmallValues, HalfFacts DEF Values
<1>2. Low(m) \in Values /\ m \div Half \in Values /\ f[r] \in Values
  BY LowRange, DivRange
<1> QED
  BY <1>1, <1>2, CpuidRange, UnknownCallRange DEF NextValue

-----------------------------------------------------------------------------
(* Registers, and moving them.                                             *)

LEMMA RegisterSets ==
    /\ Regs = InRegisters \cup Sys /\ InRegisters \cap Sys = {}
    /\ InVmcs = Sys \cup Copied /\ InVmcs \subseteq Regs
    /\ Copied \subseteq InRegisters
    /\ {"rax", "rbx", "rcx", "rdx", "rip", "xmm"} \subseteq InRegisters
    /\ {"rip", "rsp", "rflags"} \subseteq Copied /\ {"cs", "ss"} \subseteq Sys
    /\ Xmm \subseteq InRegisters /\ Xmm = {"xmm"} /\ "xmm" \notin InVmcs
    /\ Gpr \subseteq InRegisters
    /\ InRegisters = Gpr \cup Xmm \cup {"rip", "rsp", "rflags"}
    /\ "rip" \notin Gpr \cup Xmm /\ "rip" \notin {"cs", "ss"}
    /\ Gpr \cap (Xmm \cup Frame \cup Sys) = {}
BY DEF Regs, InRegisters, Sys, InVmcs, Copied, VmxCopied, SvmCopied, Gpr, Xmm, Frame

LEMMA Types ==
    ASSUME Inv
    PROVE  /\ vendor \in {"intel", "amd"} /\ bsp \in BOOLEAN
           /\ cpu \in [Regs -> Values] /\ registers \in [InRegisters -> Values]
           /\ vmcs \in [InVmcs -> Values] /\ cached \in [InVmcs -> Values]
           /\ E \in [Regs -> Values] /\ msr \in Values /\ xcr0 \in Values
           /\ expect \in [cpu : [Regs -> Values], msr : Values, xcr0 : Values]
           /\ exits \in Nat /\ exits <= MaxExits /\ exits + ResetRip <= Half + 3
BY ValueAssumption DEF Inv, TypeOK, E, ResetRip

LEMMA TakeFacts ==
    ASSUME NEW S, NEW f \in [S -> Values], NEW U, NEW g, \A r \in S \cap U : g[r] \in Values
    PROVE  /\ Take(f, U, g) \in [S -> Values]
           /\ \A r \in S : Take(f, U, g)[r] = IF r \in U THEN g[r] ELSE f[r]
BY DEF Take

(* What the state of a machine does not depend on.                         *)
LEMMA Fixed ==
    ASSUME UNCHANGED machine
    PROVE  UNCHANGED <<vendor, bsp, Copied, InVmcs, Instructions, StaleAfterInit>>
BY DEF machine, Copied, InVmcs, Instructions, StaleAfterInit

LEMMA InitInv == Init => Inv
<1> SUFFICES ASSUME Init PROVE Inv
  OBVIOUS
<1>1. 0 \in Values /\ 1 \in Values
  BY SmallValues, HalfFacts
<1>2. /\ cpu \in [Regs -> Values] /\ registers \in [InRegisters -> Values]
      /\ vmcs \in [InVmcs -> Values] /\ cached \in [InVmcs -> Values]
      /\ expect \in [cpu : [Regs -> Values], msr : Values, xcr0 : Values]
      /\ E = [r \in Regs |-> 0] /\ expect.msr = 0 /\ expect.xcr0 = 1
  BY <1>1 DEF Init, E
<1>3. TypeOK
  <2>1. 0 \in 0 .. MaxWrites /\ 0 \in 0 .. MaxExits
    BY ValueAssumption
  <2> QED
    BY <1>1, <1>2, <2>1 DEF Init, TypeOK
<1>4. RipInv
  BY <1>2, RegisterSets DEF Init, RipInv, ResetRip
<1>5. HeldInv /\ MsrInv /\ WaitInv
  BY <1>2, RegisterSets DEF Init, HeldInv, HeldByHost, MsrInv, WaitInv
<1> QED
  BY <1>3, <1>4, <1>5 DEF Inv

-----------------------------------------------------------------------------
(* Into the guest.                                                         *)

LEMMA RunInv == Inv /\ run => Inv'
<1> SUFFICES ASSUME Inv, run PROVE Inv'
  OBVIOUS
<1> USE RegisterSets, Types
<1>1. /\ pc = "run" /\ pc' = "entry"
      /\ UNCHANGED <<machine, cpu, registers, cached, clean, launched, activity, msr, xcr0, reason,
                     vector, expect, started, writes, exits, E>>
  BY DEF run, E
<1>2. UNCHANGED <<vendor, bsp, Copied, InVmcs, Instructions, StaleAfterInit>>
  BY <1>1, Fixed
<1>3. /\ vmcs' \in [InVmcs -> Values]
      /\ \A r \in InVmcs : vmcs'[r] = IF r \in Copied THEN registers[r] ELSE vmcs[r]
  BY TakeFacts DEF run
<1>4. TypeOK'
  BY <1>1, <1>2, <1>3 DEF Inv, TypeOK
<1>5. RipInv'
  BY <1>1, <1>3 DEF Inv, RipInv
<1>6. HeldByHost' /\ \A r \in Copied : vmcs'[r] = registers'[r]
  BY <1>1, <1>2, <1>3 DEF Inv, HeldInv, HeldByHost
<1>7. HeldInv'
  BY <1>1, <1>2, <1>6 DEF HeldInv
<1>8. MsrInv' /\ WaitInv'
  BY <1>1, <1>2 DEF Inv, MsrInv, WaitInv
<1> QED
  BY <1>4, <1>5, <1>7, <1>8 DEF Inv

(* What enters the guest is what it expects, from wherever it is loaded.   *)
LEMMA EnterInv ==
    ASSUME Inv, NEW state \in [InVmcs -> Values], Enter(state), launched' \in BOOLEAN,
           \A r \in Copied : state[r] = registers[r],
           \A r \in Sys \ StaleAfterInit : state[r] = E[r]
    PROVE  Inv'
<1> USE RegisterSets, Types
<1>1. /\ pc = "entry" /\ pc' = "guest"
      /\ UNCHANGED <<machine, registers, vmcs, cached, clean, activity, msr, xcr0, reason, vector,
                     expect, started, writes, exits, E>>
  BY DEF Enter, E
<1>2. UNCHANGED <<vendor, bsp, Copied, InVmcs, Instructions, StaleAfterInit>>
  BY <1>1, Fixed
<1>3. /\ cpu' \in [Regs -> Values]
      /\ \A r \in Regs : cpu'[r] = IF r \in InVmcs THEN state[r] ELSE registers[r]
  BY DEF Enter
<1>4. TypeOK'
  BY <1>1, <1>2, <1>3 DEF Inv, TypeOK
<1>5. RipInv'
  BY <1>1, <1>3 DEF Inv, RipInv
<1>6. \A r \in Regs \ StaleAfterInit : cpu'[r] = E[r]
  BY <1>1, <1>3 DEF Inv, HeldInv, HeldByHost
<1>7. HeldInv'
  BY <1>1, <1>2, <1>6 DEF HeldInv
<1>8. MsrInv' /\ WaitInv'
  BY <1>1, <1>2 DEF Inv, MsrInv, WaitInv
<1> QED
  BY <1>4, <1>5, <1>7, <1>8 DEF Inv

LEMMA RunVmxInv == Inv /\ run_vmx_guest => Inv'
<1> SUFFICES ASSUME Inv, run_vmx_guest PROVE Inv'
  OBVIOUS
<1>1. Enter(vmcs) /\ launched' \in BOOLEAN /\ pc = "entry"
  BY DEF run_vmx_guest, Enter
<1>2. /\ vmcs \in [InVmcs -> Values]
      /\ \A r \in Copied : vmcs[r] = registers[r]
      /\ \A r \in Sys \ StaleAfterInit : vmcs[r] = E[r]
  BY <1>1, Types DEF Inv, HeldInv, HeldByHost
<1> QED
  BY <1>1, <1>2, EnterInv

LEMMA RunSvmInv == Inv /\ run_svm_guest => Inv'
<1> SUFFICES ASSUME Inv, run_svm_guest PROVE Inv'
  OBVIOUS
<1> DEFINE state == IF clean THEN Take(vmcs, Sys, cached) ELSE vmcs
<1>1. vendor = "amd" /\ Enter(state) /\ launched' \in BOOLEAN /\ pc = "entry"
  BY DEF run_svm_guest, Enter, Inv, TypeOK
<1>2. /\ state \in [InVmcs -> Values]
      /\ \A r \in InVmcs : state[r] = IF clean /\ r \in Sys THEN cached[r] ELSE vmcs[r]
  <2>1. \A r \in InVmcs \cap Sys : cached[r] \in Values
    BY Types
  <2> QED
    BY <2>1, TakeFacts, Types
<1>3. /\ \A r \in Copied : state[r] = registers[r]
      /\ \A r \in Sys \ StaleAfterInit : state[r] = E[r]
  BY <1>1, <1>2, RegisterSets DEF Inv, HeldInv, HeldByHost
<1> HIDE DEF state
<1> QED
  BY <1>1, <1>2, <1>3, EnterInv

LEMMA GuestWritesInv ==
    ASSUME Inv, NEW r \in Regs, NEW high \in BOOLEAN, GuestWrites(r, high)
    PROVE  Inv'
<1> USE RegisterSets, Types
<1> DEFINE v == Pair(IF high THEN writes + 1 ELSE 0, writes + 1)
<1>1. v \in Values
  <2>1. 0 \in Values /\ writes + 1 \in Values
    BY SmallValues, HalfFacts, ValueAssumption DEF GuestWrites, Inv, TypeOK
  <2> QED
    BY <2>1, PairRange
<1>2. /\ pc = "guest" /\ r # "rip" /\ writes < MaxWrites /\ writes' = writes + 1
      /\ cpu' = [cpu EXCEPT ![r] = v] /\ expect' = [expect EXCEPT !.cpu[r] = v]
      /\ UNCHANGED <<machine, pc, registers, vmcs, cached, clean, launched, activity, msr, xcr0,
                     reason, vector, started, exits>>
  BY DEF GuestWrites
<1> HIDE DEF v
<1>3. UNCHANGED <<vendor, bsp, Copied, InVmcs, Instructions, StaleAfterInit>>
  BY <1>2, Fixed
<1>4. /\ cpu' \in [Regs -> Values] /\ E' \in [Regs -> Values]
      /\ expect' \in [cpu : [Regs -> Values], msr : Values, xcr0 : Values]
      /\ \A q \in Regs : cpu'[q] = (IF q = r THEN v ELSE cpu[q]) /\ E'[q] = IF q = r THEN v ELSE E[q]
      /\ expect'.msr = expect.msr /\ expect'.xcr0 = expect.xcr0
  <2>1. expect' = [expect EXCEPT !.cpu = [E EXCEPT ![r] = v]]
    BY <1>2 DEF E
  <2>2. [E EXCEPT ![r] = v] \in [Regs -> Values]
    BY <1>1
  <2>3. /\ E' = [E EXCEPT ![r] = v] /\ expect'.msr = expect.msr /\ expect'.xcr0 = expect.xcr0
        /\ expect' \in [cpu : [Regs -> Values], msr : Values, xcr0 : Values]
    BY <2>1, <2>2 DEF E
  <2> QED
    BY <1>1, <1>2, <2>2, <2>3
<1>5. writes' \in 0 .. MaxWrites
  BY <1>2, ValueAssumption DEF Inv, TypeOK
<1>6. TypeOK'
  BY <1>2, <1>3, <1>4, <1>5 DEF Inv, TypeOK
<1>7. RipInv'
  BY <1>2, <1>4 DEF Inv, RipInv
<1>8. HeldInv'
  BY <1>2, <1>3, <1>4 DEF Inv, HeldInv
<1>9. MsrInv' /\ WaitInv'
  BY <1>2, <1>3, <1>4 DEF Inv, MsrInv, WaitInv
<1> QED
  BY <1>6, <1>7, <1>8, <1>9 DEF Inv

-----------------------------------------------------------------------------
(* Out of the guest.                                                       *)

LEMMA LeaveFacts ==
    ASSUME Inv, NEW why, Leave(why), UNCHANGED <<machine, cpu>>
    PROVE  /\ vmcs' \in [InVmcs -> Values] /\ cached' \in [InVmcs -> Values]
           /\ registers' \in [InRegisters -> Values]
           /\ \A r \in InRegisters : registers'[r] = cpu[r]
           /\ \A r \in InVmcs : vmcs'[r] = cpu[r] /\ cached'[r] = cpu[r]
           /\ Saved' /\ clean' \in BOOLEAN /\ reason' = why
           /\ exits' = exits + 1 /\ exits' \in 0 .. MaxExits
<1> USE RegisterSets, Types
<1>1. InVmcs' = InVmcs
  BY Fixed
<1>2. \A r \in Regs : cpu[r] \in Values
  OBVIOUS
<1>3. /\ vmcs' \in [InVmcs -> Values] /\ cached' \in [InVmcs -> Values]
      /\ registers' \in [InRegisters -> Values]
      /\ \A r \in InRegisters : registers'[r] = cpu[r]
      /\ \A r \in InVmcs : vmcs'[r] = cpu[r] /\ cached'[r] = cpu[r]
  BY <1>2, TakeFacts DEF Leave
<1>4. clean' \in BOOLEAN /\ reason' = why /\ exits' = exits + 1 /\ exits' \in 0 .. MaxExits
  BY ValueAssumption DEF Leave
<1> QED
  BY <1>1, <1>3, <1>4 DEF Saved

LEMMA ExecutesInv ==
    ASSUME Inv, NEW i \in Instructions, Executes(i)
    PROVE  Inv'
<1> USE RegisterSets, Types
<1>1. /\ pc = "guest" /\ pc' = "handle" /\ activity = "active" /\ Leave(i)
      /\ UNCHANGED <<machine, cpu, launched, activity, msr, xcr0, vector, started, writes>>
  BY DEF Executes
<1>2. UNCHANGED <<vendor, bsp, Copied, InVmcs, Instructions, StaleAfterInit>>
  BY <1>1, Fixed
<1>3. /\ E' = Result(i, cpu, msr)
      /\ expect'.msr = IF i = "wrmsr" THEN ToWrite(cpu) ELSE expect.msr
      /\ expect'.xcr0 = IF i = "xsetbv" THEN ToWrite(cpu) ELSE expect.xcr0
      /\ expect' = [cpu |-> E', msr |-> expect'.msr, xcr0 |-> expect'.xcr0]
  BY DEF Executes, E
<1>4. cpu["rip"] \in Nat /\ cpu["rip"] <= exits + ResetRip /\ cpu["rip"] <= Half + 7
  <2>1. cpu["rip"] \in Nat
    BY HalfFacts DEF Values
  <2>2. cpu["rip"] <= exits + ResetRip
    BY DEF Inv, RipInv
  <2>3. \A a \in Nat : a <= exits + ResetRip => a <= Half + 7
    BY HalfFacts DEF ResetRip
  <2> QED
    BY <2>1, <2>2, <2>3
<1>5. \A r \in Regs : E'[r] = NextValue(i, cpu, msr, r) /\ E'[r] \in Values
  BY <1>3, <1>4, ResultFacts, NextValueRange
<1>6. E' \in [Regs -> Values]
  <2>1. E' = [r \in Regs |-> E'[r]]
    BY <1>3, ResultFacts, SMTT(60)
  <2> QED
    BY <1>5, <2>1
<1>7. ToWrite(cpu) \in Values
  BY ToWriteRange
<1>8. expect' \in [cpu : [Regs -> Values], msr : Values, xcr0 : Values]
  BY <1>3, <1>6, <1>7
<1>9. TypeOK'
  BY <1>1, <1>2, <1>8, LeaveFacts DEF Inv, TypeOK
<1>10. RipInv'
  <2>1. E'["rip"] = cpu["rip"] + 1
    BY <1>5 DEF NextValue
  <2>2. registers'["rip"] = cpu["rip"] /\ vmcs'["rip"] = cpu["rip"] /\ exits' = exits + 1
    BY <1>1, LeaveFacts
  <2> QED
    BY <1>1, <1>4, <2>1, <2>2 DEF RipInv, ResetRip
<1>11. msr = expect.msr /\ xcr0 = expect.xcr0
  BY <1>1 DEF Inv, MsrInv
<1>12. HeldInv'
  BY <1>1, <1>2, <1>3, <1>5, <1>11, LeaveFacts DEF HeldInv
<1>13. MsrInv' /\ WaitInv'
  BY <1>1, <1>2 DEF Inv, MsrInv, WaitInv
<1> QED
  BY <1>9, <1>10, <1>12, <1>13 DEF Inv

LEMMA UnhandledInv == Inv /\ Unhandled => Inv'
<1> SUFFICES ASSUME Inv, Unhandled PROVE Inv'
  OBVIOUS
<1> USE RegisterSets, Types
<1>1. /\ pc = "guest" /\ pc' = "panic" /\ activity = "active" /\ Leave("unhandled")
      /\ UNCHANGED <<machine, cpu, launched, activity, msr, xcr0, vector, expect, started, writes, E>>
  BY DEF Unhandled, E
<1>2. UNCHANGED <<vendor, bsp, Copied, InVmcs, Instructions, StaleAfterInit>>
  BY <1>1, Fixed
<1>3. TypeOK'
  BY <1>1, <1>2, LeaveFacts DEF Inv, TypeOK
<1>4. RipInv'
  <2>1. registers'["rip"] = cpu["rip"] /\ vmcs'["rip"] = cpu["rip"] /\ exits' = exits + 1
    BY <1>1, LeaveFacts
  <2>2. cpu["rip"] \in Nat /\ E["rip"] \in Nat
    BY HalfFacts DEF Values
  <2> QED
    BY <1>1, <2>1, <2>2 DEF Inv, RipInv, ResetRip
<1>5. HeldInv' /\ MsrInv' /\ WaitInv'
  BY <1>1, <1>2 DEF Inv, HeldInv, MsrInv, WaitInv
<1> QED
  BY <1>3, <1>4, <1>5 DEF Inv

LEMMA ResetFacts ==
    /\ Reset \in [Regs -> Values] /\ Reset["rip"] = ResetRip
<1>1. ResetRip \in Values /\ ResetCs \in Values /\ ResetFlags \in Values /\ ModelId \in Values /\ 0 \in Values
  BY SmallValues, HalfFacts DEF ResetRip, ResetCs, ResetFlags, ModelId
<1> QED
  BY <1>1, RegisterSets DEF Reset

LEMMA ResetOfFacts ==
    ASSUME NEW f \in [Regs -> Values]
    PROVE  /\ ResetOf(f) \in [Regs -> Values]
           /\ \A r \in Regs \ Xmm : ResetOf(f)[r] = Reset[r]
           /\ ResetOf(f)["xmm"] = f["xmm"]
<1>1. \A r \in Regs \cap (Regs \ Xmm) : Reset[r] \in Values
  BY ResetFacts
<1>2. /\ Take(f, Regs \ Xmm, Reset) \in [Regs -> Values]
      /\ \A r \in Regs : Take(f, Regs \ Xmm, Reset)[r] = IF r \in Regs \ Xmm THEN Reset[r] ELSE f[r]
  BY <1>1, TakeFacts
<1> QED
  BY <1>2, RegisterSets DEF ResetOf

(* The architecture's INIT of the guest, which exits with its registers.   *)
LEMMA InitArrivesInv == Inv /\ InitArrives => Inv'
<1> SUFFICES ASSUME Inv, InitArrives PROVE Inv'
  OBVIOUS
<1> USE RegisterSets, Types
<1>1. /\ pc = "guest" /\ pc' = "init" /\ activity = "active" /\ ~bsp /\ Leave("init")
      /\ UNCHANGED <<machine, cpu, launched, activity, msr, xcr0, vector, started, writes>>
  BY DEF InitArrives
<1>2. UNCHANGED <<vendor, bsp, Copied, InVmcs, Instructions, StaleAfterInit>>
  BY <1>1, Fixed
<1>3. /\ ResetOf(E) \in [Regs -> Values]
      /\ \A r \in Regs \ Xmm : ResetOf(E)[r] = Reset[r]
      /\ ResetOf(E)["xmm"] = E["xmm"]
  BY ResetOfFacts
<1>4. /\ E' = ResetOf(E) /\ expect'.msr = expect.msr /\ expect'.xcr0 = expect.xcr0
      /\ expect' \in [cpu : [Regs -> Values], msr : Values, xcr0 : Values]
  <2>1. expect' = [expect EXCEPT !.cpu = ResetOf(E)]
    BY DEF InitArrives, E
  <2> QED
    BY <1>3, <2>1 DEF E
<1>5. TypeOK'
  BY <1>1, <1>2, <1>4, LeaveFacts DEF Inv, TypeOK
<1>6. RipInv'
  <2>1. registers'["rip"] = cpu["rip"] /\ vmcs'["rip"] = cpu["rip"] /\ exits' = exits + 1
    BY <1>1, LeaveFacts
  <2>2. cpu["rip"] \in Nat /\ E'["rip"] = ResetRip
    BY <1>3, <1>4, ResetFacts, HalfFacts DEF Values
  <2> QED
    BY <1>1, <2>1, <2>2 DEF Inv, RipInv, ResetRip
<1>7. E["xmm"] = cpu["xmm"]
  BY <1>1 DEF Inv, HeldInv, StaleAfterInit
<1>8. E'["xmm"] = registers'["xmm"] /\ \A r \in Regs \ Xmm : E'[r] = Reset[r]
  BY <1>1, <1>3, <1>4, <1>7, LeaveFacts
<1>9. HeldInv'
  BY <1>1, <1>2, <1>8, LeaveFacts DEF HeldInv, Reset
<1>10. MsrInv' /\ WaitInv'
  BY <1>1, <1>2, <1>4 DEF Inv, MsrInv, WaitInv
<1> QED
  BY <1>5, <1>6, <1>9, <1>10 DEF Inv

LEMMA StartFacts ==
    ASSUME NEW S, "rip" \in S, "cs" \in S, NEW f \in [S -> Values], NEW v \in Vectors
    PROVE  /\ v \in Values /\ Start(f, v) \in [S -> Values]
           /\ Start(f, v)["rip"] = 0 /\ Start(f, v)["cs"] = v
           /\ \A r \in S \ {"rip", "cs"} : Start(f, v)[r] = f[r]
<1>1. 0 \in Values /\ v \in Values
  BY SmallValues, HalfFacts, ValueAssumption
<1> QED
  BY <1>1 DEF Start

LEMMA StartedFacts ==
    ASSUME NEW f \in [Regs -> Values], NEW v \in Vectors
    PROVE  /\ Start(f, v) \in [Regs -> Values]
           /\ Start(f, v)["rip"] = 0 /\ Start(f, v)["cs"] = v
           /\ \A r \in Regs \ {"rip", "cs"} : Start(f, v)[r] = f[r]
<1>1. "rip" \in Regs /\ "cs" \in Regs
  BY RegisterSets
<1> QED
  BY <1>1, StartFacts

(* The guest waits in the processor on Intel, in the hypervisor on AMD.    *)
LEMMA SipiArrivesInv ==
    ASSUME Inv, NEW v \in Vectors, SipiArrives(v)
    PROVE  Inv'
<1> USE RegisterSets, Types
<1>1. /\ activity = "wait_for_sipi" /\ vector = NoVector /\ vector' = v
      /\ UNCHANGED <<machine, cpu, launched, activity, msr, xcr0, started, writes>>
  BY DEF SipiArrives
<1>2. UNCHANGED <<vendor, bsp, Copied, InVmcs, Instructions, StaleAfterInit>>
  BY <1>1, Fixed
<1>3. /\ E' = Start(E, v) /\ expect'.msr = expect.msr /\ expect'.xcr0 = expect.xcr0
      /\ E' \in [Regs -> Values]
      /\ expect' \in [cpu : [Regs -> Values], msr : Values, xcr0 : Values]
  <2>1. expect' = [expect EXCEPT !.cpu = Start(E, v)]
    BY DEF SipiArrives, E
  <2>2. Start(E, v) \in [Regs -> Values]
    BY StartedFacts
  <2> QED
    BY <2>1, <2>2 DEF E
<1>4. E'["rip"] = 0 /\ E'["cs"] = v /\ \A r \in Regs \ {"rip", "cs"} : E'[r] = E[r]
  <2>1. E \in [Regs -> Values]
    OBVIOUS
  <2> HIDE RegisterSets, Types
  <2>2. /\ Start(E, v)["rip"] = 0 /\ Start(E, v)["cs"] = v
        /\ \A r \in Regs \ {"rip", "cs"} : Start(E, v)[r] = E[r]
    BY <2>1, StartedFacts
  <2> QED
    BY <1>3, <2>2
<1>5. CASE vendor = "intel"
  <2>1. pc = "guest" /\ pc' = "sipi" /\ Leave("sipi")
    BY <1>5 DEF SipiArrives
  <2>2. TypeOK'
    BY <1>1, <1>2, <1>3, <2>1, LeaveFacts DEF Inv, TypeOK
  <2>3. RipInv'
    <3>1. registers'["rip"] = cpu["rip"] /\ vmcs'["rip"] = cpu["rip"] /\ exits' = exits + 1
      BY <1>1, <2>1, LeaveFacts
    <3>2. cpu["rip"] \in Nat
      BY HalfFacts DEF Values
    <3> QED
      BY <1>1, <1>4, <2>1, <3>1, <3>2 DEF Inv, RipInv, ResetRip
  <2>4. \A r \in Regs : cpu[r] = E[r]
    BY <1>5, <2>1 DEF Inv, HeldInv, StaleAfterInit
  <2>5. HeldForSipi'
    BY <1>1, <1>2, <1>4, <1>5, <2>1, <2>4, LeaveFacts DEF HeldForSipi
  <2>6. HeldInv'
    BY <2>1, <2>5 DEF HeldInv
  <2>7. MsrInv' /\ WaitInv'
    BY <1>1, <1>2, <1>3, <2>1 DEF Inv, MsrInv, WaitInv
  <2> QED
    BY <2>2, <2>3, <2>6, <2>7 DEF Inv
<1>6. CASE vendor = "amd"
  <2>1. pc = "sipi" /\ UNCHANGED <<pc, exits, reason, vmcs, cached, registers, clean>>
    BY <1>6 DEF SipiArrives
  <2>2. TypeOK'
    BY <1>1, <1>2, <1>3, <2>1 DEF Inv, TypeOK
  <2>3. RipInv'
    BY <1>1, <1>4, <2>1 DEF Inv, RipInv, ResetRip
  <2>4. HeldForSipi'
    BY <1>1, <1>2, <1>4, <2>1 DEF Inv, HeldInv, HeldForSipi
  <2>5. HeldInv'
    BY <2>1, <2>4 DEF HeldInv
  <2>6. MsrInv' /\ WaitInv'
    BY <1>1, <1>2, <1>3, <2>1 DEF Inv, MsrInv, WaitInv
  <2> QED
    BY <2>2, <2>3, <2>5, <2>6 DEF Inv
<1> QED
  BY <1>5, <1>6

-----------------------------------------------------------------------------
(* The handlers.                                                           *)

LEMMA HandledFacts ==
    ASSUME Inv, pc = "handle"
    PROVE  /\ registers["rip"] \in Nat /\ registers["rip"] + 1 <= exits + ResetRip
           /\ \A r \in InRegisters : registers[r] = cpu[r]
           /\ \A r \in InRegisters : /\ NextValue(reason, registers, msr, r) \in Values
                                     /\ NextValue(reason, registers, msr, r) = E[r]
<1> USE RegisterSets, Types
<1>1. registers["rip"] \in Nat /\ registers["rip"] + 1 <= exits + ResetRip
  <2>1. registers["rip"] \in Nat
    BY HalfFacts DEF Values
  <2> QED
    BY <2>1 DEF Inv, RipInv, ResetRip
<1>2. registers["rip"] <= Half + 7
  BY <1>1, HalfFacts DEF ResetRip
<1>3. \A r \in InRegisters : NextValue(reason, registers, msr, r) \in Values
  <2>1. {"rax", "rbx", "rcx", "rdx", "rip"} \subseteq InRegisters
    OBVIOUS
  <2> QED
    BY <1>2, <2>1, NextValueRange
<1>4. \A r \in InRegisters : registers[r] = cpu[r]
  BY DEF Inv, HeldInv, Saved
<1>5. \A r \in InRegisters : NextValue(reason, registers, msr, r) = NextValue(reason, cpu, msr, r)
  BY <1>4 DEF NextValue
<1>6. \A r \in Regs : E[r] = NextValue(reason, cpu, msr, r)
  BY DEF Inv, HeldInv
<1> QED
  BY <1>1, <1>3, <1>4, <1>5, <1>6

(* A handler that does to struct Registers what the instruction is to do.  *)
LEMMA HandlerInv ==
    ASSUME Inv, pc = "handle", NEW f, Handled(f),
           f = [r \in InRegisters |-> f[r]],
           \A r \in InRegisters : f[r] = NextValue(reason, registers, msr, r),
           msr' = expect.msr, xcr0' = expect.xcr0
    PROVE  Inv'
<1> USE RegisterSets, Types
<1>1. /\ registers' = f /\ pc' = "run" /\ reason' = "none"
      /\ UNCHANGED <<machine, cpu, vmcs, cached, clean, launched, activity, vector, expect, started,
                     writes, exits, E>>
  BY DEF Handled, E
<1>2. UNCHANGED <<vendor, bsp, Copied, InVmcs, Instructions, StaleAfterInit>>
  BY <1>1, Fixed
<1>3. registers' \in [InRegisters -> Values]
  <2>1. \A r \in InRegisters : f[r] \in Values
    BY HandledFacts
  <2> QED
    BY <1>1, <2>1
<1>4. msr' \in Values /\ xcr0' \in Values
  OBVIOUS
<1>5. TypeOK'
  BY <1>1, <1>2, <1>3, <1>4 DEF Inv, TypeOK
<1>6. RipInv'
  <2>1. registers'["rip"] = registers["rip"] + 1
    BY <1>1 DEF NextValue
  <2> QED
    BY <1>1, <2>1, HandledFacts DEF Inv, RipInv
<1>7. \A r \in InRegisters : registers'[r] = E[r]
  BY <1>1, HandledFacts
<1>8. \A r \in Sys : vmcs[r] = E[r] /\ cached[r] = E[r]
  <2>1. \A r \in Sys : NextValue(reason, cpu, msr, r) = cpu[r]
    BY DEF NextValue
  <2> QED
    BY <2>1 DEF Inv, HeldInv, Saved
<1>9. HeldInv'
  BY <1>1, <1>2, <1>7, <1>8 DEF HeldInv, HeldByHost
<1>10. MsrInv' /\ WaitInv'
  BY <1>1, <1>2 DEF Inv, MsrInv, WaitInv
<1> QED
  BY <1>5, <1>6, <1>9, <1>10 DEF Inv

LEMMA AdvanceFacts ==
    ASSUME NEW S, "rip" \in S, NEW f \in [S -> Values]
    PROVE  /\ Advance(f) = [r \in S |-> Advance(f)[r]] /\ DOMAIN Advance(f) = S
           /\ \A r \in S : Advance(f)[r] = IF r = "rip" THEN f["rip"] + 1 ELSE f[r]
BY DEF Advance, InstructionLength

LEMMA InstructionHandlersInv ==
    ASSUME Inv,
           \/ handle_cpuid \/ handle_rdmsr \/ handle_wrmsr \/ handle_xsetbv
           \/ handle_vmcall \/ handle_nested_page_fault
    PROVE  Inv'
<1> USE RegisterSets, Types
<1>1. pc = "handle" /\ reason \in Instructions
  BY DEF handle_cpuid, handle_rdmsr, handle_wrmsr, handle_xsetbv, handle_vmcall,
         handle_nested_page_fault, Inv, HeldInv
<1>2. /\ expect.msr = IF reason = "wrmsr" THEN ToWrite(cpu) ELSE msr
      /\ expect.xcr0 = IF reason = "xsetbv" THEN ToWrite(cpu) ELSE xcr0
      /\ ToWrite(registers) = ToWrite(cpu)
  BY <1>1 DEF Inv, HeldInv, Saved, ToWrite
<1>3. /\ Advance(registers) = [r \in InRegisters |-> Advance(registers)[r]]
      /\ DOMAIN Advance(registers) = InRegisters
      /\ \A r \in InRegisters :
            Advance(registers)[r] = IF r = "rip" THEN registers["rip"] + 1 ELSE registers[r]
  BY AdvanceFacts, SMTT(60)
<1> DEFINE g == Advance(registers)
<1>4. CASE handle_cpuid
  <2> DEFINE f == [r \in InRegisters |-> IF r \in {"rax", "rbx", "rcx", "rdx"}
                                         THEN Cpuid(Low(registers["rax"]), r) ELSE g[r]]
  <2>1. Handled(f) /\ reason = "cpuid" /\ msr' = msr /\ xcr0' = xcr0
    BY <1>4 DEF handle_cpuid
  <2>2. \A r \in InRegisters : f[r] = NextValue(reason, registers, msr, r)
    BY <1>3, <2>1 DEF NextValue
  <2>3. f = [r \in InRegisters |-> f[r]]
    OBVIOUS
  <2> HIDE DEF f
  <2> QED
    BY <1>1, <1>2, <2>1, <2>2, <2>3, HandlerInv
<1>5. CASE handle_rdmsr
  <2> DEFINE f == [g EXCEPT !["rax"] = Low(msr), !["rdx"] = msr \div Half]
  <2>1. Handled(f) /\ reason = "rdmsr" /\ msr' = msr /\ xcr0' = xcr0
    BY <1>5 DEF handle_rdmsr
  <2>2. \A r \in InRegisters : f[r] = NextValue(reason, registers, msr, r)
    BY <1>3, <2>1 DEF NextValue
  <2>3. f = [r \in InRegisters |-> f[r]]
    BY <1>3
  <2> HIDE DEF f
  <2> QED
    BY <1>1, <1>2, <2>1, <2>2, <2>3, HandlerInv
<1>6. CASE handle_wrmsr \/ handle_nested_page_fault
  <2>1. /\ Handled(g) /\ reason \in {"wrmsr", "npf"} /\ xcr0' = xcr0
        /\ msr' = IF reason = "wrmsr" THEN ToWrite(registers) ELSE msr
    BY <1>6 DEF handle_wrmsr, handle_nested_page_fault
  <2>2. \A r \in InRegisters : g[r] = NextValue(reason, registers, msr, r)
    BY <1>3, <2>1 DEF NextValue
  <2> HIDE DEF g
  <2> QED
    BY <1>1, <1>2, <1>3, <2>1, <2>2, HandlerInv DEF g
<1>7. CASE handle_vmcall
  <2> DEFINE f == [g EXCEPT !["rax"] = UnknownCall]
  <2>1. Handled(f) /\ reason = "vmcall" /\ registers["rax"] # Devirtualize /\ msr' = msr /\ xcr0' = xcr0
    BY <1>7 DEF handle_vmcall
  <2>2. \A r \in InRegisters : f[r] = NextValue(reason, registers, msr, r)
    BY <1>3, <2>1 DEF NextValue
  <2>3. f = [r \in InRegisters |-> f[r]]
    BY <1>3
  <2> HIDE DEF f
  <2> QED
    BY <1>1, <1>2, <2>1, <2>2, <2>3, HandlerInv
<1>8. CASE handle_xsetbv /\ ToWrite(registers) \in ValidXcr0
  <2>1. Handled(g) /\ reason = "xsetbv" /\ xcr0' = ToWrite(registers) /\ msr' = msr
    BY <1>8 DEF handle_xsetbv
  <2>2. \A r \in InRegisters : g[r] = NextValue(reason, registers, msr, r)
    BY <1>3, <2>1 DEF NextValue
  <2> HIDE DEF g
  <2> QED
    BY <1>1, <1>2, <1>3, <2>1, <2>2, HandlerInv DEF g
<1>9. CASE handle_xsetbv /\ ToWrite(registers) \notin ValidXcr0
  <2>1. /\ pc' = "panic"
        /\ UNCHANGED <<machine, cpu, registers, vmcs, cached, clean, launched, activity, msr, xcr0,
                       reason, vector, expect, started, writes, exits, E>>
    BY <1>9 DEF handle_xsetbv, E
  <2>2. UNCHANGED <<vendor, bsp, Copied, InVmcs, Instructions, StaleAfterInit>>
    BY <2>1, Fixed
  <2>3. TypeOK'
    BY <2>1, <2>2 DEF Inv, TypeOK
  <2>4. RipInv' /\ HeldInv' /\ MsrInv' /\ WaitInv'
    BY <1>1, <2>1, <2>2 DEF Inv, RipInv, HeldInv, MsrInv, WaitInv
  <2> QED
    BY <2>3, <2>4 DEF Inv
<1> QED
  BY <1>4, <1>5, <1>6, <1>7, <1>8, <1>9

LEMMA DevirtualizeInv == Inv /\ devirtualize_processor => Inv'
<1> SUFFICES ASSUME Inv, devirtualize_processor PROVE Inv'
  OBVIOUS
<1> USE RegisterSets, Types
<1>1. /\ pc = "handle" /\ reason = "vmcall" /\ registers["rax"] = Devirtualize /\ pc' = "native"
      /\ registers' = Advance(registers) /\ cpu' = Take(cpu, InRegisters, registers')
      /\ UNCHANGED <<machine, vmcs, cached, clean, launched, activity, msr, xcr0, reason, vector,
                     expect, started, writes, exits, E>>
  BY DEF devirtualize_processor, E
<1>2. UNCHANGED <<vendor, bsp, Copied, InVmcs, Instructions, StaleAfterInit>>
  BY <1>1, Fixed
<1>3. /\ \A r \in InRegisters : registers'[r] = NextValue(reason, registers, msr, r)
      /\ registers' = [r \in InRegisters |-> registers'[r]]
  <2>1. /\ Advance(registers) = [r \in InRegisters |-> Advance(registers)[r]]
        /\ \A r \in InRegisters :
              Advance(registers)[r] = IF r = "rip" THEN registers["rip"] + 1 ELSE registers[r]
    <3>1. "rip" \in InRegisters /\ registers \in [InRegisters -> Values]
      OBVIOUS
    <3> HIDE RegisterSets, Types
    <3> QED
      BY <3>1, AdvanceFacts
  <2>2. \A r \in InRegisters :
            NextValue(reason, registers, msr, r) = IF r = "rip" THEN registers["rip"] + 1 ELSE registers[r]
    BY <1>1 DEF NextValue
  <2> QED
    BY <1>1, <2>1, <2>2
<1>4. registers' \in [InRegisters -> Values]
  <2>1. \A r \in InRegisters : registers'[r] \in Values
    BY <1>1, <1>3, HandledFacts
  <2> QED
    BY <1>3, <2>1
<1>5. /\ cpu' \in [Regs -> Values]
      /\ \A r \in Regs : cpu'[r] = IF r \in InRegisters THEN registers'[r] ELSE cpu[r]
  <2>1. \A r \in Regs \cap InRegisters : registers'[r] \in Values
    BY <1>4
  <2>2. /\ Take(cpu, InRegisters, registers') \in [Regs -> Values]
        /\ \A r \in Regs : Take(cpu, InRegisters, registers')[r]
                             = IF r \in InRegisters THEN registers'[r] ELSE cpu[r]
    <3>1. cpu \in [Regs -> Values]
      OBVIOUS
    <3> HIDE RegisterSets, Types
    <3> QED
      BY <2>1, <3>1, TakeFacts
  <2> QED
    BY <1>1, <2>2
<1>6. TypeOK'
  BY <1>1, <1>2, <1>4, <1>5 DEF Inv, TypeOK
<1>7. registers'["rip"] = registers["rip"] + 1
  BY <1>3 DEF NextValue
<1>8. RipInv'
  <2>1. registers["rip"] + 1 <= exits + ResetRip
    BY <1>1, HandledFacts
  <2>2. cpu'["rip"] = registers["rip"] + 1
    BY <1>5, <1>7
  <2> QED
    BY <1>1, <1>7, <2>1, <2>2 DEF Inv, RipInv
<1>9. \A r \in InRegisters : registers'[r] = E[r]
  BY <1>1, <1>3, HandledFacts
<1>10. HeldInv'
  BY <1>1, <1>2, <1>5, <1>9 DEF HeldInv
<1>11. MsrInv' /\ WaitInv'
  BY <1>1, <1>2 DEF Inv, HeldInv, MsrInv, WaitInv
<1> QED
  BY <1>6, <1>8, <1>10, <1>11 DEF Inv

-----------------------------------------------------------------------------
(* INIT and SIPI.                                                          *)

LEMMA VmxInitFacts ==
    ASSUME Inv, VmxInit
    PROVE  /\ vmcs' \in [InVmcs -> Values] /\ registers' \in [InRegisters -> Values]
           /\ \A r \in InVmcs : vmcs'[r] = Reset[r]
           /\ \A r \in InRegisters \ Xmm : registers'[r] = Reset[r]
           /\ registers'["xmm"] = registers["xmm"]
<1>1. \A r \in Regs : Reset[r] \in Values
  BY ResetFacts
<1>2. \A r \in InVmcs \cap InVmcs : Reset[r] \in Values
  BY <1>1, RegisterSets
<1>3. \A r \in InRegisters \cap (InRegisters \ Xmm) : Reset[r] \in Values
  BY <1>1, RegisterSets
<1>4. vmcs \in [InVmcs -> Values] /\ registers \in [InRegisters -> Values]
  BY Types
<1>5. /\ Take(vmcs, InVmcs, Reset) \in [InVmcs -> Values]
      /\ \A r \in InVmcs : Take(vmcs, InVmcs, Reset)[r] = IF r \in InVmcs THEN Reset[r] ELSE vmcs[r]
  BY <1>2, <1>4, TakeFacts
<1>6. /\ Take(registers, InRegisters \ Xmm, Reset) \in [InRegisters -> Values]
      /\ \A r \in InRegisters : Take(registers, InRegisters \ Xmm, Reset)[r]
                                = IF r \in InRegisters \ Xmm THEN Reset[r] ELSE registers[r]
  BY <1>3, <1>4, TakeFacts
<1> QED
  BY <1>5, <1>6, RegisterSets DEF VmxInit

LEMMA SvmInitFacts ==
    ASSUME Inv, SvmInit
    PROVE  /\ vmcs' \in [InVmcs -> Values] /\ registers' \in [InRegisters -> Values]
           /\ \A r \in InVmcs \ {"ss", "rax"} : vmcs'[r] = Reset[r]
           /\ \A r \in Gpr : registers'[r] = Reset[r]
           /\ \A r \in InRegisters \ Gpr : registers'[r] = registers[r]
<1>1. \A r \in Regs : Reset[r] \in Values
  BY ResetFacts
<1>2. \A r \in InVmcs \cap (InVmcs \ {"ss", "rax"}) : Reset[r] \in Values
  BY <1>1, RegisterSets
<1>3. \A r \in InRegisters \cap Gpr : Reset[r] \in Values
  BY <1>1, RegisterSets
<1>4. vmcs \in [InVmcs -> Values] /\ registers \in [InRegisters -> Values]
  BY Types
<1>5. /\ Take(vmcs, InVmcs \ {"ss", "rax"}, Reset) \in [InVmcs -> Values]
      /\ \A r \in InVmcs : Take(vmcs, InVmcs \ {"ss", "rax"}, Reset)[r]
                           = IF r \in InVmcs \ {"ss", "rax"} THEN Reset[r] ELSE vmcs[r]
  BY <1>2, <1>4, TakeFacts
<1>6. /\ Take(registers, Gpr, Reset) \in [InRegisters -> Values]
      /\ \A r \in InRegisters : Take(registers, Gpr, Reset)[r]
                                = IF r \in Gpr THEN Reset[r] ELSE registers[r]
  BY <1>3, <1>4, TakeFacts
<1> QED
  BY <1>5, <1>6, RegisterSets DEF SvmInit

LEMMA InitSignalInv == Inv /\ handle_init_signal => Inv'
<1> SUFFICES ASSUME Inv, handle_init_signal PROVE Inv'
  OBVIOUS
<1> USE RegisterSets, Types
<1>1. /\ pc = "init" /\ activity' = "wait_for_sipi" /\ started' = NoVector
      /\ UNCHANGED <<machine, cpu, cached, launched, msr, xcr0, reason, vector, expect, writes, exits, E>>
  BY DEF handle_init_signal, E
<1>2. UNCHANGED <<vendor, bsp, Copied, InVmcs, Instructions, StaleAfterInit>>
  BY <1>1, Fixed
<1>3. ~bsp /\ vector = NoVector
  BY <1>1 DEF Inv, WaitInv
<1>4. (\A r \in Regs \ Xmm : E[r] = Reset[r]) /\ E["xmm"] = registers["xmm"]
  BY <1>1 DEF Inv, HeldInv
<1>5. registers["rip"] <= exits + ResetRip /\ vmcs["rip"] <= exits + ResetRip
  BY DEF Inv, RipInv
<1>6. ResetRip <= exits + ResetRip
  BY DEF ResetRip
<1>7. CASE vendor = "intel" /\ VmxInit /\ pc' = "run" /\ UNCHANGED clean
  <2>1. TypeOK'
    BY <1>1, <1>2, <1>7, VmxInitFacts DEF Inv, TypeOK
  <2>2. registers'["rip"] = ResetRip /\ vmcs'["rip"] = ResetRip
    BY <1>7, VmxInitFacts, ResetFacts
  <2>3. RipInv'
    BY <1>1, <1>6, <1>7, <2>2 DEF Inv, RipInv
  <2>4. (\A r \in InRegisters : registers'[r] = E[r]) /\ (\A r \in Sys : vmcs'[r] = E[r])
    BY <1>4, <1>7, VmxInitFacts
  <2>5. HeldByHost'
    BY <1>1, <1>2, <1>7, <2>4 DEF HeldByHost
  <2>6. HeldInv'
    BY <1>7, <2>5 DEF HeldInv
  <2>7. MsrInv' /\ WaitInv'
    BY <1>1, <1>2, <1>3, <1>7 DEF Inv, MsrInv, WaitInv
  <2> QED
    BY <2>1, <2>3, <2>6, <2>7 DEF Inv
<1>8. CASE vendor = "amd" /\ SvmInit /\ pc' = "sipi"
  <2>1. clean' = FALSE
    BY <1>8 DEF SvmInit
  <2>2. TypeOK'
    BY <1>1, <1>2, <1>8, <2>1, SvmInitFacts DEF Inv, TypeOK
  <2>3. registers'["rip"] = registers["rip"] /\ vmcs'["rip"] = ResetRip
    BY <1>8, SvmInitFacts, ResetFacts
  <2>4. RipInv'
    BY <1>1, <1>5, <1>6, <1>8, <2>3 DEF Inv, RipInv
  <2>5. StaleAfterInit = {"rsp", "rflags", "ss"}
    BY <1>3, <1>8 DEF StaleAfterInit
  <2>6. /\ \A r \in InRegisters \ {"rsp", "rflags", "rip"} : registers'[r] = E[r]
        /\ \A r \in Sys \ {"ss"} : vmcs'[r] = E[r]
    <3>1. \A r \in Gpr : registers'[r] = E[r]
      BY <1>4, <1>8, SvmInitFacts
    <3>2. registers'["xmm"] = E["xmm"]
      BY <1>4, <1>8, SvmInitFacts
    <3>3. \A r \in Sys \ {"ss"} : vmcs'[r] = E[r]
      <4>1. Sys \ {"ss"} \subseteq InVmcs \ {"ss", "rax"} /\ Sys \ {"ss"} \subseteq Regs \ Xmm
        OBVIOUS
      <4> QED
        BY <1>4, <1>8, <4>1, SvmInitFacts
    <3> QED
      BY <3>1, <3>2, <3>3
  <2>7. HeldForSipi'
    BY <1>1, <1>2, <1>3, <2>1, <2>5, <2>6 DEF HeldForSipi
  <2>8. HeldInv'
    BY <1>8, <2>7 DEF HeldInv
  <2>9. MsrInv' /\ WaitInv'
    BY <1>1, <1>2, <1>3, <1>8 DEF Inv, MsrInv, WaitInv
  <2> QED
    BY <2>2, <2>4, <2>8, <2>9 DEF Inv
<1> QED
  BY <1>7, <1>8 DEF handle_init_signal

LEMMA HandleSipiInv == Inv /\ handle_sipi => Inv'
<1> SUFFICES ASSUME Inv, handle_sipi PROVE Inv'
  OBVIOUS
<1>1. /\ pc = "sipi" /\ vector # NoVector /\ pc' = "run"
      /\ activity' = "active" /\ started' = vector /\ vector' = NoVector
      /\ vmcs' = Start(vmcs, vector) /\ registers' = [registers EXCEPT !["rip"] = 0]
      /\ UNCHANGED <<machine, cpu, cached, clean, launched, msr, xcr0, reason, expect, writes, exits, E>>
  BY DEF handle_sipi, E
<1>2. UNCHANGED <<vendor, bsp, Copied, InVmcs, Instructions, StaleAfterInit>>
  BY <1>1, Fixed
<1>3. vector \in Vectors /\ "rip" \in InVmcs /\ "cs" \in InVmcs /\ vmcs \in [InVmcs -> Values]
  BY <1>1, Types, RegisterSets DEF Inv, TypeOK
<1>4. /\ vmcs' \in [InVmcs -> Values] /\ vmcs'["rip"] = 0 /\ vmcs'["cs"] = vector
      /\ \A r \in InVmcs \ {"rip", "cs"} : vmcs'[r] = vmcs[r]
  BY <1>1, <1>3, StartFacts
<1>5. 0 \in Values
  BY SmallValues, HalfFacts
<1> USE RegisterSets, Types
<1>6. /\ registers' \in [InRegisters -> Values] /\ registers'["rip"] = 0
      /\ \A r \in InRegisters \ {"rip"} : registers'[r] = registers[r]
  BY <1>1, <1>5
<1>7. TypeOK'
  BY <1>1, <1>2, <1>3, <1>4, <1>6 DEF Inv, TypeOK
<1>8. RipInv'
  BY <1>1, <1>4, <1>6 DEF Inv, RipInv, ResetRip
<1>9. HeldForSipi
  BY <1>1 DEF Inv, HeldInv
<1>10. HeldByHost'
  BY <1>1, <1>2, <1>4, <1>6, <1>9 DEF HeldForSipi, HeldByHost
<1>11. HeldInv'
  BY <1>1, <1>10 DEF HeldInv
<1>12. MsrInv' /\ WaitInv'
  BY <1>1, <1>2 DEF Inv, MsrInv, WaitInv
<1> QED
  BY <1>7, <1>8, <1>11, <1>12 DEF Inv

-----------------------------------------------------------------------------
LEMMA NextInv == Inv /\ [Next]_vars => Inv'
<1> SUFFICES ASSUME Inv, [Next]_vars PROVE Inv'
  OBVIOUS
<1>1. CASE UNCHANGED vars
  <2>1. UNCHANGED <<Copied, InVmcs, Instructions, StaleAfterInit, E>>
    BY <1>1 DEF vars, Copied, InVmcs, Instructions, StaleAfterInit, E
  <2> QED
    BY <1>1, <2>1 DEF vars, Inv, TypeOK, RipInv, HeldInv, HeldByHost, HeldForSipi, Saved, MsrInv, WaitInv,
                      ToWrite, Reset
<1>2. CASE Hypervisor
  BY <1>2, RunInv, RunVmxInv, RunSvmInv, InstructionHandlersInv, DevirtualizeInv, InitSignalInv,
     HandleSipiInv DEF Hypervisor
<1> QED
  BY <1>1, <1>2, GuestWritesInv, ExecutesInv, UnhandledInv, InitArrivesInv, SipiArrivesInv DEF Next

LEMMA Invariance == Spec => []Inv
<1> QED
  BY InitInv, NextInv, PTL DEF Spec

(* Registers keep their width: no handler puts more than 64 bits together, *)
(* and the instruction pointer stays in range.                             *)
THEOREM TypeCorrect == Spec => []TypeOK
<1>1. Inv => TypeOK
  BY DEF Inv
<1> QED
  BY <1>1, Invariance, PTL

(* run(), the assembly stubs, the handlers and the clean bits together     *)
(* lose none of the guest's state, over any number of exits: except for    *)
(* what handle_init_signal() leaves stale on AMD, the guest always has the *)
(* registers that the architecture says, and so it has when it is set free.*)
THEOREM GuestIsUndisturbed == Spec => []GuestSeesItsOwnState
<1>1. Inv => GuestSeesItsOwnState
  BY DEF Inv, HeldInv, MsrInv, GuestSeesItsOwnState, Agrees, E
<1> QED
  BY <1>1, Invariance, PTL

-----------------------------------------------------------------------------
(* Refinement of the architecture's wait-for-SIPI state.                   *)

LEMMA NoVectorIsNone == NoVector \notin Vectors
BY ValueAssumption DEF NoVector

LEMMA InitRefines == Init => Startup!AInit
BY DEF Init, Startup!AInit, Mode

LEMMA Stutters == UNCHANGED <<activity, vector, started>> => UNCHANGED Startup!avars
BY DEF Startup!avars, Mode

LEMMA InitSignalRefines == Inv /\ handle_init_signal => Startup!ANext
<1> SUFFICES ASSUME Inv, handle_init_signal PROVE Startup!ANext
  OBVIOUS
<1>1. /\ activity = "active" /\ activity' = "wait_for_sipi" /\ started' = NoVector
      /\ vector = NoVector /\ vector' = vector
  BY DEF handle_init_signal, Inv, WaitInv
<1>2. Mode = "running" /\ Mode' = "waiting"
  BY <1>1 DEF Mode, NoVector
<1>3. Startup!Reset(0)
  BY <1>1, <1>2 DEF Startup!Reset
<1> QED
  BY <1>3 DEF Startup!ANext

LEMMA SipiArrivesRefines ==
    ASSUME Inv, NEW v \in Vectors, SipiArrives(v)
    PROVE  Startup!ANext
<1>1. /\ activity = "wait_for_sipi" /\ activity' = activity /\ vector = NoVector /\ vector' = v
      /\ started' = started /\ v # NoVector
  BY NoVectorIsNone DEF SipiArrives
<1>2. Mode = "waiting" /\ Mode' = "released"
  BY <1>1 DEF Mode, NoVector
<1>3. Startup!Release(0, v)
  BY <1>1, <1>2 DEF Startup!Release
<1> QED
  BY <1>3 DEF Startup!ANext

LEMMA HandleSipiRefines == Inv /\ handle_sipi => Startup!ANext
<1> SUFFICES ASSUME Inv, handle_sipi PROVE Startup!ANext
  OBVIOUS
<1>1. /\ activity = "wait_for_sipi" /\ activity' = "active" /\ vector # NoVector
      /\ vector' = NoVector /\ started' = vector
  BY DEF handle_sipi, Inv, WaitInv
<1>2. Mode = "released" /\ Mode' = "running"
  BY <1>1 DEF Mode, NoVector
<1>3. Startup!Resume(0)
  BY <1>1, <1>2 DEF Startup!Resume, NoVector
<1> QED
  BY <1>3 DEF Startup!ANext

LEMMA NextRefines == Inv /\ [Next]_vars => [Startup!ANext]_(Startup!avars)
<1> SUFFICES ASSUME Inv, [Next]_vars PROVE [Startup!ANext]_(Startup!avars)
  OBVIOUS
<1>1. CASE handle_init_signal \/ handle_sipi \/ \E v \in Vectors : SipiArrives(v)
  BY <1>1, InitSignalRefines, HandleSipiRefines, SipiArrivesRefines
<1>2. CASE \/ run \/ run_vmx_guest \/ run_svm_guest \/ handle_cpuid \/ handle_rdmsr \/ handle_wrmsr
           \/ handle_xsetbv \/ handle_vmcall \/ devirtualize_processor \/ handle_nested_page_fault
  <2>1. UNCHANGED <<activity, vector, started>>
    BY <1>2 DEF run, run_vmx_guest, run_svm_guest, Enter, handle_cpuid, handle_rdmsr, handle_wrmsr,
                handle_xsetbv, handle_vmcall, devirtualize_processor, handle_nested_page_fault, Handled
  <2> QED
    BY <2>1, Stutters
<1>3. CASE \/ \E r \in Regs, high \in BOOLEAN : GuestWrites(r, high)
           \/ \E i \in Instructions : Executes(i)
           \/ Unhandled \/ InitArrives \/ UNCHANGED vars
  <2>1. UNCHANGED <<activity, vector, started>>
    BY <1>3 DEF GuestWrites, Executes, Unhandled, InitArrives, vars
  <2> QED
    BY <2>1, Stutters
<1> QED
  BY <1>1, <1>2, <1>3 DEF Next, Hypervisor

(* On either vendor, INIT puts the virtual processor in the wait-for-SIPI  *)
(* state, nothing but a SIPI ends it, and the processor then starts from   *)
(* that SIPI's vector, whatever exits came before.                         *)
THEOREM ImplementsApStartup == Spec => Startup!ASafety
<1> QED
  BY InitRefines, NextRefines, Invariance, PTL DEF Spec, Startup!ASafety
=============================================================================
