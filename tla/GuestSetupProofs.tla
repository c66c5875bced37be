-------------------------- MODULE GuestSetupProofs --------------------------
(***************************************************************************)
(* One processor becomes a guest, on any machine that the assumptions      *)
(* admit: VM entries succeed, and the guest goes on where it was.          *)
(***************************************************************************)
EXTENDS GuestSetup, TLAPS

BeforeSnapshot == {"gdt", "host_data", "snapshot"}
OnHost == BeforeSnapshot \cup SettingUp
Virtual == {"entry", "guest", "init", "wait"}

(* Every bit that a control word can have.                                 *)
SecondaryBits == UNION {x.secondary : x \in Machines}
RequestedBits == UNION {Requested[w] : w \in Words}
Bits == {"default1", "cr3_load_exiting"} \cup SecondaryBits \cup RequestedBits

RegisterFile ==
    [seg : [Segs -> Segment], trBase : Nat, cr0 : SUBSET Cr0Fixed1, cr4 : SUBSET Cr4Fixed1,
     lma : BOOLEAN]
VmcsFile ==
    [ctl : [Words -> SUBSET Bits], svm : SUBSET SvmControls, seg : [Segs -> Segment],
     trBase : Nat, cr0 : SUBSET Cr0Fixed1, cr4 : SUBSET Cr4Fixed1, lma : BOOLEAN,
     host : [Data \cup {"tr"} -> Nat]]

TypeInv ==
    /\ m \in Machines
    /\ pc \in OnHost \cup Virtual \cup Panics
    /\ cpu \in RegisterFile /\ expect \in RegisterFile /\ vmcs \in VmcsFile
    /\ idt \in {"system", "host"} /\ activity \in {"active", "wait_for_sipi"}
    /\ interrupted \in BOOLEAN /\ resets \in BOOLEAN

(* The GDT in use keeps its entries; the UEFI driver appends two on Intel. *)
Prolongs(h, g) ==
    Size(g) <= Size(h) /\ \A i \in 0 .. (Size(g) - 1) : h.entries[i] = g.entries[i]

GdtInv ==
    /\ GdtOk(gdtr)
    /\ gdtr.limit = m.gdtr.limit \/ (Intel /\ Uefi /\ gdtr.limit = m.gdtr.limit + 16)
    /\ \A ss \in m.stacks : SelectorOk(gdtr, "ss", ss)

HostGdtInv ==
    /\ hostGdt.limit \in -1 .. (Word - 1)
    /\ Uefi /\ pc \in OnHost \ {"gdt", "host_data"} =>
         /\ hostGdt.tr = cpu.seg["tr"].sel
         /\ \/ hostGdt.limit = -1 /\ gdtr.limit + 1 = Word
            \/ GdtOk(hostGdt) /\ hostGdt.limit = gdtr.limit /\ Prolongs(hostGdt, gdtr)
    /\ pc = "lidt" \/ idt = "host" => ~Intel /\ Uefi

TssOk(base) == base = m.tss \/ (Intel /\ Uefi /\ m.tss >= FourGB)

Ne == IF Intel THEN {"NE"} ELSE {}
Vmxe == IF Intel THEN {"VMXE"} ELSE {}

(* The processor's registers until the first VM entry.                     *)
CpuInv ==
    pc \in OnHost =>
        /\ \A s \in Segs : /\ SelectorOk(gdtr, s, cpu.seg[s].sel)
                           /\ cpu.seg[s] = Loaded(m.vendor, gdtr, cpu.seg[s].sel)
        /\ cpu.seg["tr"].sel # 0 => Base(gdtr, cpu.seg["tr"].sel) = cpu.trBase
        /\ TssOk(cpu.trBase)
        /\ Intel /\ pc # "gdt" => cpu.seg["tr"].sel # 0
        /\ pc = "gdt" \/ ~Intel => cpu.seg["tr"].sel = m.sel["tr"]
        /\ pc = "gdt" => gdtr = m.gdtr
        /\ cpu.seg["ldtr"].sel = m.sel["ldtr"]
        /\ cpu.lma
        /\ IF pc \in BeforeSnapshot \cup {"enable"}
             THEN cpu.cr0 = m.cr0 /\ cpu.cr4 = m.cr4
             ELSE cpu.cr0 = m.cr0 \cup Ne /\ cpu.cr4 = m.cr4 \cup Vmxe
        /\ activity = "active" /\ ~resets
        /\ pc \in BeforeSnapshot => ~interrupted

(* An interrupt may change SS under the copies.                            *)
Kept == {s \in Segs : s # "ss" \/ ~interrupted}

ExpectInv ==
    pc \in SettingUp =>
        /\ \A s \in Kept : expect.seg[s] = cpu.seg[s]
        /\ expect.cr0 = m.cr0 /\ expect.cr4 = m.cr4 /\ expect.lma

(* The control words, once initialize_control() has been through.          *)
CtlInv ==
    /\ ~Intel => \A w \in Words : vmcs.ctl[w] = {}
    /\ pc \in (SettingUp \ {"enable", "control"}) \cup Virtual =>
         /\ ~Intel => vmcs.svm = SvmControls
         /\ Intel => /\ \A w \in Words \ {"entry"} : vmcs.ctl[w] = adjust_vmx_control(m, w)
                     /\ vmcs.ctl["entry"] \cup {"ia32e_mode_guest"} = adjust_vmx_control(m, "entry")
    /\ pc \in SettingUp \ {"enable", "control"} /\ Intel => "ia32e_mode_guest" \in vmcs.ctl["entry"]

(* How far the copies have come: Intel has the limits before the rights.   *)
SelectorsDone == pc \in {"limits", "rights", "bases", "host", "lidt", "start"}
LimitsDone == pc \in {"bases", "host", "lidt", "start"} \/ (Intel /\ pc = "rights")
RightsDone == pc \in {"bases", "host", "lidt", "start"} \/ (~Intel /\ pc = "limits")
BasesDone == pc \in {"host", "lidt", "start"}

CopyInv ==
    /\ SelectorsDone => \A s \in Kept \cap Copied : vmcs.seg[s].sel = cpu.seg[s].sel
    /\ LimitsDone => \A s \in (Kept \cap Copied) \ {"ldtr"} : vmcs.seg[s].limit = cpu.seg[s].limit
    /\ RightsDone =>
         /\ \A s \in (Kept \cap Copied) \ {"ldtr"} : vmcs.seg[s].rights = cpu.seg[s].rights
         /\ Intel => /\ vmcs.seg["ldtr"].rights = "unusable"
                     /\ vmcs.seg["ss"].rights \in {"unusable", "data"}
    /\ pc \in OnHost /\ Intel => vmcs.seg["ldtr"].limit = 0
    /\ BasesDone =>
         /\ vmcs.trBase = cpu.trBase /\ vmcs.cr0 = cpu.cr0 /\ vmcs.cr4 = cpu.cr4
         /\ ~Intel => vmcs.lma /\ \A s \in {"tr", "ldtr"} : vmcs.seg[s] = cpu.seg[s]

HostInv ==
    Intel /\ pc \in {"start"} \cup Virtual =>
        /\ \A s \in Data \cup {"tr"} : vmcs.host[s] % 8 = 0
        /\ vmcs.host["cs"] # 0 /\ vmcs.host["tr"] # 0

(* A register file that VM entry accepts.                                  *)
ModeOk(r) ==
    /\ "PG" \in r.cr0 => "PE" \in r.cr0
    /\ r.lma => "PG" \in r.cr0 /\ "PAE" \in r.cr4
    /\ Intel =>
         /\ "NE" \in r.cr0 /\ "VMXE" \in r.cr4
         /\ {"PE", "PG"} \subseteq r.cr0 \/ "unrestricted_guest" \in m.secondary
         /\ r.seg["tr"].rights = "busy_tss"
         /\ r.seg["ldtr"].rights \in {"unusable", "ldt"}
         /\ r.seg["cs"].rights \in {"code64", "code32", "code16"}
         /\ r.seg["cs"].rights = "code64" => r.lma
         /\ \A s \in {"ss", "ds"} : r.seg[s].rights \in {"unusable", "data"}

(* A register file with which the guest goes on.                           *)
Follows(r) ==
    /\ (resets => CanBeReset) =>
         /\ \A s \in Segs \ Lost : r.seg[s] = expect.seg[s]
         /\ r.cr0 = expect.cr0 \cup Ne
         /\ r.cr4 = expect.cr4 \cup Vmxe
         /\ r.lma = expect.lma
    /\ ~resets /\ r.seg["tr"].sel # 0 => TssOk(r.trBase)

GuestInv ==
    /\ pc \in {"entry", "wait"} => ModeOk(Entered) /\ Follows(Entered)
    /\ pc = "guest" => ModeOk(cpu) /\ Follows(cpu)
    /\ pc = "init" => /\ resets
                      /\ expect = [seg |-> ResetSeg, trBase |-> 0, cr0 |-> {"ET"}, cr4 |-> {},
                                   lma |-> FALSE]
    /\ pc = "wait" => ~Intel

Inv ==
    /\ TypeInv /\ GdtInv /\ HostGdtInv /\ CpuInv /\ ExpectInv
    /\ CtlInv /\ CopyInv /\ HostInv /\ GuestInv /\ PanicsOnlyFor

-----------------------------------------------------------------------------
(* Selectors and descriptors.                                              *)

DescriptorType == [kind : Kinds, base : Nat, limit : Nat, pages : BOOLEAN]

LEMMA SizeFacts ==
    ASSUME NEW g, GdtOk(g)
    PROVE  /\ Size(g) \in Nat /\ Size(g) > 0
           /\ g.limit + 1 = 8 * Size(g) /\ g.limit \in Nat /\ g.limit < Word
           /\ \A i \in Nat : i < Size(g) => g.entries[i] \in DescriptorType
BY SizeAssumption, SMTT(60) DEF GdtOk, Size, DescriptorType

LEMMA IndexFacts ==
    /\ \A sel \in Nat : Index(sel) \in Nat /\ Index(sel) <= sel
    /\ \A k \in Nat : Index(8 * k) = k /\ ~InLdt(8 * k)
    /\ \A sel \in Nat : WithoutRpl(sel) % 8 = 0 /\ WithoutRpl(sel) \in Nat
                       /\ (Index(sel) # 0 => WithoutRpl(sel) # 0)
<1>1. \A sel \in Nat : Index(sel) \in Nat /\ Index(sel) <= sel
  BY SMT DEF Index
<1>2. \A k \in Nat : Index(8 * k) = k /\ ~InLdt(8 * k)
  BY SMT DEF Index, InLdt
<1>3. \A k \in Nat : (8 * k) % 8 = 0 /\ 8 * k \in Nat /\ (k # 0 => 8 * k # 0)
  BY SMT
<1> QED
  BY <1>1, <1>2, <1>3 DEF WithoutRpl

LEMMA LimitInPages == \A l \in Nat : (l + 1) * PageSize - 1 \in Nat
<1>1. \A a, b \in Nat : a > 0 /\ b > 0 => a * b - 1 \in Nat
  BY SMT
<1> QED
  BY <1>1, SizeAssumption

LEMMA LoadedType ==
    ASSUME NEW g, GdtOk(g), NEW v, NEW s, NEW sel, SelectorOk(g, s, sel)
    PROVE  /\ Loaded(v, g, sel) \in Segment
           /\ Loaded(v, g, sel).sel = sel
           /\ g.entries[Index(sel)] \in DescriptorType
<1>1. sel \in Nat /\ Index(sel) \in Nat /\ Index(sel) < Size(g)
  BY IndexFacts DEF SelectorOk
<1> DEFINE d == g.entries[Index(sel)]
<1>2. d \in DescriptorType
  BY <1>1, SizeFacts
<1>3. d.kind \in Kinds /\ d.limit \in Nat
  BY <1>2 DEF DescriptorType
<1>4. (d.limit + 1) * PageSize - 1 \in Nat /\ (d.limit + 1) * 1 - 1 \in Nat
  BY <1>3, LimitInPages
<1> HIDE DEF d
<1> DEFINE r == Loaded(v, g, sel)
<1>5. r = [sel |-> sel,
           rights |-> IF Unloaded(sel) /\ v = "intel" THEN "unusable" ELSE d.kind,
           limit |-> IF Unloaded(sel) THEN 0 ELSE (d.limit + 1) * (IF d.pages THEN PageSize ELSE 1) - 1]
  BY DEF Loaded, d
<1>6. r.limit \in Nat
  <2>1. CASE Unloaded(sel)
    BY <2>1, <1>5
  <2>2. CASE ~Unloaded(sel) /\ d.pages
    BY <2>2, <1>4, <1>5
  <2>3. CASE ~Unloaded(sel) /\ ~d.pages
    BY <2>3, <1>4, <1>5
  <2> QED
    BY <2>1, <2>2, <2>3
<1> HIDE DEF r
<1>7. r \in Segment
  BY <1>1, <1>3, <1>5, <1>6 DEF Segment
<1> QED
  BY <1>2, <1>5, <1>7 DEF r, d

(* The rights that VM entry looks at.                                      *)
LEMMA LoadedRights ==
    ASSUME NEW g, GdtOk(g), NEW s, NEW sel, SelectorOk(g, s, sel)
    PROVE  /\ s = "cs" => Loaded("intel", g, sel).rights = "code64"
           /\ s \in {"ss", "ds"} => Loaded("intel", g, sel).rights \in {"unusable", "data"}
           /\ s = "tr" /\ sel # 0 => Loaded("intel", g, sel).rights = "busy_tss"
BY DEF SelectorOk, Loaded, Unloaded

(* Both vendors' ways to copy a limit and access rights give what the      *)
(* processor has loaded.                                                   *)
LEMMA Copies ==
    ASSUME NEW g, GdtOk(g), NEW s, NEW sel, SelectorOk(g, s, sel)
    PROVE  /\ Lsl(g, sel) = Loaded("intel", g, sel).limit
           /\ AccessRights(Lar(g, sel)) = Loaded("intel", g, sel).rights
           /\ get_segment_limit(g, sel) = Loaded("amd", g, sel).limit
           /\ get_segment_access_right(g, sel) = Loaded("amd", g, sel).rights
<1> DEFINE d == g.entries[Index(sel)]
<1>1. d \in DescriptorType
  BY LoadedType
<1>2. d.kind \in Kinds /\ d.limit \in Nat /\ d.kind # "failed" /\ d.limit = (d.limit + 1) * 1 - 1
  BY <1>1 DEF DescriptorType, Kinds
<1>3. Lsl(g, sel) = Loaded("intel", g, sel).limit
  BY DEF Lsl
<1>4. AccessRights(Lar(g, sel)) = Loaded("intel", g, sel).rights
  BY <1>2 DEF AccessRights, Lar, Loaded
<1>5. get_segment_access_right(g, sel) = Loaded("amd", g, sel).rights
  BY DEF get_segment_access_right, Loaded
<1>6. get_segment_limit(g, sel) = Loaded("amd", g, sel).limit
  <2>1. CASE Unloaded(sel)
    BY <2>1 DEF get_segment_limit, Loaded
  <2>2. CASE ~Unloaded(sel) /\ d.pages
    BY <2>2 DEF get_segment_limit, Loaded
  <2>3. CASE ~Unloaded(sel) /\ ~d.pages
    BY <2>3, <1>2 DEF get_segment_limit, Loaded
  <2> QED
    BY <2>1, <2>2, <2>3
<1> QED
  BY <1>3, <1>4, <1>5, <1>6

(* A longer table with the same entries is as good.                        *)
LEMMA Prolonged ==
    ASSUME NEW g, GdtOk(g), NEW h, GdtOk(h), Prolongs(h, g),
           NEW v, NEW s, NEW sel, SelectorOk(g, s, sel)
    PROVE  /\ SelectorOk(h, s, sel)
           /\ Loaded(v, h, sel) = Loaded(v, g, sel)
           /\ s = "tr" /\ sel # 0 => Base(h, sel) = Base(g, sel)
<1> DEFINE i == Index(sel)
<1>1. sel \in Nat /\ i \in Nat /\ i < Size(g) /\ Size(g) \in Nat /\ Size(h) \in Nat /\ Size(g) <= Size(h)
  BY IndexFacts, SizeFacts DEF SelectorOk, Prolongs
<1>2. h.entries[i] = g.entries[i]
  BY <1>1 DEF Prolongs
<1>3. i + 1 < Size(g) => h.entries[i + 1] = g.entries[i + 1]
  BY <1>1 DEF Prolongs
<1>4. Loaded(v, h, sel) = Loaded(v, g, sel)
  BY <1>2 DEF Loaded
<1>5. s = "tr" /\ sel # 0 => i + 1 < Size(g)
  BY DEF SelectorOk
<1>6. SelectorOk(h, s, sel)
  BY <1>1, <1>2, <1>3, <1>5 DEF SelectorOk
<1>7. s = "tr" /\ sel # 0 => Base(h, sel) = Base(g, sel)
  BY <1>2, <1>3, <1>5 DEF Base
<1> QED
  BY <1>4, <1>6, <1>7

LEMMA SliceFacts ==
    ASSUME NEW g, GdtOk(g)
    PROVE  /\ g.limit + 1 < Word => Slice(g) = Size(g)
           /\ g.limit + 1 = Word => Slice(g) = 0
<1>1. g.limit + 1 \in Nat /\ Word \in Nat /\ Word > 0
  BY SizeFacts, SizeAssumption
<1>2. g.limit + 1 < Word => (g.limit + 1) % Word = g.limit + 1
  BY <1>1, SMT
<1>3. Word % Word = 0 /\ 0 \div 8 = 0
  BY <1>1, SMT
<1> QED
  BY <1>2, <1>3 DEF Slice, Size

(* The host's copy: the same table, or none if 16 bits do not hold its     *)
(* size.                                                                   *)
LEMMA CopyOfGdt ==
    ASSUME NEW g, GdtOk(g), NEW tr, NEW h, h = new_from_current(g, tr)
    PROVE  /\ h.tr = tr
           /\ h.limit \in -1 .. (Word - 1)
           /\ \/ h.limit = -1 /\ g.limit + 1 = Word
              \/ /\ GdtOk(h) /\ h.limit = g.limit /\ Prolongs(h, g) /\ g.limit + 1 < Word
                 /\ h.entries = g.entries
<1>1. /\ Size(g) \in Nat /\ Size(g) > 0 /\ g.limit + 1 = 8 * Size(g)
      /\ g.limit \in Nat /\ g.limit < Word /\ Word \in Nat
  BY SizeFacts, SizeAssumption
<1>2. /\ h.tr = tr /\ h.limit = 8 * Slice(g) - 1
      /\ h.entries = [i \in 0 .. (Slice(g) - 1) |-> g.entries[i]]
  BY DEF new_from_current
<1>3. CASE g.limit + 1 = Word
  BY <1>1, <1>2, <1>3, SliceFacts
<1>4. CASE g.limit + 1 < Word
  <2>1. h.limit = g.limit /\ Size(h) = Size(g)
    BY <1>1, <1>2, <1>4, SliceFacts DEF Size
  <2>2. g.entries \in [0 .. (Size(g) - 1) -> DescriptorType]
    BY DEF GdtOk, DescriptorType
  <2>3. h.entries = g.entries
    BY <1>2, <1>4, <2>2, SliceFacts
  <2>4. GdtOk(h)
    BY <2>1, <2>3 DEF GdtOk
  <2>5. Prolongs(h, g)
    BY <2>1, <2>3, <1>1 DEF Prolongs
  <2> QED
    BY <1>1, <1>2, <1>4, <2>1, <2>3, <2>4, <2>5
<1> QED
  BY <1>1, <1>3, <1>4

(* try_from_gdtr() finds a TSS, but in a table that fills the 16 bits.     *)
LEMMA TssEntry ==
    ASSUME NEW g, GdtOk(g), NEW sel, SelectorOk(g, "tr", sel), sel # 0
    PROVE  TryFromGdtr(g, sel) \/ g.limit + 1 = Word
<1>1. g.limit \in Nat /\ g.limit < Word /\ Word \in Nat
  BY SizeFacts, SizeAssumption
<1>2. CASE g.limit + 1 = Word
  BY <1>2
<1>3. CASE g.limit + 1 < Word
  BY <1>3, SliceFacts DEF TryFromGdtr, SelectorOk
<1> QED
  BY <1>1, <1>2, <1>3

(* The TSS behind the last entry, and LTR on it.                           *)
LEMMA AppendedTss ==
    ASSUME NEW g, GdtOk(g), NEW tss \in Nat,
           NEW h, h = append_tss(new_from_current(g, 0), tss)
    PROVE  /\ g.limit + 1 = Word => h.tr = 0
           /\ g.limit + 1 < Word =>
                /\ h.tr # 0 /\ h.limit = g.limit + 16
                /\ Fits(h) => /\ GdtOk(Ltr(h)) /\ Ltr(h).limit = h.limit /\ Prolongs(Ltr(h), g)
                              /\ SelectorOk(Ltr(h), "tr", h.tr)
                              /\ Base(Ltr(h), h.tr) = tss % FourGB /\ Base(h, h.tr) = tss % FourGB
<1> DEFINE f == new_from_current(g, 0)
           k == Size(f)
<1>1. /\ Size(g) \in Nat /\ Size(g) > 0 /\ g.limit + 1 = 8 * Size(g)
      /\ g.limit \in Nat /\ g.limit < Word /\ Word \in Nat
  BY SizeFacts, SizeAssumption
<1>2. /\ f.tr = 0
      /\ \/ f.limit = -1 /\ g.limit + 1 = Word
         \/ /\ GdtOk(f) /\ f.limit = g.limit /\ Prolongs(f, g) /\ g.limit + 1 < Word
            /\ f.entries = g.entries
  BY CopyOfGdt
<1> HIDE DEF f
<1>3. /\ h.tr = 8 * k /\ h.limit = 8 * (k + 2) - 1
      /\ h.entries = [i \in 0 .. (k + 1) |->
                         CASE i < k -> f.entries[i]
                           [] i = k -> Descriptor("tss", tss % FourGB, 0, FALSE)
                           [] OTHER -> Descriptor("upper", 0, 0, FALSE)]
      /\ h = [entries |-> h.entries, limit |-> h.limit, tr |-> h.tr]
  BY <1>2 DEF append_tss, Size, f
<1>4. CASE g.limit + 1 = Word
  <2>1. k = 0
    BY <1>1, <1>2, <1>4 DEF Size
  <2> QED
    BY <1>1, <1>3, <1>4, <2>1
<1>5. CASE g.limit + 1 < Word
  <2>1. k = Size(g) /\ k \in Nat /\ k > 0 /\ f.entries = g.entries
    BY <1>1, <1>2, <1>5 DEF Size
  <2> HIDE DEF k
  <2>2. h.tr # 0 /\ h.limit = g.limit + 16 /\ h.tr \in Nat /\ Index(h.tr) = k /\ ~InLdt(h.tr)
    <3>1. Index(8 * k) = k /\ ~InLdt(8 * k)
      BY <2>1, IndexFacts
    <3>2. g.limit + 1 = 8 * k
      BY <1>1, <2>1
    <3> QED
      BY <3>1, <3>2, <1>1, <1>3, <2>1
  <2>3. SUFFICES ASSUME Fits(h)
                 PROVE  /\ GdtOk(Ltr(h)) /\ Ltr(h).limit = h.limit /\ Prolongs(Ltr(h), g)
                        /\ SelectorOk(Ltr(h), "tr", h.tr)
                        /\ Base(Ltr(h), h.tr) = tss % FourGB /\ Base(h, h.tr) = tss % FourGB
    BY <1>1, <1>5, <2>2
  <2> DEFINE low == Descriptor("tss", tss % FourGB, 0, FALSE)
             busy == [low EXCEPT !.kind = "busy_tss"]
             high == Descriptor("upper", 0, 0, FALSE)
             l == Ltr(h)
  <2>4. tss % FourGB \in Nat
    BY SizeAssumption, SMT
  <2>5. /\ low \in DescriptorType /\ busy \in DescriptorType /\ high \in DescriptorType
        /\ low.base = tss % FourGB /\ busy.base = tss % FourGB /\ high.base = 0
        /\ low.kind = "tss" /\ busy.kind = "busy_tss" /\ high.kind = "upper"
    BY <2>4 DEF Descriptor, DescriptorType, Kinds
  <2>6. h.entries = [i \in 0 .. (k + 1) |->
                         CASE i < k -> g.entries[i] [] i = k -> low [] OTHER -> high]
    BY <1>3, <2>1
  <2> HIDE DEF low, busy, high, l
  <2>7. h.entries[k] = low /\ h.entries[k + 1] = high /\ \A i \in 0 .. (k - 1) : h.entries[i] = g.entries[i]
    BY <2>1, <2>6, SMTT(60)
  <2>8. l = [h EXCEPT !.entries = [h.entries EXCEPT ![k] = [h.entries[k] EXCEPT !.kind = "busy_tss"]]]
    BY <2>2 DEF l, Ltr
  <2>9. l.limit = h.limit /\ l.entries = [h.entries EXCEPT ![k] = busy]
    BY <1>3, <2>7, <2>8 DEF busy
  <2>10. l.entries = [i \in 0 .. (k + 1) |->
                         CASE i < k -> g.entries[i] [] i = k -> busy [] OTHER -> high]
    <3> DEFINE e == [i \in 0 .. (k + 1) |->
                       CASE i < k -> g.entries[i] [] i = k -> busy [] OTHER -> high]
    <3>1. \A i \in 0 .. (k + 1) : l.entries[i] = e[i]
      BY <2>1, <2>6, <2>9
    <3>2. DOMAIN l.entries = 0 .. (k + 1) /\ l.entries = [i \in DOMAIN l.entries |-> l.entries[i]]
      BY <2>6, <2>9
    <3> QED
      BY <3>1, <3>2
  <2>11. Size(l) = k + 2
    BY <1>3, <2>1, <2>9 DEF Size
  <2>12. /\ l.entries[k] = busy /\ l.entries[k + 1] = high
         /\ \A i \in 0 .. (k - 1) : l.entries[i] = g.entries[i]
    BY <2>1, <2>10
  <2>13. \A i \in 0 .. (k - 1) : g.entries[i] \in DescriptorType
    BY <2>1, SizeFacts
  <2>14. l.entries \in [0 .. (k + 1) -> DescriptorType]
    <3>1. \A i \in 0 .. (k + 1) : l.entries[i] \in DescriptorType
      <4> TAKE i \in 0 .. (k + 1)
      <4>1. i \in 0 .. (k - 1) \/ i = k \/ i = k + 1
        BY <2>1
      <4> QED
        BY <4>1, <2>5, <2>12, <2>13
    <3> QED
      BY <3>1, <2>10
  <2>15. GdtOk(l)
    <3>1. l.limit \in 0 .. (Word - 1) /\ (l.limit + 1) % 8 = 0
      <4>1. l.limit + 1 = 8 * (k + 2) /\ k + 2 \in Nat
        BY <1>3, <2>1, <2>9, SMTT(60)
      <4>2. \A j \in Nat : (8 * j) % 8 = 0
        OBVIOUS
      <4>3. (l.limit + 1) % 8 = 0
        BY <4>1, <4>2
      <4> QED
        BY <4>3, <1>1, <1>3, <2>1, <2>3, <2>9 DEF Fits
    <3>2. Size(l) - 1 = k + 1
      BY <2>1, <2>11
    <3> QED
      BY <3>1, <3>2, <2>14 DEF GdtOk, DescriptorType
  <2>16. Prolongs(l, g)
    BY <2>1, <2>11, <2>12 DEF Prolongs
  <2>17. SelectorOk(l, "tr", h.tr)
    BY <2>1, <2>2, <2>5, <2>11, <2>12 DEF SelectorOk
  <2>18. Base(l, h.tr) = tss % FourGB /\ Base(h, h.tr) = tss % FourGB
    <3>1. \A x \in Nat : x + FourGB * 0 = x
      BY SizeAssumption
    <3> QED
      BY <3>1, <2>2, <2>4, <2>5, <2>7, <2>12 DEF Base, Is16Byte
  <2> QED
    BY <2>9, <2>15, <2>16, <2>17, <2>18 DEF l
<1> QED
  BY <1>1, <1>4, <1>5

-----------------------------------------------------------------------------
(* Control words.                                                          *)

LEMMA RequestedAreBits == \A w \in Words : Requested[w] \subseteq Bits
<1> SUFFICES ASSUME NEW w \in Words, NEW b \in Requested[w] PROVE b \in Bits
  OBVIOUS
<1> DEFINE R == {Requested[v] : v \in Words}
<1>1. Requested[w] \in R
  OBVIOUS
<1> HIDE DEF R
<1>2. b \in UNION R
  BY <1>1
<1> QED
  BY <1>2 DEF Bits, RequestedBits, R

LEMMA Adjusted ==
    ASSUME NEW x \in Machines
    PROVE  /\ \A w \in Words : /\ Must(x, w) \subseteq adjust_vmx_control(x, w)
                               /\ adjust_vmx_control(x, w) \subseteq May(x, w)
                               /\ adjust_vmx_control(x, w) \subseteq Bits
                               /\ adjust_vmx_control(x, w) \subseteq Requested[w] \cup May(x, w)
           /\ "ia32e_mode_guest" \notin Must(x, "entry")
           /\ "ia32e_mode_guest" \in adjust_vmx_control(x, "entry")
           /\ "host_address_space_size" \in adjust_vmx_control(x, "exit")
           /\ "cr3_load_exiting" \in adjust_vmx_control(x, "primary") => ~x.trueMsrs
           /\ "unrestricted_guest" \in adjust_vmx_control(x, "secondary")
                 <=> "unrestricted_guest" \in x.secondary
           /\ InstructionControls \cap x.secondary \subseteq adjust_vmx_control(x, "secondary")
<1>1. /\ Requested["entry"] = {"ia32e_mode_guest"}
      /\ Requested["exit"] = {"host_address_space_size"}
      /\ Requested["primary"] = {"msr_bitmaps", "secondary", "bit18"}
      /\ Requested["secondary"] = {"ept", "unrestricted_guest"} \cup InstructionControls
  BY DEF Requested, Words
<1>2. /\ Must(x, "entry") = {"default1"} /\ Must(x, "exit") = {"default1"}
      /\ Must(x, "secondary") = {}
      /\ Must(x, "primary") = {"default1"} \cup (IF x.trueMsrs THEN {} ELSE {"cr3_load_exiting"})
  BY DEF Must
<1>3. /\ May(x, "entry") = {"default1", "ia32e_mode_guest"}
      /\ May(x, "exit") = {"default1", "host_address_space_size"}
      /\ May(x, "secondary") = x.secondary
  BY <1>2 DEF May
<1>4. \A w \in Words : /\ Must(x, w) \subseteq May(x, w)
                        /\ Must(x, w) \subseteq {"default1", "cr3_load_exiting"}
  BY <1>2 DEF May, Must, Words
<1>5. \A w \in Words : adjust_vmx_control(x, w) \subseteq Bits
  <2>1. \A w \in Words : Requested[w] \subseteq Bits
    BY RequestedAreBits
  <2> QED
    BY <1>4, <2>1 DEF adjust_vmx_control, Bits
<1>6. /\ "ia32e_mode_guest" \in adjust_vmx_control(x, "entry")
      /\ "host_address_space_size" \in adjust_vmx_control(x, "exit")
  BY <1>1, <1>3 DEF adjust_vmx_control
<1>7. "cr3_load_exiting" \in adjust_vmx_control(x, "primary") => ~x.trueMsrs
  BY <1>1, <1>2 DEF adjust_vmx_control
<1>8. /\ "unrestricted_guest" \in adjust_vmx_control(x, "secondary") <=> "unrestricted_guest" \in x.secondary
      /\ InstructionControls \cap x.secondary \subseteq adjust_vmx_control(x, "secondary")
  BY <1>1, <1>2, <1>3 DEF adjust_vmx_control, InstructionControls
<1>9. \A w \in Words : /\ Must(x, w) \subseteq adjust_vmx_control(x, w)
                        /\ adjust_vmx_control(x, w) \subseteq May(x, w)
  BY <1>4 DEF adjust_vmx_control
<1> QED
  BY <1>2, <1>5, <1>6, <1>7, <1>8, <1>9

LEMMA EntryBit == {"entry", "exit", "primary", "secondary"} \subseteq Words /\ "ia32e_mode_guest" \in Bits
<1>1. {"entry", "exit", "primary", "secondary"} \subseteq Words
  BY DEF Words
<1>2. "ia32e_mode_guest" \in Requested["entry"]
  BY <1>1 DEF Requested
<1>3. Requested["entry"] \subseteq Bits
  BY <1>1, RequestedAreBits
<1> QED
  BY <1>1, <1>2, <1>3

(* What VMX fixes of CR0 and CR4.                                          *)
LEMMA Fixed ==
    /\ \A c \in SUBSET Cr0Fixed1 : {"PE", "PG"} \subseteq c => get_adjusted_cr0(c) = c \cup {"NE"}
    /\ \A c \in SUBSET Cr4Fixed1 : get_adjusted_cr4(c) = c \cup {"VMXE"}
    /\ \A c : get_adjusted_cr0(c) \in SUBSET Cr0Fixed1 /\ get_adjusted_cr4(c) \in SUBSET Cr4Fixed1
    /\ get_adjusted_cr4({}) = {"VMXE"}
    /\ \A sec : "unrestricted_guest" \in sec => get_adjusted_guest_cr0({"ET"}, sec) = {"ET", "NE"}
    /\ \A sec : "unrestricted_guest" \notin sec => get_adjusted_guest_cr0({"ET"}, sec) = {"PE", "ET", "NE", "PG"}
BY DEF get_adjusted_cr0, get_adjusted_cr4, get_adjusted_guest_cr0, Cr0Fixed0, Cr0Fixed1, Cr4Fixed0, Cr4Fixed1

-----------------------------------------------------------------------------
(* Steps that leave most of the state alone.                               *)

LEMMA MachineFacts ==
    ASSUME m \in Machines
    PROVE  /\ Intel <=> m.vendor = "intel"
           /\ ~Intel <=> m.vendor = "amd"
           /\ ~Uefi => m.sel["tr"] # 0
           /\ GdtOk(m.gdtr)
           /\ \A s \in Segs : SelectorOk(m.gdtr, s, m.sel[s])
           /\ \A ss \in m.stacks : SelectorOk(m.gdtr, "ss", ss)
           /\ m.tss \in Nat /\ (m.sel["tr"] # 0 => Base(m.gdtr, m.sel["tr"]) = m.tss)
           /\ {"PE", "PG"} \subseteq m.cr0 /\ m.cr0 \in SUBSET Cr0Fixed1
           /\ "PAE" \in m.cr4 /\ m.cr4 \in SUBSET Cr4Fixed1
<1>1. m.sel["tr"] # 0 => Base(m.gdtr, m.sel["tr"]) = m.tss
  <2> SUFFICES ASSUME m.sel["tr"] # 0 PROVE Base(m.gdtr, m.sel["tr"]) = m.tss
    OBVIOUS
  <2>1. SelectorOk(m.gdtr, "tr", m.sel["tr"]) /\ TssAddress(m.gdtr, Index(m.sel["tr"])) = m.tss
    BY MachineAssumption DEF Segs
  <2>2. m.gdtr.entries[Index(m.sel["tr"])].kind = "busy_tss"
    BY <2>1 DEF SelectorOk
  <2> QED
    BY <2>1, <2>2 DEF Base, Is16Byte, TssAddress
<1> QED
  BY <1>1, MachineAssumption DEF Intel, Uefi

LEMMA Places ==
    /\ BeforeSnapshot = {"gdt", "host_data", "snapshot"}
    /\ \A l \in SettingUp : l \in OnHost /\ l \notin BeforeSnapshot /\ l \notin Virtual /\ l \notin Panics
    /\ \A l \in BeforeSnapshot : l \in OnHost /\ l \notin SettingUp /\ l \notin Virtual /\ l \notin Panics
    /\ \A l \in Virtual : l \notin OnHost /\ l \notin SettingUp /\ l \notin Panics
    /\ \A l \in Panics : l \notin OnHost /\ l \notin SettingUp /\ l \notin Virtual
    /\ Panics = {"panic", "entry_failed", "unhandled_exit", "unexpected_interrupt"}
BY DEF BeforeSnapshot, OnHost, SettingUp, Virtual, Panics

LEMMA PanicStep ==
    ASSUME Inv, pc' \in Panics, interrupted' \in BOOLEAN, PanicsOnlyFor',
           UNCHANGED <<m, cpu, gdtr, idt, hostGdt, vmcs, activity, expect, resets>>
    PROVE  Inv'
<1>1. TypeInv'
  BY DEF Inv, TypeInv
<1>2. GdtInv' /\ HostGdtInv'
  BY Places DEF Inv, GdtInv, HostGdtInv, Intel, Uefi
<1>3. CpuInv' /\ ExpectInv' /\ HostInv' /\ GuestInv'
  BY Places DEF CpuInv, ExpectInv, HostInv, GuestInv
<1>4. CtlInv'
  BY Places DEF Inv, CtlInv, Intel
<1>5. CopyInv'
  BY Places DEF CopyInv, SelectorsDone, LimitsDone, RightsDone, BasesDone
<1> QED
  BY <1>1, <1>2, <1>3, <1>4, <1>5 DEF Inv

(* A step of the set-up that only writes the VMCS.                         *)
LEMMA SetUpStep ==
    ASSUME Inv, pc \in SettingUp \ {"enable"}, pc' \in SettingUp \ {"enable", "lidt"},
           UNCHANGED <<m, cpu, gdtr, idt, hostGdt, activity, expect, interrupted, resets>>,
           vmcs' \in VmcsFile, CtlInv', CopyInv', HostInv'
    PROVE  Inv'
<1>1. pc \in OnHost \ (BeforeSnapshot \cup {"enable"}) /\ pc' \in OnHost \ (BeforeSnapshot \cup {"enable"})
  BY Places
<1>2. TypeInv'
  BY <1>1 DEF Inv, TypeInv
<1>3. GdtInv' /\ HostGdtInv'
  BY <1>1, Places DEF Inv, GdtInv, HostGdtInv, Intel, Uefi
<1>4. CpuInv'
  BY <1>1, Places DEF Inv, CpuInv, TssOk, Ne, Vmxe, Intel, Uefi
<1>5. ExpectInv'
  BY DEF Inv, ExpectInv, Kept
<1>6. GuestInv' /\ PanicsOnlyFor'
  BY Places DEF GuestInv, PanicsOnlyFor, Virtual
<1> QED
  BY <1>2, <1>3, <1>4, <1>5, <1>6 DEF Inv

LEMMA InitInv == Init => Inv
<1> SUFFICES ASSUME Init PROVE Inv
  OBVIOUS
<1>1. pc = "gdt" /\ pc \in OnHost /\ pc \in BeforeSnapshot /\ m \in Machines
  BY Places DEF Init
<1>2. \A s \in Segs : /\ cpu.seg[s] = Loaded(m.vendor, m.gdtr, m.sel[s])
                      /\ cpu.seg[s] \in Segment /\ cpu.seg[s].sel = m.sel[s]
  BY <1>1, MachineFacts, LoadedType DEF Init, Native
<1>3. /\ cpu = Native /\ expect = Native /\ cpu.trBase = m.tss /\ cpu.cr0 = m.cr0
      /\ cpu.cr4 = m.cr4 /\ cpu.lma
  BY DEF Init, Native
<1>4. Native \in RegisterFile
  <2>1. [s \in Segs |-> Loaded(m.vendor, m.gdtr, m.sel[s])] \in [Segs -> Segment]
    BY <1>1, MachineFacts, LoadedType
  <2> QED
    BY <2>1, <1>1, MachineFacts DEF Native, RegisterFile
<1>5. vmcs \in VmcsFile /\ (\A w \in Words : vmcs.ctl[w] = {}) /\ vmcs.seg["ldtr"].limit = 0
  <2>1. NoSegment \in Segment
    BY DEF NoSegment, Segment
  <2> QED
    BY <2>1 DEF Init, VmcsFile, NoSegment, Segs
<1>6. TypeInv
  BY <1>1, <1>3, <1>4, <1>5 DEF Init, TypeInv
<1>7. GdtInv /\ HostGdtInv
  BY <1>1, MachineFacts, SizeAssumption DEF Init, GdtInv, HostGdtInv, NoGdt
<1>8. CpuInv
  <2>1. {"tr", "ldtr"} \subseteq Segs
    BY DEF Segs
  <2> QED
    BY <2>1, <1>1, <1>2, <1>3, MachineFacts DEF Init, CpuInv, TssOk
<1>9. ExpectInv /\ HostInv /\ GuestInv /\ PanicsOnlyFor
  BY <1>1, Places DEF ExpectInv, HostInv, GuestInv, PanicsOnlyFor
<1>10. CtlInv /\ CopyInv
  BY <1>1, <1>5, Places DEF CtlInv, CopyInv, SelectorsDone, LimitsDone, RightsDone, BasesDone
<1> QED
  BY <1>6, <1>7, <1>8, <1>9, <1>10 DEF Inv

-----------------------------------------------------------------------------
(* The UEFI driver, and the snapshot.                                      *)

LEMMA UpdateGdtInv == Inv /\ UpdateGdt => Inv'
<1> SUFFICES ASSUME Inv, UpdateGdt PROVE Inv'
  OBVIOUS
<1> DEFINE tr == cpu.seg["tr"].sel
           g == append_tss(new_from_current(gdtr, tr), m.tss)
<1>1. /\ pc = "gdt" /\ m \in Machines /\ UNCHANGED <<m, idt, hostGdt, vmcs, activity, expect, interrupted, resets>>
      /\ gdtr = m.gdtr /\ GdtOk(gdtr) /\ tr = m.sel["tr"] /\ pc \in OnHost /\ "tr" \in Segs
  BY Places DEF Inv, TypeInv, GdtInv, CpuInv, UpdateGdt, Segs
<1>2. CASE ~(Intel /\ Uefi)
  <2>1. pc' = "host_data" /\ UNCHANGED <<cpu, gdtr>>
    BY <1>2 DEF UpdateGdt, Goto
  <2>2. Intel => tr # 0
    BY <1>1, <1>2, MachineFacts
  <2>3. TypeInv' /\ GdtInv' /\ HostGdtInv'
    BY <1>1, <2>1, Places DEF Inv, TypeInv, GdtInv, HostGdtInv, Intel, Uefi
  <2>4. CpuInv'
    BY <1>1, <2>1, <2>2, Places DEF Inv, CpuInv, TssOk, Ne, Vmxe, Intel, Uefi
  <2>5. CtlInv' /\ CopyInv'
    BY <1>1, <2>1, Places DEF Inv, CtlInv, CopyInv, SelectorsDone, LimitsDone, RightsDone, BasesDone, Intel
  <2>6. ExpectInv' /\ HostInv' /\ GuestInv' /\ PanicsOnlyFor'
    BY <2>1, Places DEF ExpectInv, HostInv, GuestInv, PanicsOnlyFor
  <2> QED
    BY <2>3, <2>4, <2>5, <2>6 DEF Inv
<1>3. CASE Intel /\ Uefi /\ (tr # 0 \/ g.tr = 0 \/ ~Fits(g))
  <2>1. pc' = "panic" /\ UNCHANGED <<cpu, gdtr>>
    BY <1>3 DEF UpdateGdt, Fail
  <2>2. CASE tr # 0
    <3>1. PanicsOnlyFor'
      BY <1>1, <1>3, <2>2, <2>1 DEF PanicsOnlyFor, Uefi
    <3> QED
      BY <3>1, <1>1, <2>1, PanicStep, Places DEF Inv, TypeInv
  <2>3. CASE tr = 0
    <3>1. gdtr.limit + 1 = Word \/ (gdtr.limit + 1 < Word /\ g.limit = gdtr.limit + 16 /\ ~Fits(g))
      BY <1>1, <1>3, <2>3, MachineFacts, AppendedTss, SizeFacts, SizeAssumption
    <3>2. gdtr.limit \in Nat /\ Word \in Nat
      BY <1>1, SizeFacts, SizeAssumption
    <3> HIDE DEF g
    <3>3. m.gdtr.limit + 1 = Word \/ m.gdtr.limit + 1 + 16 >= Word
      BY <1>1, <3>1, <3>2 DEF Fits
    <3>4. PanicsOnlyFor'
      BY <1>1, <1>3, <3>3, <2>1 DEF PanicsOnlyFor, GdtTooLarge, Intel, Uefi
    <3> QED
      BY <3>4, <1>1, <2>1, PanicStep, Places DEF Inv, TypeInv
  <2> QED
    BY <2>2, <2>3
<1>4. CASE Intel /\ Uefi /\ tr = 0 /\ g.tr # 0 /\ Fits(g)
  <2> DEFINE l == Ltr(g)
  <2>1. /\ gdtr' = l /\ pc' = "host_data"
        /\ cpu' = [cpu EXCEPT !.seg["tr"] = Loaded(m.vendor, l, g.tr), !.trBase = Base(g, g.tr)]
    BY <1>4 DEF UpdateGdt, Goto
  <2>2. gdtr.limit + 1 < Word
    BY <1>1, <1>4, MachineFacts, AppendedTss, SizeFacts, SizeAssumption
  <2>3. /\ g.limit = gdtr.limit + 16 /\ GdtOk(l) /\ l.limit = g.limit /\ Prolongs(l, gdtr)
        /\ SelectorOk(l, "tr", g.tr)
        /\ Base(l, g.tr) = m.tss % FourGB /\ Base(g, g.tr) = m.tss % FourGB
    BY <1>1, <1>4, <2>2, MachineFacts, AppendedTss
  <2> HIDE DEF l, g
  <2>4. /\ Loaded(m.vendor, l, g.tr) \in Segment /\ Loaded(m.vendor, l, g.tr).sel = g.tr
        /\ m.tss % FourGB \in Nat
    BY <1>1, <2>3, LoadedType, MachineFacts, SizeAssumption
  <2>5. /\ cpu' \in RegisterFile
        /\ cpu'.seg["tr"] = Loaded(m.vendor, l, g.tr) /\ cpu'.trBase = m.tss % FourGB
        /\ \A s \in Segs \ {"tr"} : cpu'.seg[s] = cpu.seg[s]
        /\ cpu'.cr0 = cpu.cr0 /\ cpu'.cr4 = cpu.cr4 /\ cpu'.lma = cpu.lma
    BY <1>1, <2>1, <2>3, <2>4 DEF Inv, TypeInv, RegisterFile
  <2>6. TypeInv'
    BY <1>1, <2>1, <2>5, Places DEF Inv, TypeInv
  <2>7. \A s \in Segs \ {"tr"} : /\ SelectorOk(l, s, cpu.seg[s].sel)
                                /\ Loaded(m.vendor, l, cpu.seg[s].sel) = cpu.seg[s]
    BY <1>1, <2>3, Prolonged DEF Inv, CpuInv
  <2>8. GdtInv'
    <3>1. \A ss \in m.stacks : SelectorOk(l, "ss", ss)
      BY <1>1, <2>3, Prolonged DEF Inv, GdtInv
    <3> QED
      BY <3>1, <1>1, <1>4, <2>1, <2>3 DEF GdtInv, Intel, Uefi
  <2>9. HostGdtInv'
    BY <1>1, <2>1 DEF Inv, HostGdtInv, Intel, Uefi
  <2>10. TssOk(m.tss % FourGB)
    <3>1. m.tss < FourGB => m.tss % FourGB = m.tss
      BY <1>1, MachineFacts, SizeAssumption
    <3> QED
      BY <3>1, <1>1, <1>4, MachineFacts, SizeAssumption DEF TssOk
  <2>11. CpuInv'
    <3>1. \A s \in Segs : SelectorOk(l, s, cpu'.seg[s].sel) /\ cpu'.seg[s] = Loaded(m.vendor, l, cpu'.seg[s].sel)
      BY <2>3, <2>4, <2>5, <2>7
    <3>2. cpu'.seg["tr"].sel = g.tr /\ cpu'.seg["ldtr"] = cpu.seg["ldtr"]
      BY <2>4, <2>5 DEF Segs
    <3>3. TssOk(cpu.trBase)' /\ Intel' /\ Base(l, g.tr) = cpu'.trBase
      BY <1>1, <1>4, <2>3, <2>5, <2>10 DEF TssOk, Intel, Uefi
    <3> QED
      BY <1>1, <1>4, <2>1, <2>5, <3>1, <3>2, <3>3, Places DEF Inv, CpuInv
  <2>12. CtlInv' /\ CopyInv'
    BY <1>1, <2>1, Places DEF Inv, CtlInv, CopyInv, SelectorsDone, LimitsDone, RightsDone, BasesDone, Intel
  <2>13. ExpectInv' /\ HostInv' /\ GuestInv' /\ PanicsOnlyFor'
    BY <2>1, Places DEF ExpectInv, HostInv, GuestInv, PanicsOnlyFor
  <2> QED
    BY <2>6, <2>8, <2>9, <2>11, <2>12, <2>13 DEF Inv
<1> QED
  BY <1>2, <1>3, <1>4

(* A TSS that try_from_gdtr() does not find is in a table that fills its   *)
(* 16 bits.                                                                *)
LEMMA FullGdt ==
    ASSUME Inv, pc \in OnHost, gdtr.limit + 1 = Word, Intel \/ Uefi
    PROVE  GdtTooLarge
<1>1. GdtOk(m.gdtr)
  BY MachineFacts DEF Inv, TypeInv
<1>2. m.gdtr.limit \in Nat /\ Word \in Nat
  BY <1>1, SizeFacts, SizeAssumption
<1>3. gdtr.limit = m.gdtr.limit \/ (Intel /\ Uefi /\ gdtr.limit = m.gdtr.limit + 16)
  BY DEF Inv, GdtInv
<1> QED
  BY <1>2, <1>3 DEF GdtTooLarge

LEMMA SharedHostDataInv == Inv /\ create_shared_host_data => Inv'
<1> SUFFICES ASSUME Inv, create_shared_host_data PROVE Inv'
  OBVIOUS
<1> DEFINE tr == cpu.seg["tr"].sel
<1>1. /\ pc = "host_data" /\ m \in Machines /\ GdtOk(gdtr) /\ pc \in OnHost
      /\ UNCHANGED <<m, cpu, gdtr, idt, vmcs, activity, expect, interrupted, resets>>
  BY Places DEF Inv, TypeInv, GdtInv, create_shared_host_data
<1>2. CASE Uefi /\ tr # 0 /\ ~TryFromGdtr(gdtr, tr)
  <2>1. pc' = "panic" /\ UNCHANGED hostGdt
    BY <1>2 DEF create_shared_host_data, Fail
  <2>2. SelectorOk(gdtr, "tr", tr)
    BY <1>1 DEF Inv, CpuInv, Segs
  <2>3. GdtTooLarge
    BY <1>1, <1>2, <2>2, TssEntry, FullGdt
  <2>4. PanicsOnlyFor'
    BY <1>1, <2>3, <2>1 DEF PanicsOnlyFor, GdtTooLarge, Intel, Uefi
  <2> QED
    BY <1>1, <2>1, <2>4, PanicStep, Places DEF Inv, TypeInv
<1>3. CASE ~(Uefi /\ tr # 0 /\ ~TryFromGdtr(gdtr, tr))
  <2>1. pc' = "snapshot" /\ hostGdt' = IF Uefi THEN new_from_current(gdtr, tr) ELSE NoGdt
    BY <1>3 DEF create_shared_host_data, Goto
  <2>2. TypeInv' /\ GdtInv'
    BY <1>1, <2>1, Places DEF Inv, TypeInv, GdtInv, Intel, Uefi
  <2>3. HostGdtInv'
    <3>1. CASE Uefi
      <4>1. /\ hostGdt'.tr = tr /\ hostGdt'.limit \in -1 .. (Word - 1)
            /\ \/ hostGdt'.limit = -1 /\ gdtr.limit + 1 = Word
               \/ GdtOk(hostGdt') /\ hostGdt'.limit = gdtr.limit /\ Prolongs(hostGdt', gdtr)
        BY <1>1, <2>1, <3>1, CopyOfGdt
      <4> HIDE DEF tr
      <4>2. GdtOk(hostGdt)' <=> GdtOk(hostGdt')
        BY DEF GdtOk, Size
      <4>3. Prolongs(hostGdt, gdtr)' <=> Prolongs(hostGdt', gdtr)
        BY <1>1 DEF Prolongs, Size
      <4>4. (pc = "lidt" \/ idt = "host" => ~Intel /\ Uefi)'
        BY <1>1, <2>1 DEF Inv, HostGdtInv, Intel, Uefi
      <4> QED
        BY <1>1, <2>1, <4>1, <4>2, <4>3, <4>4 DEF HostGdtInv, tr
    <3>2. CASE ~Uefi
      <4>1. hostGdt'.limit \in -1 .. (Word - 1)
        BY <2>1, <3>2, SizeAssumption DEF NoGdt
      <4> QED
        BY <1>1, <2>1, <3>2, <4>1 DEF Inv, HostGdtInv, Intel, Uefi
    <3> QED
      BY <3>1, <3>2
  <2>4. CpuInv'
    BY <1>1, <2>1, Places DEF Inv, CpuInv, TssOk, Ne, Vmxe, Intel, Uefi
  <2>5. CtlInv' /\ CopyInv'
    BY <1>1, <2>1, Places DEF Inv, CtlInv, CopyInv, SelectorsDone, LimitsDone, RightsDone, BasesDone, Intel
  <2>6. ExpectInv' /\ HostInv' /\ GuestInv' /\ PanicsOnlyFor'
    BY <2>1, Places DEF ExpectInv, HostInv, GuestInv, PanicsOnlyFor
  <2> QED
    BY <2>2, <2>3, <2>4, <2>5, <2>6 DEF Inv
<1> QED
  BY <1>2, <1>3

LEMMA SnapshotInv == Inv /\ Snapshot => Inv'
<1> SUFFICES ASSUME Inv, Snapshot PROVE Inv'
  OBVIOUS
<1>1. /\ pc = "snapshot" /\ pc' = "enable" /\ expect' = cpu
      /\ UNCHANGED <<m, cpu, gdtr, idt, hostGdt, vmcs, activity, interrupted, resets>>
  BY DEF Snapshot, Goto
<1>2. "enable" \in SettingUp
  BY DEF SettingUp
<1>3. TypeInv' /\ GdtInv' /\ HostGdtInv'
  BY <1>1, <1>2, Places DEF Inv, TypeInv, GdtInv, HostGdtInv, Intel, Uefi
<1>4. CpuInv'
  BY <1>1, <1>2, Places DEF Inv, CpuInv, TssOk, Ne, Vmxe, Intel, Uefi
<1>5. ExpectInv'
  BY <1>1, Places DEF Inv, CpuInv, ExpectInv, Kept
<1>6. CtlInv' /\ CopyInv'
  BY <1>1, <1>2, Places DEF Inv, CtlInv, CopyInv, SelectorsDone, LimitsDone, RightsDone, BasesDone, Intel
<1>7. HostInv' /\ GuestInv' /\ PanicsOnlyFor'
  BY <1>1, <1>2, Places DEF HostInv, GuestInv, PanicsOnlyFor
<1> QED
  BY <1>3, <1>4, <1>5, <1>6, <1>7 DEF Inv

LEMMA EnableInv == Inv /\ enable => Inv'
<1> SUFFICES ASSUME Inv, enable PROVE Inv'
  OBVIOUS
<1>1. /\ pc = "enable" /\ pc' = "control" /\ m \in Machines
      /\ cpu' = IF Intel THEN [cpu EXCEPT !.cr0 = get_adjusted_cr0(@), !.cr4 = get_adjusted_cr4(@)] ELSE cpu
      /\ UNCHANGED <<m, gdtr, idt, hostGdt, vmcs, activity, expect, interrupted, resets>>
  BY DEF enable, Goto, Inv, TypeInv
<1>2. /\ "enable" \in SettingUp /\ "control" \in SettingUp
      /\ "enable" \in OnHost /\ "control" \in OnHost \ (BeforeSnapshot \cup {"enable"})
  BY Places DEF SettingUp
<1>3. /\ cpu.cr0 = m.cr0 /\ cpu.cr4 = m.cr4 /\ cpu \in RegisterFile
      /\ {"PE", "PG"} \subseteq m.cr0 /\ m.cr0 \in SUBSET Cr0Fixed1 /\ m.cr4 \in SUBSET Cr4Fixed1
  BY <1>1, <1>2, MachineFacts DEF Inv, CpuInv, TypeInv
<1>4. /\ cpu' \in RegisterFile /\ cpu'.seg = cpu.seg /\ cpu'.trBase = cpu.trBase /\ cpu'.lma = cpu.lma
      /\ cpu'.cr0 = m.cr0 \cup Ne /\ cpu'.cr4 = m.cr4 \cup Vmxe
  <2>1. CASE Intel
    <3>1. /\ get_adjusted_cr0(cpu.cr0) = m.cr0 \cup {"NE"} /\ get_adjusted_cr4(cpu.cr4) = m.cr4 \cup {"VMXE"}
          /\ get_adjusted_cr0(cpu.cr0) \in SUBSET Cr0Fixed1 /\ get_adjusted_cr4(cpu.cr4) \in SUBSET Cr4Fixed1
      BY <1>3, Fixed
    <3>2. cpu' = [cpu EXCEPT !.cr0 = get_adjusted_cr0(cpu.cr0), !.cr4 = get_adjusted_cr4(cpu.cr4)]
      BY <1>1, <2>1
    <3> QED
      BY <1>3, <2>1, <3>1, <3>2 DEF RegisterFile, Ne, Vmxe
  <2>2. CASE ~Intel
    BY <1>1, <1>3, <2>2 DEF Ne, Vmxe
  <2> QED
    BY <2>1, <2>2
<1>5. TypeInv' /\ GdtInv' /\ HostGdtInv'
  BY <1>1, <1>2, <1>4, Places DEF Inv, TypeInv, GdtInv, HostGdtInv, Intel, Uefi
<1>6. CpuInv'
  BY <1>1, <1>2, <1>4, Places DEF Inv, CpuInv, TssOk, Ne, Vmxe, Intel, Uefi
<1>7. ExpectInv'
  BY <1>1, <1>2, <1>4 DEF Inv, ExpectInv, Kept
<1>8. CtlInv' /\ CopyInv'
  BY <1>1, <1>2, Places DEF Inv, CtlInv, CopyInv, SelectorsDone, LimitsDone, RightsDone, BasesDone, Intel
<1>9. HostInv' /\ GuestInv' /\ PanicsOnlyFor'
  BY <1>1, <1>2, Places DEF HostInv, GuestInv, PanicsOnlyFor
<1> QED
  BY <1>5, <1>6, <1>7, <1>8, <1>9 DEF Inv

-----------------------------------------------------------------------------
(* The set-up of the VMCS or VMCB.                                         *)

LEMMA ControlInv == Inv /\ initialize_control => Inv'
<1> SUFFICES ASSUME Inv, initialize_control PROVE Inv'
  OBVIOUS
<1>1. /\ pc = "control" /\ pc' = "selectors" /\ m \in Machines /\ vmcs \in VmcsFile
      /\ vmcs' = IF Intel THEN [vmcs EXCEPT !.ctl = [w \in Words |-> adjust_vmx_control(m, w)]]
                          ELSE [vmcs EXCEPT !.svm = SvmControls]
      /\ UNCHANGED <<m, cpu, gdtr, idt, hostGdt, activity, expect, interrupted, resets>>
  BY DEF initialize_control, Goto, Inv, TypeInv
<1>2. {"control", "selectors"} \subseteq SettingUp \ {"enable", "lidt"}
  BY DEF SettingUp
<1>3. [w \in Words |-> adjust_vmx_control(m, w)] \in [Words -> SUBSET Bits]
  BY <1>1, Adjusted
<1>4. /\ vmcs' \in VmcsFile /\ vmcs'.seg = vmcs.seg
      /\ Intel => vmcs'.ctl = [w \in Words |-> adjust_vmx_control(m, w)]
      /\ ~Intel => vmcs'.ctl = vmcs.ctl /\ vmcs'.svm = SvmControls
  BY <1>1, <1>3 DEF VmcsFile
<1>5. CtlInv'
  <2>1. ~Intel => \A w \in Words : vmcs'.ctl[w] = {}
    BY <1>4 DEF Inv, CtlInv
  <2>2. Intel => \A w \in Words : vmcs'.ctl[w] = adjust_vmx_control(m, w)
    BY <1>4
  <2>3. Intel => /\ vmcs'.ctl["entry"] \cup {"ia32e_mode_guest"} = adjust_vmx_control(m, "entry")
                 /\ "ia32e_mode_guest" \in vmcs'.ctl["entry"]
    BY <1>1, <2>2, Adjusted, EntryBit
  <2>4. Intel' <=> Intel
    BY <1>1 DEF Intel
  <2>5. \A w \in Words : adjust_vmx_control(m, w)' = adjust_vmx_control(m, w)
    BY <1>1 DEF adjust_vmx_control, Must, May
  <2>6. adjust_vmx_control(m, "entry")' = adjust_vmx_control(m, "entry")
    BY <1>1 DEF adjust_vmx_control, Must, May
  <2> QED
    BY <1>4, <2>1, <2>2, <2>3, <2>4, <2>5, <2>6 DEF CtlInv
<1>6. CopyInv'
  BY <1>1, <1>2, <1>4, Places DEF Inv, CopyInv, SelectorsDone, LimitsDone, RightsDone, BasesDone, Intel
<1>7. HostInv'
  BY <1>1, <1>2, Places DEF HostInv, Virtual
<1> QED
  BY <1>1, <1>2, <1>4, <1>5, <1>6, <1>7, SetUpStep

(* Once the control words are there, they stay through the set-up.         *)
LEMMA CtlStays ==
    ASSUME Inv, UNCHANGED m, vmcs'.ctl = vmcs.ctl, vmcs'.svm = vmcs.svm,
           pc \in SettingUp \ {"enable", "control"}
    PROVE  CtlInv'
<1>1. Intel' <=> Intel
  BY DEF Intel
<1>2. \A w : adjust_vmx_control(m, w)' = adjust_vmx_control(m, w)
  BY DEF adjust_vmx_control, Must, May
<1> QED
  BY <1>1, <1>2 DEF Inv, CtlInv

(* What the segment registers hold is what either vendor's copy finds.     *)
LEMMA CopiesOfCpu ==
    ASSUME Inv, pc \in OnHost, NEW s \in Segs
    PROVE  LET sel == cpu.seg[s].sel
           IN  /\ (IF Intel THEN Lsl(gdtr, sel) ELSE get_segment_limit(gdtr, sel)) = cpu.seg[s].limit
               /\ (IF Intel THEN AccessRights(Lar(gdtr, sel)) ELSE get_segment_access_right(gdtr, sel))
                     = cpu.seg[s].rights
               /\ cpu.seg[s] \in Segment /\ sel \in Nat
               /\ cpu.seg[s].limit \in Nat /\ cpu.seg[s].rights \in Kinds \cup {"unusable"}
<1> DEFINE sel == cpu.seg[s].sel
<1>1. GdtOk(gdtr) /\ SelectorOk(gdtr, s, sel) /\ cpu.seg[s] = Loaded(m.vendor, gdtr, sel)
  BY DEF Inv, GdtInv, CpuInv
<1>2. m.vendor = IF Intel THEN "intel" ELSE "amd"
  BY MachineFacts DEF Inv, TypeInv
<1>3. cpu.seg[s] \in Segment
  BY <1>1, LoadedType
<1> HIDE DEF sel
<1>4. /\ Lsl(gdtr, sel) = Loaded("intel", gdtr, sel).limit
      /\ AccessRights(Lar(gdtr, sel)) = Loaded("intel", gdtr, sel).rights
      /\ get_segment_limit(gdtr, sel) = Loaded("amd", gdtr, sel).limit
      /\ get_segment_access_right(gdtr, sel) = Loaded("amd", gdtr, sel).rights
  BY <1>1, Copies
<1>5. /\ (IF Intel THEN Lsl(gdtr, sel) ELSE get_segment_limit(gdtr, sel)) = cpu.seg[s].limit
      /\ (IF Intel THEN AccessRights(Lar(gdtr, sel)) ELSE get_segment_access_right(gdtr, sel))
            = cpu.seg[s].rights
  BY <1>1, <1>2, <1>4
<1> QED
  BY <1>3, <1>5 DEF Segment, sel

LEMMA SelectorsInv == Inv /\ Selectors => Inv'
<1> SUFFICES ASSUME Inv, Selectors PROVE Inv'
  OBVIOUS
<1> DEFINE new == [s \in Segs |-> IF s \in Copied THEN [vmcs.seg[s] EXCEPT !.sel = cpu.seg[s].sel]
                                                 ELSE vmcs.seg[s]]
<1>1. /\ pc = "selectors" /\ pc' = (IF Intel THEN "limits" ELSE "rights") /\ vmcs \in VmcsFile
      /\ vmcs' = [vmcs EXCEPT !.seg = new]
      /\ UNCHANGED <<m, cpu, gdtr, idt, hostGdt, activity, expect, interrupted, resets>>
  BY DEF Selectors, SetUp, Goto, Inv, TypeInv
<1>2. {"selectors", "limits", "rights"} \subseteq SettingUp \ {"enable", "control", "lidt"} /\ pc \in OnHost
  BY <1>1, Places DEF SettingUp
<1>3. \A s \in Segs : /\ vmcs.seg[s] \in Segment
                      /\ new[s] \in Segment
                      /\ new[s].limit = vmcs.seg[s].limit
                      /\ s \in Copied => new[s].sel = cpu.seg[s].sel
  <2> TAKE s \in Segs
  <2>1. vmcs.seg[s] \in Segment /\ cpu.seg[s].sel \in Nat
    BY <1>1, <1>2, CopiesOfCpu DEF VmcsFile
  <2> QED
    BY <2>1 DEF Segment
<1>4. new \in [Segs -> Segment]
  BY <1>3
<1> HIDE DEF new
<1>5. vmcs' \in VmcsFile /\ vmcs'.seg = new /\ vmcs'.ctl = vmcs.ctl /\ vmcs'.svm = vmcs.svm
  BY <1>1, <1>4 DEF VmcsFile
<1>6. CtlInv'
  BY <1>1, <1>2, <1>5, CtlStays
<1>7. CopyInv'
  <2>1. Copied' = Copied /\ Copied \subseteq Segs /\ (Intel' <=> Intel) /\ "ldtr" \in Segs
    BY <1>1 DEF Copied, Intel, Data, Segs
  <2>2. \A s \in Kept' \cap Copied : vmcs'.seg[s].sel = cpu'.seg[s].sel
    BY <1>1, <1>3, <1>5, <2>1
  <2>3. Intel => vmcs'.seg["ldtr"].limit = 0
    BY <1>2, <1>3, <1>5, <2>1 DEF Inv, CopyInv
  <2> QED
    BY <1>1, <2>1, <2>2, <2>3 DEF CopyInv, SelectorsDone, LimitsDone, RightsDone, BasesDone
<1>8. HostInv'
  BY <1>1, <1>2, Places DEF HostInv
<1> QED
  BY <1>1, <1>2, <1>5, <1>6, <1>7, <1>8, SetUpStep

LEMMA LimitsInv == Inv /\ Limits => Inv'
<1> SUFFICES ASSUME Inv, Limits PROVE Inv'
  OBVIOUS
<1> DEFINE new == [s \in Segs |->
                     IF s \in Copied \ {"ldtr"}
                       THEN [vmcs.seg[s] EXCEPT !.limit = IF Intel THEN Lsl(gdtr, cpu.seg[s].sel)
                                                          ELSE get_segment_limit(gdtr, cpu.seg[s].sel)]
                       ELSE vmcs.seg[s]]
<1>1. /\ pc = "limits" /\ pc' = (IF Intel THEN "rights" ELSE "bases") /\ vmcs \in VmcsFile
      /\ vmcs' = [vmcs EXCEPT !.seg = new]
      /\ UNCHANGED <<m, cpu, gdtr, idt, hostGdt, activity, expect, interrupted, resets>>
  BY DEF Limits, SetUp, Goto, Inv, TypeInv
<1>2. {"limits", "rights", "bases"} \subseteq SettingUp \ {"enable", "control", "lidt"} /\ pc \in OnHost
  BY <1>1, Places DEF SettingUp
<1>3. \A s \in Segs : /\ new[s] \in Segment
                      /\ new[s].sel = vmcs.seg[s].sel /\ new[s].rights = vmcs.seg[s].rights
                      /\ s \in Copied \ {"ldtr"} => new[s].limit = cpu.seg[s].limit
                      /\ s = "ldtr" => new[s] = vmcs.seg[s]
  <2> TAKE s \in Segs
  <2>1. vmcs.seg[s] \in Segment
    BY <1>1 DEF VmcsFile
  <2>2. /\ (IF Intel THEN Lsl(gdtr, cpu.seg[s].sel) ELSE get_segment_limit(gdtr, cpu.seg[s].sel))
              = cpu.seg[s].limit
        /\ cpu.seg[s].limit \in Nat
    BY <1>2, CopiesOfCpu
  <2>3. new[s] = IF s \in Copied \ {"ldtr"} THEN [vmcs.seg[s] EXCEPT !.limit = cpu.seg[s].limit]
                                             ELSE vmcs.seg[s]
    BY <2>2
  <2> HIDE DEF new
  <2> QED
    BY <2>1, <2>2, <2>3 DEF Segment
<1>4. new \in [Segs -> Segment]
  BY <1>3
<1> HIDE DEF new
<1>5. vmcs' \in VmcsFile /\ vmcs'.seg = new /\ vmcs'.ctl = vmcs.ctl /\ vmcs'.svm = vmcs.svm
  BY <1>1, <1>4 DEF VmcsFile
<1>6. CtlInv'
  BY <1>1, <1>2, <1>5, CtlStays
<1>7. CopyInv'
  <2>1. /\ Copied' = Copied /\ Copied \subseteq Segs /\ (Intel' <=> Intel) /\ {"ldtr", "ss"} \subseteq Segs
        /\ Kept' = Kept /\ Kept \subseteq Segs
    BY <1>1 DEF Copied, Intel, Data, Segs, Kept
  <2>2. \A s \in Kept \cap Copied : vmcs'.seg[s].sel = cpu'.seg[s].sel
    BY <1>1, <1>3, <1>5, <2>1 DEF Inv, CopyInv, SelectorsDone
  <2>3. \A s \in (Kept \cap Copied) \ {"ldtr"} : vmcs'.seg[s].limit = cpu'.seg[s].limit
    BY <1>1, <1>3, <1>5, <2>1
  <2>4. ~Intel => \A s \in (Kept \cap Copied) \ {"ldtr"} : vmcs'.seg[s].rights = cpu'.seg[s].rights
    BY <1>1, <1>3, <1>5, <2>1 DEF Inv, CopyInv, RightsDone
  <2>5. Intel => vmcs'.seg["ldtr"].limit = 0
    BY <1>2, <1>3, <1>5, <2>1 DEF Inv, CopyInv
  <2> QED
    BY <1>1, <2>1, <2>2, <2>3, <2>4, <2>5 DEF CopyInv, SelectorsDone, LimitsDone, RightsDone, BasesDone
<1>8. HostInv'
  BY <1>1, <1>2, Places DEF HostInv
<1> QED
  BY <1>1, <1>2, <1>5, <1>6, <1>7, <1>8, SetUpStep

LEMMA RightsInv == Inv /\ Rights => Inv'
<1> SUFFICES ASSUME Inv, Rights PROVE Inv'
  OBVIOUS
<1> DEFINE new == [s \in Segs |->
                     CASE s \notin Copied -> vmcs.seg[s]
                       [] s \in Copied \cap {"ldtr"} -> [vmcs.seg[s] EXCEPT !.rights = AccessRights("failed")]
                       [] OTHER -> [vmcs.seg[s] EXCEPT !.rights =
                                      IF Intel THEN AccessRights(Lar(gdtr, cpu.seg[s].sel))
                                               ELSE get_segment_access_right(gdtr, cpu.seg[s].sel)]]
<1>1. /\ pc = "rights" /\ pc' = (IF Intel THEN "bases" ELSE "limits") /\ vmcs \in VmcsFile
      /\ vmcs' = [vmcs EXCEPT !.seg = new]
      /\ UNCHANGED <<m, cpu, gdtr, idt, hostGdt, activity, expect, interrupted, resets>>
  BY DEF Rights, SetUp, Goto, Inv, TypeInv
<1>2. /\ {"limits", "rights", "bases"} \subseteq SettingUp \ {"enable", "control", "lidt"} /\ pc \in OnHost
      /\ "ldtr" \in Copied <=> Intel
  BY <1>1, Places DEF SettingUp, Copied, Data
<1>3. \A s \in Segs : /\ new[s] \in Segment
                      /\ new[s].sel = vmcs.seg[s].sel /\ new[s].limit = vmcs.seg[s].limit
                      /\ s \in Copied \ {"ldtr"} => new[s].rights = cpu.seg[s].rights
                      /\ s = "ldtr" /\ Intel => new[s].rights = "unusable"
  <2> TAKE s \in Segs
  <2>1. vmcs.seg[s] \in Segment
    BY <1>1 DEF VmcsFile
  <2>2. /\ (IF Intel THEN AccessRights(Lar(gdtr, cpu.seg[s].sel))
                     ELSE get_segment_access_right(gdtr, cpu.seg[s].sel)) = cpu.seg[s].rights
        /\ cpu.seg[s].rights \in Kinds \cup {"unusable"}
    BY <1>2, CopiesOfCpu
  <2>3. /\ s \notin Copied => new[s] = vmcs.seg[s]
        /\ s \in Copied /\ s = "ldtr" => new[s] = [vmcs.seg[s] EXCEPT !.rights = "unusable"]
        /\ s \in Copied /\ s # "ldtr" => new[s] = [vmcs.seg[s] EXCEPT !.rights = cpu.seg[s].rights]
    <3>1. AccessRights("failed") = "unusable"
      BY DEF AccessRights
    <3>2. s \notin Copied => new[s] = vmcs.seg[s]
      OBVIOUS
    <3>3. s \in Copied /\ s = "ldtr" => new[s] = [vmcs.seg[s] EXCEPT !.rights = AccessRights("failed")]
      OBVIOUS
    <3>4. s \in Copied /\ s # "ldtr" =>
            new[s] = [vmcs.seg[s] EXCEPT !.rights =
                        IF Intel THEN AccessRights(Lar(gdtr, cpu.seg[s].sel))
                                 ELSE get_segment_access_right(gdtr, cpu.seg[s].sel)]
      OBVIOUS
    <3> HIDE DEF new
    <3> QED
      BY <2>2, <3>1, <3>2, <3>3, <3>4
  <2> HIDE DEF new
  <2> QED
    BY <1>2, <2>1, <2>2, <2>3 DEF Segment
<1>4. new \in [Segs -> Segment]
  BY <1>3
<1> HIDE DEF new
<1>5. vmcs' \in VmcsFile /\ vmcs'.seg = new /\ vmcs'.ctl = vmcs.ctl /\ vmcs'.svm = vmcs.svm
  BY <1>1, <1>4 DEF VmcsFile
<1>6. CtlInv'
  BY <1>1, <1>2, <1>5, CtlStays
<1>7. CopyInv'
  <2>1. /\ Copied' = Copied /\ Copied \subseteq Segs /\ (Intel' <=> Intel) /\ {"ldtr", "ss"} \subseteq Segs
        /\ Kept' = Kept /\ Kept \subseteq Segs /\ "ss" \in Copied
    BY <1>1 DEF Copied, Intel, Data, Segs, Kept
  <2>2. \A s \in Kept \cap Copied : vmcs'.seg[s].sel = cpu'.seg[s].sel
    BY <1>1, <1>3, <1>5, <2>1 DEF Inv, CopyInv, SelectorsDone
  <2>3. Intel => \A s \in (Kept \cap Copied) \ {"ldtr"} : vmcs'.seg[s].limit = cpu'.seg[s].limit
    BY <1>1, <1>3, <1>5, <2>1 DEF Inv, CopyInv, LimitsDone
  <2>4. \A s \in (Kept \cap Copied) \ {"ldtr"} : vmcs'.seg[s].rights = cpu'.seg[s].rights
    BY <1>1, <1>3, <1>5, <2>1
  <2>5. Intel => vmcs'.seg["ldtr"].limit = 0
    BY <1>2, <1>3, <1>5, <2>1 DEF Inv, CopyInv
  <2>6. Intel => vmcs'.seg["ss"].rights \in {"unusable", "data"} /\ vmcs'.seg["ldtr"].rights = "unusable"
    <3>1. Intel => cpu.seg["ss"].rights \in {"unusable", "data"}
      BY <1>2, <2>1, LoadedRights, MachineFacts DEF Inv, TypeInv, GdtInv, CpuInv
    <3> QED
      BY <3>1, <1>3, <1>5, <2>1
  <2> QED
    BY <1>1, <2>1, <2>2, <2>3, <2>4, <2>5, <2>6 DEF CopyInv, SelectorsDone, LimitsDone, RightsDone, BasesDone
<1>8. HostInv'
  BY <1>1, <1>2, Places DEF HostInv
<1> QED
  BY <1>1, <1>2, <1>5, <1>6, <1>7, <1>8, SetUpStep

LEMMA BasesInv == Inv /\ Bases => Inv'
<1> SUFFICES ASSUME Inv, Bases PROVE Inv'
  OBVIOUS
<1> DEFINE tr == cpu.seg["tr"].sel
<1>1. /\ pc = "bases" /\ m \in Machines /\ vmcs \in VmcsFile /\ cpu \in RegisterFile
      /\ UNCHANGED <<m, cpu, gdtr, idt, hostGdt, activity, expect, interrupted, resets>>
  BY DEF Bases, Inv, TypeInv
<1>2. /\ {"bases", "host"} \subseteq SettingUp \ {"enable", "control", "lidt"} /\ pc \in OnHost
      /\ {"tr", "ldtr", "ss"} \subseteq Segs
  BY <1>1, Places DEF SettingUp, Segs, Data
<1>3. GdtOk(gdtr) /\ SelectorOk(gdtr, "tr", tr) /\ (Intel => tr # 0 /\ Base(gdtr, tr) = cpu.trBase) /\ cpu.lma
  BY <1>1, <1>2 DEF Inv, GdtInv, CpuInv
<1>4. CASE Intel /\ ~TryFromGdtr(gdtr, tr)
  <2>1. pc' = "panic" /\ UNCHANGED vmcs
    BY <1>4 DEF Bases, Fail
  <2>2. GdtTooLarge
    BY <1>2, <1>3, <1>4, TssEntry, FullGdt
  <2>3. PanicsOnlyFor'
    BY <1>1, <2>2, <2>1 DEF PanicsOnlyFor, GdtTooLarge, Intel, Uefi
  <2> QED
    BY <1>1, <2>1, <2>3, PanicStep, Places DEF Inv, TypeInv
<1>5. CASE ~(Intel /\ ~TryFromGdtr(gdtr, tr))
  <2>1. pc' = "host"
    BY <1>5 DEF Bases, Goto
  <2>2. /\ vmcs' \in VmcsFile /\ vmcs'.ctl = vmcs.ctl /\ vmcs'.svm = vmcs.svm
        /\ vmcs'.trBase = cpu.trBase /\ vmcs'.cr0 = cpu.cr0 /\ vmcs'.cr4 = cpu.cr4
        /\ Intel => vmcs'.seg = vmcs.seg
        /\ ~Intel => /\ vmcs'.lma
                     /\ \A s \in {"tr", "ldtr"} : vmcs'.seg[s] = cpu.seg[s]
                     /\ \A s \in Segs \ {"tr", "ldtr"} : vmcs'.seg[s] = vmcs.seg[s]
    <3>1. CASE Intel
      <4>1. vmcs' = [vmcs EXCEPT !.trBase = cpu.trBase, !.cr0 = cpu.cr0, !.cr4 = cpu.cr4]
        BY <1>3, <1>5, <3>1 DEF Bases
      <4> QED
        BY <1>1, <3>1, <4>1 DEF VmcsFile, RegisterFile
    <3>2. CASE ~Intel
      <4> DEFINE new == [vmcs.seg EXCEPT !["tr"] = cpu.seg["tr"], !["ldtr"] = cpu.seg["ldtr"]]
      <4>1. vmcs' = [vmcs EXCEPT !.trBase = cpu.trBase, !.cr0 = cpu.cr0, !.cr4 = cpu.cr4,
                                 !.lma = cpu.lma, !.seg = new]
        BY <1>1, <3>2 DEF Bases, VmcsFile
      <4>2. /\ new \in [Segs -> Segment] /\ new["tr"] = cpu.seg["tr"] /\ new["ldtr"] = cpu.seg["ldtr"]
            /\ \A s \in Segs \ {"tr", "ldtr"} : new[s] = vmcs.seg[s]
        BY <1>1, <1>2 DEF VmcsFile, RegisterFile
      <4> HIDE DEF new
      <4> QED
        BY <1>1, <1>3, <3>2, <4>1, <4>2 DEF VmcsFile, RegisterFile
    <3> QED
      BY <3>1, <3>2
  <2>3. CtlInv'
    BY <1>1, <1>2, <2>2, CtlStays
  <2>4. CopyInv'
    <3>1. /\ Copied' = Copied /\ (Intel' <=> Intel) /\ Kept' = Kept /\ Kept \subseteq Segs
          /\ (~Intel => Copied = Data /\ Data \subseteq Segs \ {"tr", "ldtr"})
      BY <1>1 DEF Copied, Intel, Data, Segs, Kept
    <3>2. \A s \in Kept \cap Copied : vmcs'.seg[s] = vmcs.seg[s]
      BY <2>2, <3>1
    <3>3. Intel => vmcs'.seg["ldtr"] = vmcs.seg["ldtr"] /\ vmcs'.seg["ss"] = vmcs.seg["ss"]
      BY <2>2
    <3>4. SelectorsDone /\ LimitsDone /\ RightsDone
      BY <1>1 DEF SelectorsDone, LimitsDone, RightsDone
    <3> QED
      BY <1>1, <1>2, <2>1, <2>2, <3>1, <3>2, <3>3, <3>4, Places DEF Inv, CopyInv, BasesDone
  <2>5. HostInv'
    BY <1>2, <2>1, Places DEF HostInv
  <2> QED
    BY <1>1, <1>2, <2>1, <2>2, <2>3, <2>4, <2>5, SetUpStep
<1> QED
  BY <1>4, <1>5

LEMMA VmxHostInv == Inv /\ VmxHost => Inv'
<1> SUFFICES ASSUME Inv, VmxHost PROVE Inv'
  OBVIOUS
<1> DEFINE tr == cpu.seg["tr"].sel
<1>1. /\ pc = "host" /\ Intel /\ m \in Machines /\ vmcs \in VmcsFile
      /\ UNCHANGED <<m, cpu, gdtr, idt, hostGdt, activity, expect, interrupted, resets>>
  BY DEF VmxHost, SetUp, Inv, TypeInv
<1>2. /\ {"host", "start"} \subseteq SettingUp \ {"enable", "control", "lidt"} /\ pc \in OnHost \ {"gdt", "host_data"}
      /\ Data \cup {"tr"} \subseteq Segs /\ {"cs", "tr"} \subseteq Data \cup {"tr"}
  BY <1>1, Places DEF SettingUp, Segs, Data
<1>3. /\ GdtOk(gdtr) /\ tr # 0 /\ (Uefi => hostGdt.tr = tr)
      /\ \A s \in Segs : SelectorOk(gdtr, s, cpu.seg[s].sel)
  BY <1>1, <1>2 DEF Inv, GdtInv, CpuInv, HostGdtInv
<1>4. CASE ~Uefi /\ ~TryFromGdtr(gdtr, tr)
  <2>1. pc' = "panic" /\ UNCHANGED vmcs
    BY <1>4 DEF VmxHost, Fail
  <2>2. GdtTooLarge
    BY <1>1, <1>2, <1>3, <1>4, TssEntry, FullGdt
  <2>3. PanicsOnlyFor'
    BY <1>1, <2>2, <2>1 DEF PanicsOnlyFor, GdtTooLarge, Intel, Uefi
  <2> QED
    BY <1>1, <2>1, <2>3, PanicStep, Places DEF Inv, TypeInv
<1>5. CASE ~(~Uefi /\ ~TryFromGdtr(gdtr, tr))
  <2>1. pc' = "start" /\ vmcs' = [vmcs EXCEPT !.host = HostSelectors]
    BY <1>5 DEF VmxHost, SetUp, Goto
  <2>2. HostSelectors = [s \in Data \cup {"tr"} |-> WithoutRpl(cpu.seg[s].sel)]
    BY <1>3 DEF HostSelectors
  <2>3. /\ HostSelectors \in [Data \cup {"tr"} -> Nat]
        /\ \A s \in Data \cup {"tr"} : HostSelectors[s] % 8 = 0
        /\ HostSelectors["cs"] # 0 /\ HostSelectors["tr"] # 0
    <3>1. \A s \in Data \cup {"tr"} : cpu.seg[s].sel \in Nat
      BY <1>2, <1>3 DEF SelectorOk
    <3>2. Index(cpu.seg["cs"].sel) # 0 /\ Index(tr) # 0
      BY <1>2, <1>3 DEF SelectorOk
    <3> QED
      BY <1>2, <2>2, <3>1, <3>2, IndexFacts
  <2>4. /\ vmcs' \in VmcsFile /\ vmcs'.ctl = vmcs.ctl /\ vmcs'.svm = vmcs.svm /\ vmcs'.seg = vmcs.seg
        /\ vmcs'.host = HostSelectors /\ vmcs'.trBase = vmcs.trBase /\ vmcs'.cr0 = vmcs.cr0
        /\ vmcs'.cr4 = vmcs.cr4
    BY <1>1, <2>1, <2>3 DEF VmcsFile
  <2>5. CtlInv'
    BY <1>1, <1>2, <2>4, CtlStays
  <2>6. CopyInv'
    BY <1>1, <1>2, <2>1, <2>4, Places DEF Inv, CopyInv, SelectorsDone, LimitsDone, RightsDone, BasesDone,
       Kept, Copied, Intel
  <2>7. HostInv'
    BY <2>3, <2>4 DEF HostInv
  <2> QED
    BY <1>1, <1>2, <2>1, <2>4, <2>5, <2>6, <2>7, SetUpStep
<1> QED
  BY <1>4, <1>5

LEMMA SvmHostGdtInv == Inv /\ SvmHostGdt => Inv'
<1> SUFFICES ASSUME Inv, SvmHostGdt PROVE Inv'
  OBVIOUS
<1> DEFINE tr == cpu.seg["tr"].sel
<1>1. /\ pc = "host" /\ ~Intel /\ m \in Machines
      /\ UNCHANGED <<m, cpu, idt, hostGdt, vmcs, activity, expect, interrupted, resets>>
  BY DEF SvmHostGdt, Inv, TypeInv
<1>2. /\ {"host", "start"} \subseteq SettingUp \ {"enable", "control", "lidt"} /\ pc \in OnHost \ {"gdt", "host_data"}
      /\ "lidt" \in SettingUp
  BY <1>1, Places DEF SettingUp
<1>3. /\ GdtOk(gdtr) /\ tr = m.sel["tr"]
      /\ Uefi => \/ hostGdt.limit = -1 /\ gdtr.limit + 1 = Word
                 \/ GdtOk(hostGdt) /\ hostGdt.limit = gdtr.limit /\ Prolongs(hostGdt, gdtr)
  BY <1>1, <1>2 DEF Inv, GdtInv, CpuInv, HostGdtInv
<1>4. CASE ~Uefi
  <2>1. pc' = "start" /\ UNCHANGED gdtr
    BY <1>4 DEF SvmHostGdt, Goto
  <2>2. CtlInv'
    BY <1>1, <1>2, CtlStays
  <2>3. CopyInv' /\ HostInv'
    BY <1>1, <1>2, <2>1, Places DEF Inv, CopyInv, HostInv, SelectorsDone, LimitsDone, RightsDone, BasesDone,
       Kept, Copied, Intel
  <2> QED
    BY <1>1, <1>2, <2>1, <2>2, <2>3, SetUpStep DEF Inv, TypeInv
<1>5. CASE Uefi /\ (tr # 0 \/ ~Fits(hostGdt))
  <2>1. pc' = "panic" /\ UNCHANGED gdtr
    BY <1>5 DEF SvmHostGdt, Fail
  <2>2. tr # 0 \/ GdtTooLarge
    <3>1. GdtOk(hostGdt) => Fits(hostGdt)
      BY SizeAssumption DEF GdtOk, Fits
    <3> QED
      BY <3>1, <1>2, <1>3, <1>5, FullGdt
  <2>3. PanicsOnlyFor'
    BY <1>1, <1>3, <1>5, <2>2, <2>1 DEF PanicsOnlyFor, GdtTooLarge, Intel, Uefi
  <2> QED
    BY <1>1, <2>1, <2>3, PanicStep, Places DEF Inv, TypeInv
<1>6. CASE Uefi /\ tr = 0 /\ Fits(hostGdt)
  <2>1. pc' = "lidt" /\ gdtr' = hostGdt
    BY <1>6 DEF SvmHostGdt, Goto
  <2>2. GdtOk(hostGdt) /\ hostGdt.limit = gdtr.limit /\ Prolongs(hostGdt, gdtr)
    BY <1>3, <1>6 DEF Fits
  <2>3. TypeInv'
    BY <1>1, <1>2, <2>1, Places DEF Inv, TypeInv
  <2>4. GdtInv'
    <3>1. \A ss \in m.stacks : SelectorOk(hostGdt, "ss", ss)
      BY <1>3, <2>2, Prolonged DEF Inv, GdtInv
    <3> QED
      BY <3>1, <1>1, <2>1, <2>2 DEF Inv, GdtInv, Intel, Uefi
  <2>5. HostGdtInv'
    <3>1. Prolongs(hostGdt, hostGdt)
      BY <2>2, SizeFacts DEF Prolongs
    <3> QED
      BY <3>1, <1>1, <1>2, <1>6, <2>1, <2>2 DEF Inv, HostGdtInv, Intel, Uefi, Prolongs, Size, GdtOk
  <2>6. CpuInv'
    <3>1. \A s \in Segs : /\ SelectorOk(hostGdt, s, cpu.seg[s].sel)
                          /\ cpu.seg[s] = Loaded(m.vendor, hostGdt, cpu.seg[s].sel)
      BY <1>2, <1>3, <2>2, Prolonged DEF Inv, CpuInv
    <3> QED
      BY <3>1, <1>1, <1>2, <1>6, <2>1, Places DEF Inv, CpuInv, TssOk, Ne, Vmxe, Intel, Uefi
  <2>7. ExpectInv'
    BY <1>1, <1>2 DEF Inv, ExpectInv, Kept
  <2>8. CtlInv'
    BY <1>1, <1>2, CtlStays
  <2>9. CopyInv'
    BY <1>1, <2>1, Places DEF Inv, CopyInv, SelectorsDone, LimitsDone, RightsDone, BasesDone,
       Kept, Copied, Intel
  <2>10. HostInv' /\ GuestInv' /\ PanicsOnlyFor'
    BY <1>2, <2>1, Places DEF HostInv, GuestInv, PanicsOnlyFor
  <2> QED
    BY <2>3, <2>4, <2>5, <2>6, <2>7, <2>8, <2>9, <2>10 DEF Inv
<1> QED
  BY <1>4, <1>5, <1>6

LEMMA SvmHostIdtInv == Inv /\ SvmHostIdt => Inv'
<1> SUFFICES ASSUME Inv, SvmHostIdt PROVE Inv'
  OBVIOUS
<1>1. /\ pc = "lidt" /\ pc' = "start" /\ idt' = "host"
      /\ UNCHANGED <<m, cpu, gdtr, hostGdt, vmcs, activity, expect, interrupted, resets>>
  BY DEF SvmHostIdt, Goto
<1>2. {"lidt", "start"} \subseteq SettingUp \ {"enable", "control"} /\ ~Intel /\ Uefi
  BY <1>1 DEF SettingUp, Inv, HostGdtInv
<1>3. TypeInv' /\ GdtInv' /\ HostGdtInv'
  BY <1>1, <1>2, Places DEF Inv, TypeInv, GdtInv, HostGdtInv, Intel, Uefi
<1>4. CpuInv'
  BY <1>1, <1>2, Places DEF Inv, CpuInv, TssOk, Ne, Vmxe, Intel, Uefi
<1>5. ExpectInv'
  BY <1>1, <1>2 DEF Inv, ExpectInv, Kept
<1>6. CtlInv'
  BY <1>1, <1>2, CtlStays
<1>7. CopyInv'
  BY <1>1, <1>2, Places DEF Inv, CopyInv, SelectorsDone, LimitsDone, RightsDone, BasesDone,
     Kept, Copied, Intel
<1>8. HostInv' /\ GuestInv' /\ PanicsOnlyFor'
  BY <1>1, <1>2, Places DEF HostInv, GuestInv, PanicsOnlyFor, Intel
<1> QED
  BY <1>3, <1>4, <1>5, <1>6, <1>7, <1>8 DEF Inv

LEMMA InterruptInv ==
    ASSUME Inv, NEW ss \in m.stacks, Interrupt(ss)
    PROVE  Inv'
<1>1. /\ pc \in SettingUp /\ pc \in OnHost /\ interrupted' = TRUE /\ m \in Machines /\ cpu \in RegisterFile
      /\ UNCHANGED <<m, gdtr, idt, hostGdt, vmcs, activity, expect, resets>>
  BY Places DEF Interrupt, Inv, TypeInv
<1>2. CASE idt = "host"
  <2>1. pc' = "unexpected_interrupt" /\ UNCHANGED cpu
    BY <1>2 DEF Interrupt, Goto
  <2>2. PanicsOnlyFor'
    BY <1>1, <1>2, <2>1 DEF Inv, HostGdtInv, PanicsOnlyFor, Intel, Uefi
  <2> QED
    BY <1>1, <2>1, <2>2, PanicStep, Places
<1>3. CASE idt # "host"
  <2> DEFINE new == Loaded(m.vendor, gdtr, ss)
  <2>1. cpu' = [cpu EXCEPT !.seg["ss"] = new] /\ UNCHANGED pc
    BY <1>3 DEF Interrupt
  <2>2. GdtOk(gdtr) /\ SelectorOk(gdtr, "ss", ss) /\ new \in Segment /\ new.sel = ss
    BY <1>1, LoadedType DEF Inv, GdtInv
  <2> HIDE DEF new
  <2>3. /\ cpu' \in RegisterFile /\ cpu'.seg["ss"] = new
        /\ \A s \in Segs \ {"ss"} : cpu'.seg[s] = cpu.seg[s]
        /\ cpu'.trBase = cpu.trBase /\ cpu'.cr0 = cpu.cr0 /\ cpu'.cr4 = cpu.cr4 /\ cpu'.lma = cpu.lma
    BY <1>1, <2>1, <2>2 DEF RegisterFile, Segs, Data
  <2>4. cpu'.seg["tr"] = cpu.seg["tr"] /\ cpu'.seg["ldtr"] = cpu.seg["ldtr"]
    BY <2>3 DEF Segs
  <2>5. TypeInv' /\ GdtInv' /\ HostGdtInv'
    BY <1>1, <2>1, <2>3, <2>4 DEF Inv, TypeInv, GdtInv, HostGdtInv, Intel, Uefi
  <2>6. \A s \in Segs : /\ SelectorOk(gdtr, s, cpu'.seg[s].sel)
                        /\ cpu'.seg[s] = Loaded(m.vendor, gdtr, cpu'.seg[s].sel)
    BY <1>1, <2>2, <2>3 DEF Inv, CpuInv, new
  <2>7. CpuInv'
    BY <1>1, <2>1, <2>3, <2>4, <2>6, Places DEF Inv, CpuInv, TssOk, Ne, Vmxe, Intel, Uefi
  <2>8. Kept' = Segs \ {"ss"} /\ Kept' \subseteq Kept
    BY <1>1 DEF Kept
  <2>9. ExpectInv'
    BY <1>1, <2>1, <2>3, <2>8 DEF Inv, ExpectInv
  <2>10. CtlInv'
    BY <1>1, <2>1 DEF Inv, CtlInv, Intel, adjust_vmx_control, Must, May
  <2>11. CopyInv'
    <3>1. /\ Copied' = Copied /\ (Intel' <=> Intel) /\ (SelectorsDone' <=> SelectorsDone)
          /\ (LimitsDone' <=> LimitsDone) /\ (RightsDone' <=> RightsDone) /\ (BasesDone' <=> BasesDone)
      BY <1>1, <2>1 DEF Copied, Intel, SelectorsDone, LimitsDone, RightsDone, BasesDone
    <3> QED
      BY <1>1, <2>1, <2>3, <2>4, <2>8, <3>1 DEF Inv, CopyInv
  <2>12. HostInv' /\ GuestInv' /\ PanicsOnlyFor'
    BY <1>1, <2>1, Places DEF Inv, HostInv, GuestInv, PanicsOnlyFor, Intel, Virtual
  <2> QED
    BY <2>5, <2>7, <2>9, <2>10, <2>11, <2>12 DEF Inv
<1> QED
  BY <1>2, <1>3

LEMMA SegmentsEqual ==
    ASSUME NEW a \in Segment, NEW b \in Segment, a.sel = b.sel, a.rights = b.rights, a.limit = b.limit
    PROVE  a = b
BY DEF Segment

(* The first VM entry: everything has been copied.                         *)
LEMMA StartInv == Inv /\ Start => Inv'
<1> SUFFICES ASSUME Inv, Start PROVE Inv'
  OBVIOUS
<1>1. /\ pc = "start" /\ pc' = "entry" /\ m \in Machines /\ vmcs \in VmcsFile /\ cpu \in RegisterFile
      /\ UNCHANGED <<m, cpu, gdtr, idt, hostGdt, vmcs, activity, expect, interrupted, resets>>
  BY DEF Start, Goto, Inv, TypeInv
<1>2. /\ "start" \in SettingUp \ {"enable", "control"} /\ "start" \in OnHost \ (BeforeSnapshot \cup {"enable"})
      /\ "entry" \in Virtual /\ Segs = Data \cup {"tr", "ldtr"} /\ Data = {"cs", "ss", "ds"}
  BY Places DEF SettingUp, Virtual, Segs, Data
<1>3. SelectorsDone /\ LimitsDone /\ RightsDone /\ BasesDone
  BY <1>1 DEF SelectorsDone, LimitsDone, RightsDone, BasesDone
<1>4. \A s \in Segs : vmcs.seg[s] \in Segment /\ cpu.seg[s] \in Segment
  BY <1>1 DEF VmcsFile, RegisterFile
<1>5. \A s \in (Kept \cap Copied) \ {"ldtr"} : vmcs.seg[s] = cpu.seg[s]
  <2> TAKE s \in (Kept \cap Copied) \ {"ldtr"}
  <2>1. s \in Segs
    BY DEF Kept
  <2> QED
    BY <2>1, <1>3, <1>4, SegmentsEqual DEF Inv, CopyInv
<1>6. \A s \in Segs : s \notin Lost => vmcs.seg[s] = expect.seg[s]
  <2> TAKE s \in Segs
  <2> SUFFICES ASSUME s \notin Lost PROVE vmcs.seg[s] = expect.seg[s]
    OBVIOUS
  <2>1. s \in Kept /\ expect.seg[s] = cpu.seg[s] /\ ~resets
    BY <1>1, <1>2 DEF Inv, CpuInv, ExpectInv, Kept, Lost
  <2>2. CASE s # "ldtr" /\ s \in Copied
    BY <1>5, <2>1, <2>2
  <2>3. CASE s # "ldtr" /\ s \notin Copied
    BY <1>2, <1>3, <2>1, <2>3 DEF Inv, CopyInv, Copied
  <2>4. CASE s = "ldtr" /\ ~Intel
    BY <1>2, <1>3, <2>1, <2>4 DEF Inv, CopyInv
  <2>5. CASE s = "ldtr" /\ Intel
    <3>1. m.sel["ldtr"] = 0
      BY <2>1, <2>5 DEF Lost
    <3>2. /\ vmcs.seg[s].sel = cpu.seg[s].sel /\ vmcs.seg[s].limit = 0 /\ vmcs.seg[s].rights = "unusable"
          /\ cpu.seg[s].sel = 0 /\ cpu.seg[s] = Loaded(m.vendor, gdtr, 0)
      BY <1>1, <1>2, <1>3, <2>1, <2>5, <3>1 DEF Inv, CopyInv, CpuInv, Copied
    <3>3. Unloaded(0)
      BY SMT DEF Unloaded, Index, InLdt
    <3>4. cpu.seg[s].limit = 0 /\ cpu.seg[s].rights = "unusable"
      BY <3>2, <3>3, <2>5 DEF Loaded, Intel
    <3> QED
      BY <1>4, <2>1, <3>2, <3>4, SegmentsEqual
  <2> QED
    BY <2>2, <2>3, <2>4, <2>5
<1>7. /\ vmcs.cr0 = m.cr0 \cup Ne /\ vmcs.cr4 = m.cr4 \cup Vmxe /\ vmcs.trBase = cpu.trBase
      /\ expect.cr0 = m.cr0 /\ expect.cr4 = m.cr4 /\ expect.lma /\ TssOk(cpu.trBase) /\ ~resets
  BY <1>1, <1>2, <1>3 DEF Inv, CopyInv, CpuInv, ExpectInv
<1>8. Entered.lma /\ Entered.lma \in BOOLEAN /\ expect.lma \in BOOLEAN
  BY <1>1, <1>2, <1>3 DEF Inv, TypeInv, CtlInv, CopyInv, Entered, Ia32e, VmcsFile, RegisterFile
<1>9. /\ Entered.seg = vmcs.seg /\ Entered.trBase = vmcs.trBase /\ Entered.cr0 = vmcs.cr0 /\ Entered.cr4 = vmcs.cr4
  BY DEF Entered
<1>10. Intel => /\ vmcs.seg["tr"].rights = "busy_tss" /\ vmcs.seg["cs"].rights = "code64"
                /\ vmcs.seg["ldtr"].rights = "unusable"
                /\ \A s \in {"ss", "ds"} : vmcs.seg[s].rights \in {"unusable", "data"}
  <2> SUFFICES ASSUME Intel PROVE /\ vmcs.seg["tr"].rights = "busy_tss" /\ vmcs.seg["cs"].rights = "code64"
                                  /\ vmcs.seg["ldtr"].rights = "unusable"
                                  /\ \A s \in {"ss", "ds"} : vmcs.seg[s].rights \in {"unusable", "data"}
    OBVIOUS
  <2>1. {"tr", "cs", "ds"} \subseteq (Kept \cap Copied) \ {"ldtr"}
    BY <1>2 DEF Kept, Copied
  <2>2. /\ GdtOk(gdtr) /\ m.vendor = "intel"
        /\ \A s \in Segs : SelectorOk(gdtr, s, cpu.seg[s].sel) /\ cpu.seg[s] = Loaded("intel", gdtr, cpu.seg[s].sel)
        /\ cpu.seg["tr"].sel # 0
    BY <1>1, <1>2 DEF Inv, GdtInv, CpuInv, Intel
  <2>3. cpu.seg["tr"].rights = "busy_tss" /\ cpu.seg["cs"].rights = "code64" /\ cpu.seg["ds"].rights \in {"unusable", "data"}
    BY <1>2, <2>2, LoadedRights
  <2>4. vmcs.seg["ldtr"].rights = "unusable" /\ vmcs.seg["ss"].rights \in {"unusable", "data"}
    BY <1>3 DEF Inv, CopyInv
  <2> QED
    BY <1>5, <2>1, <2>3, <2>4
<1>11. ModeOk(Entered)
  <2>1. {"PE", "PG"} \subseteq m.cr0 /\ "PAE" \in m.cr4
    BY <1>1, MachineFacts
  <2>2. Intel => "NE" \in vmcs.cr0 /\ "VMXE" \in vmcs.cr4
    BY <1>7 DEF Ne, Vmxe
  <2> QED
    BY <1>7, <1>8, <1>9, <1>10, <2>1, <2>2 DEF ModeOk
<1>12. Follows(Entered)
  BY <1>6, <1>7, <1>8, <1>9 DEF Follows
<1>13. GuestInv'
  <2>1. ModeOk(Entered)' <=> ModeOk(Entered)
    BY <1>1 DEF ModeOk, Entered, Intel, Ia32e
  <2>2. Follows(Entered)' <=> Follows(Entered)
    BY <1>1 DEF Follows, Entered, Intel, Ia32e, Uefi, CanBeReset, Lost, Ne, Vmxe, TssOk
  <2> QED
    BY <1>1, <1>11, <1>12, <2>1, <2>2 DEF GuestInv
<1>14. TypeInv' /\ GdtInv' /\ HostGdtInv'
  BY <1>1, <1>2, Places DEF Inv, TypeInv, GdtInv, HostGdtInv, Intel, Uefi
<1>15. CpuInv' /\ ExpectInv' /\ PanicsOnlyFor'
  BY <1>1, <1>2, Places DEF CpuInv, ExpectInv, PanicsOnlyFor
<1>16. CtlInv'
  BY <1>1, <1>2, CtlStays
<1>17. CopyInv'
  BY <1>1, <1>2, Places DEF CopyInv, SelectorsDone, LimitsDone, RightsDone, BasesDone
<1>18. HostInv'
  BY <1>1, <1>2 DEF Inv, HostInv, Intel
<1> QED
  BY <1>13, <1>14, <1>15, <1>16, <1>17, <1>18 DEF Inv

-----------------------------------------------------------------------------
(* VM entries and exits.                                                   *)

LEMMA VirtualStep ==
    ASSUME Inv, pc \in Virtual, pc' \in Virtual, UNCHANGED <<m, gdtr, idt, hostGdt, interrupted>>,
           TypeInv', CtlInv', HostInv', GuestInv'
    PROVE  Inv'
<1>1. GdtInv' /\ HostGdtInv'
  BY Places DEF Inv, GdtInv, HostGdtInv, Intel, Uefi, Virtual
<1>2. CpuInv' /\ ExpectInv' /\ PanicsOnlyFor'
  BY Places DEF CpuInv, ExpectInv, PanicsOnlyFor
<1>3. CopyInv'
  BY Places DEF CopyInv, SelectorsDone, LimitsDone, RightsDone, BasesDone, Virtual
<1> QED
  BY <1>1, <1>2, <1>3 DEF Inv

LEMMA EnteredType == TypeInv => /\ Entered \in RegisterFile
                                /\ Entered.seg = vmcs.seg /\ Entered.trBase = vmcs.trBase
                                /\ Entered.cr0 = vmcs.cr0 /\ Entered.cr4 = vmcs.cr4
                                /\ Intel => (Entered.lma <=> Ia32e)
                                /\ ~Intel => Entered.lma = vmcs.lma
<1> SUFFICES ASSUME TypeInv PROVE /\ Entered \in RegisterFile
                                  /\ Entered.seg = vmcs.seg /\ Entered.trBase = vmcs.trBase
                                  /\ Entered.cr0 = vmcs.cr0 /\ Entered.cr4 = vmcs.cr4
                                  /\ Intel => (Entered.lma <=> Ia32e)
                                  /\ ~Intel => Entered.lma = vmcs.lma
  OBVIOUS
<1> DEFINE l == IF Intel THEN Ia32e ELSE vmcs.lma
<1>1. l \in BOOLEAN /\ (Intel => (l <=> Ia32e)) /\ (~Intel => l = vmcs.lma)
  <2>1. Ia32e \in BOOLEAN
    BY DEF Ia32e
  <2>2. vmcs.lma \in BOOLEAN
    BY DEF TypeInv, VmcsFile
  <2> QED
    BY <2>1, <2>2
<1>2. Entered = [seg |-> vmcs.seg, trBase |-> vmcs.trBase, cr0 |-> vmcs.cr0, cr4 |-> vmcs.cr4, lma |-> l]
  BY DEF Entered
<1> HIDE DEF l
<1>3. Entered \in RegisterFile
  BY <1>1, <1>2 DEF TypeInv, VmcsFile, RegisterFile
<1>4. Entered.lma = l
  BY <1>2
<1> QED
  BY <1>1, <1>2, <1>3, <1>4

LEMMA EntrySucceeds ==
    ASSUME Inv, pc = "entry"
    PROVE  EntryOk
<1>1. m \in Machines /\ vmcs \in VmcsFile /\ pc \in Virtual /\ ModeOk(Entered)
  BY DEF Inv, TypeInv, GuestInv, Virtual
<1>2. /\ Entered.seg = vmcs.seg /\ Entered.cr0 = vmcs.cr0 /\ Entered.cr4 = vmcs.cr4
      /\ Intel => (Entered.lma <=> Ia32e)
      /\ ~Intel => Entered.lma = vmcs.lma
  BY EnteredType DEF Inv
<1>3. CASE ~Intel
  <2>1. vmcs.svm = SvmControls
    BY <1>1, <1>3 DEF Inv, CtlInv
  <2>2. vmcs.lma => {"PE", "PG"} \subseteq vmcs.cr0 /\ "PAE" \in vmcs.cr4
    BY <1>1, <1>2, <1>3 DEF ModeOk
  <2>3. {"intercept_vmrun", "asid"} \subseteq vmcs.svm
    BY <2>1 DEF SvmControls
  <2> QED
    BY <1>3, <2>2, <2>3 DEF EntryOk, VmrunOk
<1>4. CASE Intel
  <2>1. /\ \A w \in Words \ {"entry"} : vmcs.ctl[w] = adjust_vmx_control(m, w)
        /\ vmcs.ctl["entry"] \cup {"ia32e_mode_guest"} = adjust_vmx_control(m, "entry")
    BY <1>1, <1>4 DEF Inv, CtlInv
  <2>2. ControlsOk
    <3>1. \A w \in Words \ {"entry"} : Must(m, w) \subseteq vmcs.ctl[w] /\ vmcs.ctl[w] \subseteq May(m, w)
      BY <1>1, <2>1, Adjusted
    <3>2. Must(m, "entry") \subseteq vmcs.ctl["entry"] /\ vmcs.ctl["entry"] \subseteq May(m, "entry")
      BY <1>1, <2>1, Adjusted, EntryBit
    <3> QED
      BY <3>1, <3>2 DEF ControlsOk
  <2>3. HostOk
    <3>1. vmcs.ctl["exit"] = adjust_vmx_control(m, "exit") /\ DOMAIN vmcs.host = Data \cup {"tr"}
      BY <1>1, <2>1, EntryBit DEF VmcsFile
    <3> QED
      BY <3>1, <1>1, <1>4, Adjusted DEF Inv, HostInv, HostOk
  <2>4. Unrestricted <=> "unrestricted_guest" \in m.secondary
    BY <1>1, <2>1, Adjusted, EntryBit DEF Unrestricted
  <2>5. Cr0Ok
    <3>1. vmcs.cr0 \subseteq Cr0Fixed1 /\ "NE" \in vmcs.cr0 /\ ("PG" \in vmcs.cr0 => "PE" \in vmcs.cr0)
      BY <1>1, <1>2, <1>4 DEF ModeOk, VmcsFile
    <3>2. {"PE", "PG"} \subseteq vmcs.cr0 \/ Unrestricted
      BY <1>1, <1>2, <1>4, <2>4 DEF ModeOk
    <3> QED
      BY <3>1, <3>2 DEF Cr0Ok, Cr0Fixed0
  <2>6. Cr4Fixed0 \subseteq vmcs.cr4 /\ vmcs.cr4 \subseteq Cr4Fixed1
    BY <1>1, <1>2, <1>4 DEF ModeOk, VmcsFile, Cr4Fixed0
  <2>7. GuestOk
    BY <1>1, <1>2, <1>4, <2>5, <2>6 DEF ModeOk, GuestOk
  <2> QED
    BY <1>4, <2>2, <2>3, <2>7 DEF EntryOk
<1> QED
  BY <1>3, <1>4

LEMMA EnterInv == Inv /\ Enter => Inv'
<1> SUFFICES ASSUME Inv, Enter PROVE Inv'
  OBVIOUS
<1>1. /\ pc = "entry" /\ pc' = "guest" /\ cpu' = Entered
      /\ UNCHANGED <<m, gdtr, idt, hostGdt, vmcs, activity, expect, interrupted, resets>>
  BY EntrySucceeds DEF Enter, Goto
<1>2. pc \in Virtual /\ pc' \in Virtual
  BY <1>1 DEF Virtual
<1>3. TypeInv'
  BY <1>1, <1>2, EnteredType DEF Inv, TypeInv
<1>4. CtlInv'
  BY <1>1, <1>2, Places DEF Inv, CtlInv, Intel, adjust_vmx_control, Must, May
<1>5. HostInv'
  BY <1>1, <1>2 DEF Inv, HostInv, Intel
<1>6. ModeOk(Entered) /\ Follows(Entered)
  BY <1>1 DEF Inv, GuestInv
<1> DEFINE r == Entered
<1> HIDE DEF r
<1>7. ModeOk(cpu)' /\ Follows(cpu)'
  <2>1. cpu' = r /\ ModeOk(r) /\ Follows(r)
    BY <1>1, <1>6 DEF r
  <2> QED
    BY <1>1, <2>1 DEF ModeOk, Follows, Intel, Uefi, CanBeReset, Lost, Ne, Vmxe, TssOk
<1>8. GuestInv'
  BY <1>1, <1>7 DEF GuestInv
<1> QED
  BY <1>1, <1>2, <1>3, <1>4, <1>5, <1>8, VirtualStep

(* What an exit saves.                                                     *)
LEMMA SavedFacts ==
    ASSUME Inv, pc = "guest"
    PROVE  /\ Saved \in VmcsFile
           /\ Saved.seg = cpu.seg /\ Saved.trBase = cpu.trBase /\ Saved.cr0 = cpu.cr0 /\ Saved.cr4 = cpu.cr4
           /\ ~Intel => Saved.lma = cpu.lma
           /\ Saved.svm = vmcs.svm /\ Saved.host = vmcs.host
           /\ \A w \in Words \ {"entry"} : Saved.ctl[w] = vmcs.ctl[w]
           /\ ~Intel => Saved.ctl["entry"] = {}
           /\ Intel => /\ Saved.ctl["entry"] \cup {"ia32e_mode_guest"} = adjust_vmx_control(m, "entry")
                       /\ "ia32e_mode_guest" \in Saved.ctl["entry"] <=> cpu.lma
<1>1. /\ vmcs \in VmcsFile /\ cpu \in RegisterFile /\ pc \in Virtual
      /\ "entry" \in Words /\ "ia32e_mode_guest" \in Bits
  BY EntryBit DEF Inv, TypeInv, Virtual
<1> DEFINE e == IF Intel /\ cpu.lma THEN vmcs.ctl["entry"] \cup {"ia32e_mode_guest"}
                                    ELSE vmcs.ctl["entry"] \ {"ia32e_mode_guest"}
           c == [vmcs.ctl EXCEPT !["entry"] = e]
           l == IF Intel THEN vmcs.lma ELSE cpu.lma
<1>2. Saved = [vmcs EXCEPT !.seg = cpu.seg, !.trBase = cpu.trBase, !.cr0 = cpu.cr0, !.cr4 = cpu.cr4,
                           !.lma = l, !.ctl = c]
  BY <1>1 DEF Saved, VmcsFile
<1>3. e \in SUBSET Bits /\ c \in [Words -> SUBSET Bits] /\ c["entry"] = e
      /\ \A w \in Words \ {"entry"} : c[w] = vmcs.ctl[w]
  BY <1>1 DEF VmcsFile
<1>4. l \in BOOLEAN /\ (~Intel => l = cpu.lma)
  BY <1>1 DEF VmcsFile, RegisterFile
<1>5. ~Intel => e = {}
  BY <1>1 DEF Inv, CtlInv
<1>6. Intel => /\ e \cup {"ia32e_mode_guest"} = adjust_vmx_control(m, "entry")
               /\ "ia32e_mode_guest" \in e <=> cpu.lma
  <2>1. Intel => vmcs.ctl["entry"] \cup {"ia32e_mode_guest"} = adjust_vmx_control(m, "entry")
    BY <1>1 DEF Inv, CtlInv
  <2> QED
    BY <2>1
<1> HIDE DEF c, e, l
<1> QED
  BY <1>1, <1>2, <1>3, <1>4, <1>5, <1>6 DEF VmcsFile, RegisterFile

LEMMA SavedStays ==
    ASSUME Inv, pc = "guest", pc' \in Virtual, UNCHANGED m,
           vmcs'.ctl = Saved.ctl, vmcs'.svm = Saved.svm, vmcs'.host = Saved.host
    PROVE  CtlInv' /\ HostInv'
<1>1. pc \in Virtual
  BY DEF Virtual
<1>2. Intel' <=> Intel
  BY DEF Intel
<1>3. \A w : adjust_vmx_control(m, w)' = adjust_vmx_control(m, w)
  BY DEF adjust_vmx_control, Must, May
<1>4. /\ ~Intel => (\A w \in Words : vmcs.ctl[w] = {}) /\ vmcs.svm = SvmControls
      /\ Intel => \A w \in Words \ {"entry"} : vmcs.ctl[w] = adjust_vmx_control(m, w)
  BY <1>1 DEF Inv, CtlInv
<1>5. ~Intel => \A w \in Words : Saved.ctl[w] = {}
  BY <1>4, SavedFacts
<1>6. Intel => /\ \A w \in Words \ {"entry"} : Saved.ctl[w] = adjust_vmx_control(m, w)
               /\ Saved.ctl["entry"] \cup {"ia32e_mode_guest"} = adjust_vmx_control(m, "entry")
  BY <1>4, SavedFacts
<1>7. Saved.svm = vmcs.svm /\ Saved.host = vmcs.host
  BY SavedFacts
<1>8. CtlInv'
  BY <1>2, <1>3, <1>4, <1>5, <1>6, <1>7, Places DEF CtlInv
<1>9. HostInv'
  BY <1>1, <1>2, <1>7 DEF Inv, HostInv
<1> QED
  BY <1>8, <1>9

LEMMA FilesEqual ==
    ASSUME NEW a \in RegisterFile, NEW b \in RegisterFile, a.seg = b.seg, a.trBase = b.trBase,
           a.cr0 = b.cr0, a.cr4 = b.cr4, a.lma = b.lma
    PROVE  a = b
BY DEF RegisterFile

LEMMA ExitInv == Inv /\ Exit => Inv'
<1> SUFFICES ASSUME Inv, Exit PROVE Inv'
  OBVIOUS
<1>1. /\ pc = "guest" /\ pc' = "entry" /\ vmcs' = Saved
      /\ UNCHANGED <<m, cpu, gdtr, idt, hostGdt, activity, expect, interrupted, resets>>
  BY DEF Exit, Goto
<1>2. pc \in Virtual /\ pc' \in Virtual
  BY <1>1 DEF Virtual
<1>3. TypeInv'
  BY <1>1, <1>2, SavedFacts DEF Inv, TypeInv
<1>4. CtlInv' /\ HostInv'
  BY <1>1, <1>2, SavedStays
<1>5. Entered' = cpu
  <2>1. (TypeInv => /\ Entered \in RegisterFile
                    /\ Entered.seg = vmcs.seg /\ Entered.trBase = vmcs.trBase
                    /\ Entered.cr0 = vmcs.cr0 /\ Entered.cr4 = vmcs.cr4
                    /\ Intel => (Entered.lma <=> Ia32e)
                    /\ ~Intel => Entered.lma = vmcs.lma)'
    BY EnteredType, PTL
  <2>2. /\ Entered' \in RegisterFile /\ Entered'.seg = Saved.seg /\ Entered'.trBase = Saved.trBase
        /\ Entered'.cr0 = Saved.cr0 /\ Entered'.cr4 = Saved.cr4
        /\ Intel => (Entered'.lma <=> "ia32e_mode_guest" \in Saved.ctl["entry"])
        /\ ~Intel => Entered'.lma = Saved.lma
    BY <1>1, <1>3, <2>1 DEF Intel, Ia32e
  <2>3. Entered'.lma = cpu.lma
    <3>1. Entered'.lma \in BOOLEAN /\ cpu.lma \in BOOLEAN
      BY <2>2 DEF Inv, TypeInv, RegisterFile
    <3> QED
      BY <1>1, <2>2, <3>1, SavedFacts
  <2> QED
    BY <1>1, <2>2, <2>3, SavedFacts, FilesEqual DEF Inv, TypeInv
<1>6. ModeOk(cpu) /\ Follows(cpu)
  BY <1>1 DEF Inv, GuestInv
<1>7. ModeOk(Entered)' /\ Follows(Entered)'
  BY <1>1, <1>5, <1>6 DEF ModeOk, Follows, Intel, Uefi, CanBeReset, Lost, Ne, Vmxe, TssOk
<1>8. GuestInv'
  BY <1>1, <1>7 DEF GuestInv
<1> QED
  BY <1>1, <1>2, <1>3, <1>4, <1>8, VirtualStep

LEMMA MovToCr3Inv == Inv /\ MovToCr3 => Inv'
<1> SUFFICES ASSUME Inv, MovToCr3 PROVE Inv'
  OBVIOUS
<1>1. /\ pc = "guest" /\ pc' = "unhandled_exit" /\ "cr3_load_exiting" \in vmcs.ctl["primary"] /\ m \in Machines
      /\ UNCHANGED <<m, cpu, gdtr, idt, hostGdt, vmcs, activity, expect, interrupted, resets>>
  BY DEF MovToCr3, Goto, Inv, TypeInv
<1>2. pc \in Virtual /\ "primary" \in Words \ {"entry"}
  BY <1>1, EntryBit DEF Virtual
<1>3. Intel /\ ~m.trueMsrs
  BY <1>1, <1>2, Adjusted DEF Inv, CtlInv
<1>4. PanicsOnlyFor'
  BY <1>1, <1>3 DEF PanicsOnlyFor, Intel
<1> QED
  BY <1>1, <1>4, PanicStep, Places DEF Inv, TypeInv

-----------------------------------------------------------------------------
(* The guest's modes, INIT and SIPI.                                       *)

LEMMA ModeChanges ==
    ASSUME NEW r \in RegisterFile
    PROVE  /\ Protected(r) \in RegisterFile /\ Paged(r) \in RegisterFile /\ Long(r) \in RegisterFile
           /\ \A s \in Segs \ {"cs"} : Protected(r).seg[s] = r.seg[s] /\ Long(r).seg[s] = r.seg[s]
           /\ Protected(r).seg["cs"] = [r.seg["cs"] EXCEPT !.rights = "code32"]
           /\ Long(r).seg["cs"] = [r.seg["cs"] EXCEPT !.rights = "code64"]
           /\ Protected(r).seg["cs"].rights = "code32" /\ Long(r).seg["cs"].rights = "code64"
           /\ Paged(r).seg = r.seg
           /\ Protected(r).cr0 = r.cr0 \cup {"PE"} /\ Paged(r).cr0 = r.cr0 \cup {"PG"} /\ Long(r).cr0 = r.cr0
           /\ Protected(r).cr4 = r.cr4 /\ Paged(r).cr4 = r.cr4 \cup {"PAE"} /\ Long(r).cr4 = r.cr4
           /\ Protected(r).lma = r.lma /\ Paged(r).lma = TRUE /\ Long(r).lma = r.lma
           /\ Protected(r).trBase = r.trBase /\ Paged(r).trBase = r.trBase /\ Long(r).trBase = r.trBase
<1>1. /\ "cs" \in Segs /\ {"code32", "code64"} \subseteq Kinds /\ {"PE", "PG"} \subseteq Cr0Fixed1
      /\ "PAE" \in Cr4Fixed1
  BY DEF Segs, Data, Kinds, Cr0Fixed1, Cr4Fixed1
<1> DEFINE c32 == [r.seg["cs"] EXCEPT !.rights = "code32"]
           c64 == [r.seg["cs"] EXCEPT !.rights = "code64"]
           s32 == [r.seg EXCEPT !["cs"] = c32]
           s64 == [r.seg EXCEPT !["cs"] = c64]
<1>2. c32 \in Segment /\ c64 \in Segment /\ c32.rights = "code32" /\ c64.rights = "code64"
  <2>1. r.seg["cs"] \in Segment
    BY <1>1 DEF RegisterFile
  <2> QED
    BY <1>1, <2>1 DEF Segment
<1>3. /\ Protected(r) = [r EXCEPT !.cr0 = r.cr0 \cup {"PE"}, !.seg = s32]
      /\ Long(r) = [r EXCEPT !.seg = s64]
      /\ Paged(r) = [r EXCEPT !.cr0 = r.cr0 \cup {"PG"}, !.cr4 = r.cr4 \cup {"PAE"}, !.lma = TRUE]
  BY DEF Protected, Long, Paged, RegisterFile
<1> HIDE DEF c32, c64
<1>4. /\ s32 \in [Segs -> Segment] /\ s32["cs"] = c32 /\ \A s \in Segs \ {"cs"} : s32[s] = r.seg[s]
      /\ s64 \in [Segs -> Segment] /\ s64["cs"] = c64 /\ \A s \in Segs \ {"cs"} : s64[s] = r.seg[s]
  BY <1>1, <1>2 DEF RegisterFile
<1> HIDE DEF s32, s64
<1>5. /\ Protected(r) \in RegisterFile /\ Protected(r).seg = s32 /\ Protected(r).cr0 = r.cr0 \cup {"PE"}
      /\ Protected(r).cr4 = r.cr4 /\ Protected(r).lma = r.lma /\ Protected(r).trBase = r.trBase
  BY <1>1, <1>3, <1>4, ZenonT(60) DEF RegisterFile
<1>6. /\ Long(r) \in RegisterFile /\ Long(r).seg = s64 /\ Long(r).cr0 = r.cr0
      /\ Long(r).cr4 = r.cr4 /\ Long(r).lma = r.lma /\ Long(r).trBase = r.trBase
  BY <1>1, <1>3, <1>4 DEF RegisterFile
<1>7. /\ Paged(r) \in RegisterFile /\ Paged(r).seg = r.seg /\ Paged(r).cr0 = r.cr0 \cup {"PG"}
      /\ Paged(r).cr4 = r.cr4 \cup {"PAE"} /\ Paged(r).lma = TRUE /\ Paged(r).trBase = r.trBase
  BY <1>1, <1>3, ZenonT(60) DEF RegisterFile
<1> QED
  BY <1>2, <1>4, <1>5, <1>6, <1>7 DEF c32, c64

(* Mode changes keep what VM entry checks, and the relation to what the    *)
(* bare processor would have.                                              *)
LEMMA ChangedModes ==
    ASSUME TypeInv, ModeOk(cpu), Follows(cpu), NEW new, NEW exp,
           \/ "PE" \notin cpu.cr0 /\ new = Protected(cpu) /\ exp = Protected(expect)
           \/ "PE" \in cpu.cr0 /\ "PG" \notin cpu.cr0 /\ new = Paged(cpu) /\ exp = Paged(expect)
           \/ cpu.lma /\ cpu.seg["cs"].rights = "code32" /\ new = Long(cpu) /\ exp = Long(expect)
    PROVE  /\ new \in RegisterFile /\ exp \in RegisterFile /\ ModeOk(new)
           /\ (resets => CanBeReset) => /\ \A s \in Segs \ Lost : new.seg[s] = exp.seg[s]
                                        /\ new.cr0 = exp.cr0 \cup Ne
                                        /\ new.cr4 = exp.cr4 \cup Vmxe
                                        /\ new.lma = exp.lma
           /\ ~resets /\ new.seg["tr"].sel # 0 => TssOk(new.trBase)
<1>1. cpu \in RegisterFile /\ expect \in RegisterFile /\ {"tr", "ldtr", "ss", "ds"} \subseteq Segs \ {"cs"} /\ "cs" \in Segs
  BY DEF TypeInv, Segs, Data
<1>2. CASE "PE" \notin cpu.cr0 /\ new = Protected(cpu) /\ exp = Protected(expect)
  <2>1. /\ new.seg["cs"].rights = "code32" /\ new.cr0 = cpu.cr0 \cup {"PE"} /\ new.cr4 = cpu.cr4
        /\ new.lma = cpu.lma /\ new.trBase = cpu.trBase
        /\ \A s \in Segs \ {"cs"} : new.seg[s] = cpu.seg[s] /\ exp.seg[s] = expect.seg[s]
        /\ new.seg["cs"] = [cpu.seg["cs"] EXCEPT !.rights = "code32"]
        /\ exp.seg["cs"] = [expect.seg["cs"] EXCEPT !.rights = "code32"]
        /\ exp.cr0 = expect.cr0 \cup {"PE"} /\ exp.cr4 = expect.cr4 /\ exp.lma = expect.lma
        /\ new \in RegisterFile /\ exp \in RegisterFile
    <3>1. /\ new.seg["cs"].rights = "code32" /\ new.cr0 = cpu.cr0 \cup {"PE"} /\ new.cr4 = cpu.cr4
          /\ new.lma = cpu.lma /\ new.trBase = cpu.trBase /\ new \in RegisterFile
          /\ \A s \in Segs \ {"cs"} : new.seg[s] = cpu.seg[s]
          /\ new.seg["cs"] = [cpu.seg["cs"] EXCEPT !.rights = "code32"]
      <4>1. cpu \in RegisterFile /\ new = Protected(cpu)
        BY <1>1, <1>2
      <4> QED
        BY <4>1, ModeChanges, ZenonT(60)
    <3>2. /\ exp.cr0 = expect.cr0 \cup {"PE"} /\ exp.cr4 = expect.cr4
          /\ exp.lma = expect.lma /\ exp \in RegisterFile
          /\ \A s \in Segs \ {"cs"} : exp.seg[s] = expect.seg[s]
          /\ exp.seg["cs"] = [expect.seg["cs"] EXCEPT !.rights = "code32"]
      <4>1. expect \in RegisterFile /\ exp = Protected(expect)
        BY <1>1, <1>2
      <4> QED
        BY <4>1, ModeChanges, ZenonT(60)
    <3> QED
      BY <3>1, <3>2
  <2>2. ModeOk(new)
    BY <1>1, <1>2, <2>1 DEF ModeOk
  <2>3. (resets => CanBeReset) => \A s \in Segs \ Lost : new.seg[s] = exp.seg[s]
    BY <2>1 DEF Follows
  <2> QED
    BY <1>1, <2>1, <2>2, <2>3 DEF Follows
<1>3. CASE "PE" \in cpu.cr0 /\ "PG" \notin cpu.cr0 /\ new = Paged(cpu) /\ exp = Paged(expect)
  <2>1. /\ new.seg = cpu.seg /\ new.cr0 = cpu.cr0 \cup {"PG"} /\ new.cr4 = cpu.cr4 \cup {"PAE"}
        /\ new.lma = TRUE /\ new.trBase = cpu.trBase
        /\ exp.seg = expect.seg /\ exp.cr0 = expect.cr0 \cup {"PG"} /\ exp.cr4 = expect.cr4 \cup {"PAE"}
        /\ exp.lma = TRUE /\ new \in RegisterFile /\ exp \in RegisterFile
    BY <1>1, <1>3, ModeChanges
  <2>2. ModeOk(new)
    BY <1>1, <1>3, <2>1 DEF ModeOk
  <2> QED
    BY <2>1, <2>2 DEF Follows
<1>4. CASE cpu.lma /\ cpu.seg["cs"].rights = "code32" /\ new = Long(cpu) /\ exp = Long(expect)
  <2>1. /\ new.seg["cs"].rights = "code64" /\ new.cr0 = cpu.cr0 /\ new.cr4 = cpu.cr4
        /\ new.lma = cpu.lma /\ new.trBase = cpu.trBase
        /\ \A s \in Segs \ {"cs"} : new.seg[s] = cpu.seg[s] /\ exp.seg[s] = expect.seg[s]
        /\ new.seg["cs"] = [cpu.seg["cs"] EXCEPT !.rights = "code64"]
        /\ exp.seg["cs"] = [expect.seg["cs"] EXCEPT !.rights = "code64"]
        /\ exp.cr0 = expect.cr0 /\ exp.cr4 = expect.cr4 /\ exp.lma = expect.lma
        /\ new \in RegisterFile /\ exp \in RegisterFile
    <3>1. /\ new.seg["cs"].rights = "code64" /\ new.cr0 = cpu.cr0 /\ new.cr4 = cpu.cr4
          /\ new.lma = cpu.lma /\ new.trBase = cpu.trBase /\ new \in RegisterFile
          /\ \A s \in Segs \ {"cs"} : new.seg[s] = cpu.seg[s]
          /\ new.seg["cs"] = [cpu.seg["cs"] EXCEPT !.rights = "code64"]
      <4>1. cpu \in RegisterFile /\ new = Long(cpu)
        BY <1>1, <1>4
      <4> QED
        BY <4>1, ModeChanges, ZenonT(60)
    <3>2. /\ exp.cr0 = expect.cr0 /\ exp.cr4 = expect.cr4
          /\ exp.lma = expect.lma /\ exp \in RegisterFile
          /\ \A s \in Segs \ {"cs"} : exp.seg[s] = expect.seg[s]
          /\ exp.seg["cs"] = [expect.seg["cs"] EXCEPT !.rights = "code64"]
      <4>1. expect \in RegisterFile /\ exp = Long(expect)
        BY <1>1, <1>4
      <4> QED
        BY <4>1, ModeChanges, ZenonT(60)
    <3> QED
      BY <3>1, <3>2
  <2>2. ModeOk(new)
    BY <1>1, <1>4, <2>1 DEF ModeOk
  <2>3. (resets => CanBeReset) => \A s \in Segs \ Lost : new.seg[s] = exp.seg[s]
    BY <2>1 DEF Follows
  <2> QED
    BY <1>1, <2>1, <2>2, <2>3 DEF Follows
<1> QED
  BY <1>2, <1>3, <1>4

LEMMA GuestChangesModeInv == Inv /\ GuestChangesMode => Inv'
<1> SUFFICES ASSUME Inv, GuestChangesMode PROVE Inv'
  OBVIOUS
<1>1. /\ pc = "guest" /\ pc' = "guest"
      /\ UNCHANGED <<m, gdtr, idt, hostGdt, vmcs, activity, interrupted, resets>>
  BY DEF GuestChangesMode
<1>2. pc \in Virtual /\ pc' \in Virtual
  BY <1>1 DEF Virtual
<1>3. TypeInv /\ ModeOk(cpu) /\ Follows(cpu)
  BY <1>1 DEF Inv, GuestInv
<1>4. /\ cpu' \in RegisterFile /\ expect' \in RegisterFile /\ ModeOk(cpu')
      /\ (resets => CanBeReset) => /\ \A s \in Segs \ Lost : cpu'.seg[s] = expect'.seg[s]
                                   /\ cpu'.cr0 = expect'.cr0 \cup Ne
                                   /\ cpu'.cr4 = expect'.cr4 \cup Vmxe
                                   /\ cpu'.lma = expect'.lma
      /\ ~resets /\ cpu'.seg["tr"].sel # 0 => TssOk(cpu'.trBase)
  BY <1>3, ChangedModes DEF GuestChangesMode
<1>5. TypeInv'
  BY <1>1, <1>2, <1>4 DEF Inv, TypeInv
<1>6. CtlInv' /\ HostInv'
  BY <1>1, <1>2, Places DEF Inv, CtlInv, HostInv, Intel, adjust_vmx_control, Must, May
<1>7. ModeOk(cpu)' /\ Follows(cpu)'
  BY <1>1, <1>4 DEF ModeOk, Follows, Intel, Uefi, CanBeReset, Lost, Ne, Vmxe, TssOk
<1>8. GuestInv'
  BY <1>1, <1>7 DEF GuestInv
<1> QED
  BY <1>1, <1>2, <1>5, <1>6, <1>8, VirtualStep

ResetFile == [seg |-> ResetSeg, trBase |-> 0, cr0 |-> {"ET"}, cr4 |-> {}, lma |-> FALSE]

LEMMA ResetFacts ==
    /\ ResetSeg \in [Segs -> Segment] /\ ResetFile \in RegisterFile
    /\ ResetSeg["cs"].rights = "code16" /\ ResetSeg["tr"].rights = "busy_tss"
    /\ ResetSeg["ldtr"].rights = "ldt"
    /\ ResetSeg["ss"].rights = "data" /\ ResetSeg["ds"].rights = "data"
    /\ "ET" \in Cr0Fixed1
<1>1. Word - 1 \in Nat
  BY SizeAssumption
<1>2. \A sel \in Nat, k \in Kinds : Real(sel, k) \in Segment /\ Real(sel, k).rights = k
  BY <1>1 DEF Real, ResetLimit, Segment
<1>3. /\ ResetSeg["cs"] = Real(ResetCs, "code16") /\ ResetSeg["ss"] = Real(0, "data")
      /\ ResetSeg["ds"] = Real(0, "data") /\ ResetSeg["ldtr"] = Real(0, "ldt") /\ ResetSeg["tr"] = Real(0, "busy_tss")
  BY DEF ResetSeg, Segs, Data
<1>4. {"code16", "data", "ldt", "busy_tss"} \subseteq Kinds /\ ResetCs \in Nat /\ "ET" \in Cr0Fixed1
  BY DEF Kinds, ResetCs, Cr0Fixed1
<1>5. \A s \in Segs : ResetSeg[s] \in Segment
  BY <1>2, <1>3, <1>4 DEF Segs, Data
<1>6. ResetSeg \in [Segs -> Segment]
  <2> DEFINE F(s) == CASE s = "cs" -> Real(ResetCs, "code16")
                       [] s \in {"ss", "ds"} -> Real(0, "data")
                       [] s = "ldtr" -> Real(0, "ldt")
                       [] s = "tr" -> Real(0, "busy_tss")
  <2>1. ResetSeg = [s \in Segs |-> F(s)]
    BY DEF ResetSeg
  <2> HIDE DEF F
  <2> QED
    BY <1>5, <2>1
<1>7. ResetFile \in RegisterFile
  BY <1>4, <1>6 DEF ResetFile, RegisterFile
<1> QED
  BY <1>2, <1>3, <1>4, <1>6, <1>7

LEMMA TakeInitInv == Inv /\ TakeInit => Inv'
<1> SUFFICES ASSUME Inv, TakeInit PROVE Inv'
  OBVIOUS
<1>1. /\ pc = "guest" /\ pc' = "init" /\ vmcs' = Saved /\ expect' = ResetFile /\ resets' = TRUE
      /\ UNCHANGED <<m, cpu, gdtr, idt, hostGdt, activity, interrupted>>
  BY DEF TakeInit, Goto, ResetFile
<1>2. pc \in Virtual /\ pc' \in Virtual
  BY <1>1 DEF Virtual
<1>3. TypeInv'
  BY <1>1, <1>2, SavedFacts, ResetFacts DEF Inv, TypeInv
<1>4. CtlInv' /\ HostInv'
  BY <1>1, <1>2, SavedStays
<1>5. GuestInv'
  BY <1>1 DEF GuestInv, ResetFile
<1> QED
  BY <1>1, <1>2, <1>3, <1>4, <1>5, VirtualStep

(* INIT: the reset state in the VMCS or VMCB, but for SS on AMD.           *)
LEMMA InitFacts ==
    ASSUME Inv, pc = "init"
    PROVE  LET v == IF Intel THEN VmxInit ELSE SvmInit
           IN  /\ v \in VmcsFile /\ v.trBase = 0
               /\ \A s \in Segs : s # "ss" \/ Intel => v.seg[s] = ResetSeg[s]
               /\ v.svm = vmcs.svm /\ v.host = vmcs.host
               /\ \A w \in Words \ {"entry"} : v.ctl[w] = vmcs.ctl[w]
               /\ ~Intel => v.ctl = vmcs.ctl /\ v.lma = FALSE /\ v.cr0 = {"ET"} /\ v.cr4 = {}
               /\ Intel => /\ v.ctl["entry"] = vmcs.ctl["entry"] \ {"ia32e_mode_guest"}
                           /\ v.cr0 = get_adjusted_guest_cr0({"ET"}, vmcs.ctl["secondary"])
                           /\ v.cr4 = {"VMXE"}
<1>1. vmcs \in VmcsFile /\ "entry" \in Words /\ "ss" \in Segs
  BY EntryBit DEF Inv, TypeInv, Segs, Data
<1>2. CASE Intel
  <2> DEFINE e == vmcs.ctl["entry"] \ {"ia32e_mode_guest"}
             c == [vmcs.ctl EXCEPT !["entry"] = e]
             z == get_adjusted_guest_cr0({"ET"}, vmcs.ctl["secondary"])
  <2>1. VmxInit = [vmcs EXCEPT !.seg = ResetSeg, !.trBase = 0, !.cr0 = z, !.cr4 = get_adjusted_cr4({}), !.ctl = c]
    BY <1>1 DEF VmxInit, VmcsFile
  <2>2. c \in [Words -> SUBSET Bits] /\ c["entry"] = e /\ \A w \in Words \ {"entry"} : c[w] = vmcs.ctl[w]
    BY <1>1 DEF VmcsFile
  <2>3. z \in SUBSET Cr0Fixed1 /\ get_adjusted_cr4({}) = {"VMXE"} /\ {"VMXE"} \in SUBSET Cr4Fixed1
    <3>1. z = {"ET", "NE"} \/ z = {"PE", "ET", "NE", "PG"}
      BY Fixed
    <3> QED
      BY <3>1, Fixed DEF Cr0Fixed1, Cr4Fixed1
  <2> HIDE DEF c, e, z
  <2>4. /\ VmxInit \in VmcsFile /\ VmxInit.seg = ResetSeg /\ VmxInit.trBase = 0 /\ VmxInit.cr0 = z
        /\ VmxInit.cr4 = {"VMXE"} /\ VmxInit.ctl = c /\ VmxInit.svm = vmcs.svm /\ VmxInit.host = vmcs.host
    BY <1>1, <2>1, <2>2, <2>3, ResetFacts DEF VmcsFile
  <2> QED
    BY <1>2, <2>2, <2>4 DEF e, z
<1>3. CASE ~Intel
  <2> DEFINE new == [ResetSeg EXCEPT !["ss"] = vmcs.seg["ss"]]
  <2>1. SvmInit = [vmcs EXCEPT !.seg = new, !.trBase = 0, !.cr0 = {"ET"}, !.cr4 = {}, !.lma = FALSE]
    BY DEF SvmInit
  <2>2. new \in [Segs -> Segment] /\ \A s \in Segs : s # "ss" => new[s] = ResetSeg[s]
    <3>1. vmcs.seg["ss"] \in Segment
      BY <1>1 DEF VmcsFile
    <3> QED
      BY <1>1, <3>1, ResetFacts
  <2> HIDE DEF new
  <2>3. /\ SvmInit \in VmcsFile /\ SvmInit.seg = new /\ SvmInit.trBase = 0 /\ SvmInit.cr0 = {"ET"}
        /\ SvmInit.cr4 = {} /\ SvmInit.lma = FALSE /\ SvmInit.ctl = vmcs.ctl /\ SvmInit.svm = vmcs.svm
        /\ SvmInit.host = vmcs.host
    BY <1>1, <2>1, <2>2, ResetFacts DEF VmcsFile
  <2> QED
    BY <1>3, <2>2, <2>3
<1> QED
  BY <1>2, <1>3

LEMMA EnteredTypePrime ==
    TypeInv' => /\ Entered' \in RegisterFile
                /\ Entered'.seg = vmcs'.seg /\ Entered'.trBase = vmcs'.trBase
                /\ Entered'.cr0 = vmcs'.cr0 /\ Entered'.cr4 = vmcs'.cr4
                /\ Intel' => (Entered'.lma <=> "ia32e_mode_guest" \in vmcs'.ctl["entry"])
                /\ ~Intel' => Entered'.lma = vmcs'.lma
<1>1. (TypeInv => /\ Entered \in RegisterFile
                  /\ Entered.seg = vmcs.seg /\ Entered.trBase = vmcs.trBase
                  /\ Entered.cr0 = vmcs.cr0 /\ Entered.cr4 = vmcs.cr4
                  /\ Intel => (Entered.lma <=> Ia32e)
                  /\ ~Intel => Entered.lma = vmcs.lma)'
  BY EnteredType, PTL
<1> QED
  BY <1>1 DEF Ia32e

LEMMA HandleInitInv == Inv /\ handle_init_signal => Inv'
<1> SUFFICES ASSUME Inv, handle_init_signal PROVE Inv'
  OBVIOUS
<1> DEFINE v == IF Intel THEN VmxInit ELSE SvmInit
<1>1. /\ pc = "init" /\ pc' = (IF Intel THEN "entry" ELSE "wait") /\ vmcs' = v /\ activity' = "wait_for_sipi"
      /\ UNCHANGED <<m, cpu, gdtr, idt, hostGdt, expect, interrupted, resets>>
  BY DEF handle_init_signal, Goto
<1>2. /\ v \in VmcsFile /\ v.trBase = 0
      /\ \A s \in Segs : s # "ss" \/ Intel => v.seg[s] = ResetSeg[s]
      /\ v.svm = vmcs.svm /\ v.host = vmcs.host
      /\ \A w \in Words \ {"entry"} : v.ctl[w] = vmcs.ctl[w]
      /\ ~Intel => v.ctl = vmcs.ctl /\ v.lma = FALSE /\ v.cr0 = {"ET"} /\ v.cr4 = {}
      /\ Intel => /\ v.ctl["entry"] = vmcs.ctl["entry"] \ {"ia32e_mode_guest"}
                  /\ v.cr0 = get_adjusted_guest_cr0({"ET"}, vmcs.ctl["secondary"])
                  /\ v.cr4 = {"VMXE"}
  BY <1>1, InitFacts
<1> HIDE DEF v
<1>3. /\ pc \in Virtual /\ pc' \in Virtual /\ (Intel' <=> Intel) /\ m \in Machines
      /\ resets /\ expect = ResetFile /\ Segs = {"cs", "ss", "ds", "tr", "ldtr"}
  BY <1>1 DEF Virtual, Intel, Inv, TypeInv, GuestInv, ResetFile, Segs, Data
<1>4. TypeInv'
  BY <1>1, <1>2, <1>3 DEF Inv, TypeInv
<1>5. \A w : adjust_vmx_control(m, w)' = adjust_vmx_control(m, w)
  BY <1>1 DEF adjust_vmx_control, Must, May
<1>6. /\ ~Intel => (\A w \in Words : vmcs.ctl[w] = {}) /\ vmcs.svm = SvmControls
      /\ Intel => /\ \A w \in Words \ {"entry"} : vmcs.ctl[w] = adjust_vmx_control(m, w)
                  /\ vmcs.ctl["entry"] \cup {"ia32e_mode_guest"} = adjust_vmx_control(m, "entry")
  BY <1>3 DEF Inv, CtlInv
<1>7. CtlInv'
  <2>1. ~Intel => (\A w \in Words : vmcs'.ctl[w] = {}) /\ vmcs'.svm = SvmControls
    BY <1>1, <1>2, <1>6
  <2>2. Intel => /\ \A w \in Words \ {"entry"} : vmcs'.ctl[w] = adjust_vmx_control(m, w)
                 /\ vmcs'.ctl["entry"] \cup {"ia32e_mode_guest"} = adjust_vmx_control(m, "entry")
    BY <1>1, <1>2, <1>6
  <2> QED
    BY <1>3, <1>5, <2>1, <2>2, Places DEF CtlInv
<1>8. HostInv'
  BY <1>1, <1>2, <1>3 DEF Inv, HostInv
<1>9. /\ Entered' \in RegisterFile /\ Entered'.trBase = 0 /\ Entered'.lma = FALSE
      /\ \A s \in Segs : s # "ss" \/ Intel => Entered'.seg[s] = ResetSeg[s]
      /\ Entered'.cr0 = v.cr0 /\ Entered'.cr4 = v.cr4
  <2>1. Entered' \in RegisterFile /\ Entered'.lma \in BOOLEAN
    BY <1>4, EnteredTypePrime DEF RegisterFile
  <2>2. ~Entered'.lma
    BY <1>1, <1>2, <1>3, <1>4, EnteredTypePrime
  <2> QED
    BY <1>1, <1>2, <1>4, <2>1, <2>2, EnteredTypePrime
<1>10. Intel => /\ "unrestricted_guest" \in m.secondary => v.cr0 = {"ET", "NE"}
                /\ "unrestricted_guest" \notin m.secondary => v.cr0 = {"PE", "ET", "NE", "PG"}
  <2>1. Intel => ("unrestricted_guest" \in vmcs.ctl["secondary"] <=> "unrestricted_guest" \in m.secondary)
    BY <1>3, <1>6, Adjusted, EntryBit
  <2> QED
    BY <1>2, <2>1, Fixed
<1>11. ModeOk(Entered)'
  <2>1. "PG" \in Entered'.cr0 => "PE" \in Entered'.cr0
    BY <1>2, <1>9, <1>10
  <2>2. Intel => /\ "NE" \in Entered'.cr0 /\ "VMXE" \in Entered'.cr4
                 /\ {"PE", "PG"} \subseteq Entered'.cr0 \/ "unrestricted_guest" \in m.secondary
    BY <1>2, <1>9, <1>10
  <2>3. Intel => /\ Entered'.seg["tr"].rights = "busy_tss" /\ Entered'.seg["ldtr"].rights = "ldt"
                 /\ Entered'.seg["cs"].rights = "code16"
                 /\ \A s \in {"ss", "ds"} : Entered'.seg[s].rights = "data"
    BY <1>3, <1>9, ResetFacts
  <2> QED
    BY <1>1, <1>3, <1>9, <2>1, <2>2, <2>3 DEF ModeOk
<1>12. Follows(Entered)'
  <2>1. resets' /\ expect' = ResetFile /\ Ne' = Ne /\ Vmxe' = Vmxe /\ (CanBeReset' <=> CanBeReset)
    BY <1>1, <1>3 DEF Ne, Vmxe, CanBeReset, Intel
  <2>2. \A s \in Segs \ Lost' : s # "ss" \/ Intel
    BY <1>3, <2>1 DEF Lost
  <2>3. \A s \in Segs \ Lost' : Entered'.seg[s] = expect'.seg[s]
    BY <1>9, <2>1, <2>2 DEF ResetFile
  <2>4. CanBeReset => Entered'.cr0 = expect'.cr0 \cup Ne /\ Entered'.cr4 = expect'.cr4 \cup Vmxe
    BY <1>2, <1>9, <1>10, <2>1 DEF ResetFile, Ne, Vmxe, CanBeReset
  <2>5. Entered'.lma = expect'.lma
    BY <1>9, <2>1 DEF ResetFile
  <2> QED
    BY <2>1, <2>3, <2>4, <2>5 DEF Follows
<1>13. GuestInv'
  BY <1>1, <1>3, <1>11, <1>12 DEF GuestInv
<1> QED
  BY <1>1, <1>3, <1>4, <1>7, <1>8, <1>13, VirtualStep

(* SIPI: a new CS selector, in what the guest goes on with and in what the *)
(* bare processor would have.                                              *)
LEMMA SipiSegment ==
    ASSUME NEW f, f \in [Segs -> Segment]
    PROVE  LET g == [f EXCEPT !["cs"].sel = SipiCs]
           IN  /\ g \in [Segs -> Segment]
               /\ g["cs"] = [f["cs"] EXCEPT !.sel = SipiCs] /\ g["cs"].rights = f["cs"].rights
               /\ \A s \in Segs \ {"cs"} : g[s] = f[s]
<1> DEFINE c == [f["cs"] EXCEPT !.sel = SipiCs]
           g == [f EXCEPT !["cs"] = c]
<1>1. [f EXCEPT !["cs"].sel = SipiCs] = g
  OBVIOUS
<1>2. f["cs"] \in Segment /\ "cs" \in Segs /\ SipiCs \in Nat
  BY DEF Segs, Data, SipiCs
<1>3. c \in Segment /\ c.rights = f["cs"].rights
  BY <1>2 DEF Segment
<1> HIDE DEF c
<1>4. g \in [Segs -> Segment] /\ g["cs"] = c /\ \A s \in Segs \ {"cs"} : g[s] = f[s]
  BY <1>2, <1>3
<1> QED
  BY <1>1, <1>3, <1>4 DEF c

LEMMA HandleSipiInv == Inv /\ handle_sipi => Inv'
<1> SUFFICES ASSUME Inv, handle_sipi PROVE Inv'
  OBVIOUS
<1> DEFINE v == IF Intel THEN Saved ELSE vmcs
           r == IF Intel THEN cpu ELSE Entered
           old == v.seg
           new == [old EXCEPT !["cs"].sel = SipiCs]
           then == [expect.seg EXCEPT !["cs"].sel = SipiCs]
<1>1. /\ pc = (IF Intel THEN "guest" ELSE "wait") /\ pc' = "entry" /\ activity' = "active"
      /\ vmcs' = [v EXCEPT !.seg["cs"].sel = SipiCs] /\ expect' = [expect EXCEPT !.seg["cs"].sel = SipiCs]
      /\ UNCHANGED <<m, cpu, gdtr, idt, hostGdt, interrupted, resets>>
  BY DEF handle_sipi, Goto
<1>2. /\ pc \in Virtual /\ pc' \in Virtual /\ (Intel' <=> Intel)
      /\ cpu \in RegisterFile /\ expect \in RegisterFile /\ vmcs \in VmcsFile
  BY <1>1 DEF Virtual, Intel, Inv, TypeInv
<1>3. ModeOk(r) /\ Follows(r)
  BY <1>1 DEF Inv, GuestInv
<1>4. /\ v \in VmcsFile /\ r \in RegisterFile
      /\ v.seg = r.seg /\ v.trBase = r.trBase /\ v.cr0 = r.cr0 /\ v.cr4 = r.cr4
      /\ Intel => ("ia32e_mode_guest" \in v.ctl["entry"] <=> r.lma)
      /\ ~Intel => v.lma = r.lma
  <2>1. CASE Intel
    BY <1>1, <1>2, <2>1, SavedFacts
  <2>2. CASE ~Intel
    BY <1>2, <2>2, EnteredType DEF Inv
  <2> QED
    BY <2>1, <2>2
<1> HIDE DEF v, r
<1>5. old \in [Segs -> Segment] /\ expect.seg \in [Segs -> Segment]
  BY <1>2, <1>4 DEF VmcsFile, RegisterFile
<1>6. /\ new \in [Segs -> Segment]
      /\ new["cs"] = [old["cs"] EXCEPT !.sel = SipiCs] /\ new["cs"].rights = old["cs"].rights
      /\ \A s \in Segs \ {"cs"} : new[s] = old[s]
  BY <1>5, SipiSegment
<1>7. /\ then \in [Segs -> Segment]
      /\ then["cs"] = [expect.seg["cs"] EXCEPT !.sel = SipiCs]
      /\ \A s \in Segs \ {"cs"} : then[s] = expect.seg[s]
  BY <1>5, SipiSegment
<1>8. vmcs' = [v EXCEPT !.seg = new] /\ expect' = [expect EXCEPT !.seg = then]
  BY <1>1
<1> HIDE DEF new, then
<1>9. /\ vmcs' \in VmcsFile /\ vmcs'.seg = new /\ vmcs'.trBase = v.trBase /\ vmcs'.cr0 = v.cr0
      /\ vmcs'.cr4 = v.cr4 /\ vmcs'.lma = v.lma /\ vmcs'.ctl = v.ctl /\ vmcs'.svm = v.svm
      /\ vmcs'.host = v.host
  BY <1>4, <1>6, <1>8 DEF VmcsFile
<1>10. /\ expect' \in RegisterFile /\ expect'.seg = then /\ expect'.cr0 = expect.cr0
       /\ expect'.cr4 = expect.cr4 /\ expect'.lma = expect.lma
  BY <1>2, <1>7, <1>8 DEF RegisterFile
<1>11. TypeInv'
  BY <1>1, <1>2, <1>9, <1>10 DEF Inv, TypeInv
<1>12. CtlInv' /\ HostInv'
  <2>1. CASE Intel
    BY <1>1, <1>2, <1>9, <2>1, SavedStays DEF v
  <2>2. CASE ~Intel
    BY <1>1, <1>2, <1>9, <2>2, Places DEF Inv, CtlInv, HostInv, v
  <2> QED
    BY <2>1, <2>2
<1>13. /\ Entered'.seg = new /\ Entered'.trBase = r.trBase /\ Entered'.cr0 = r.cr0
       /\ Entered'.cr4 = r.cr4 /\ Entered'.lma = r.lma
  <2>1. Entered'.lma \in BOOLEAN /\ r.lma \in BOOLEAN
    BY <1>4, <1>11, EnteredTypePrime DEF RegisterFile
  <2> QED
    BY <1>2, <1>4, <1>9, <1>11, <2>1, EnteredTypePrime
<1>14. ModeOk(Entered)'
  <2>1. \A s \in Segs : new[s].rights = r.seg[s].rights
    BY <1>4, <1>6
  <2>2. Segs = {"cs", "ss", "ds", "tr", "ldtr"}
    BY DEF Segs, Data
  <2> QED
    BY <1>1, <1>2, <1>3, <1>13, <2>1, <2>2 DEF ModeOk
<1>15. Follows(Entered)'
  <2>1. /\ Lost' = Lost /\ Ne' = Ne /\ Vmxe' = Vmxe /\ (CanBeReset' <=> CanBeReset) /\ resets' = resets
        /\ (TssOk(r.trBase) => TssOk(Entered.trBase)')
    BY <1>1, <1>13 DEF Lost, Ne, Vmxe, CanBeReset, TssOk, Intel, Uefi
  <2>2. (resets => CanBeReset) => \A s \in Segs \ Lost : new[s] = then[s]
    BY <1>3, <1>4, <1>6, <1>7 DEF Follows
  <2>3. new["tr"] = r.seg["tr"]
    BY <1>4, <1>6 DEF Segs
  <2> QED
    BY <1>3, <1>10, <1>13, <2>1, <2>2, <2>3 DEF Follows
<1>16. GuestInv'
  BY <1>1, <1>14, <1>15 DEF GuestInv
<1> QED
  BY <1>1, <1>2, <1>11, <1>12, <1>16, VirtualStep

-----------------------------------------------------------------------------
LEMMA HostStepInv == Inv /\ Host => Inv'
BY UpdateGdtInv, SharedHostDataInv, SnapshotInv, EnableInv, ControlInv, SelectorsInv, LimitsInv,
   RightsInv, BasesInv, VmxHostInv, SvmHostGdtInv, SvmHostIdtInv, StartInv, EnterInv, HandleInitInv
   DEF Host

LEMMA StutterInv == Inv /\ UNCHANGED vars => Inv'
<1> SUFFICES ASSUME Inv, UNCHANGED vars PROVE Inv'
  OBVIOUS
<1>1. UNCHANGED <<m, pc, cpu, gdtr, idt, hostGdt, vmcs, activity, expect, interrupted, resets>>
  BY DEF vars
<1>2. TypeInv' /\ GdtInv' /\ HostGdtInv' /\ CpuInv' /\ ExpectInv'
  BY <1>1 DEF Inv, TypeInv, GdtInv, HostGdtInv, CpuInv, ExpectInv, Kept, TssOk, Ne, Vmxe, Intel, Uefi
<1>3. CtlInv' /\ CopyInv' /\ HostInv' /\ PanicsOnlyFor'
  BY <1>1 DEF Inv, CtlInv, CopyInv, HostInv, PanicsOnlyFor, Kept, Copied, SelectorsDone, LimitsDone,
              RightsDone, BasesDone, GdtTooLarge, adjust_vmx_control, Must, May, Intel, Uefi
<1>4. GuestInv'
  BY <1>1 DEF Inv, GuestInv, ModeOk, Follows, Entered, Ia32e, Lost, CanBeReset, TssOk, Ne, Vmxe,
              Intel, Uefi
<1> QED
  BY <1>2, <1>3, <1>4 DEF Inv

LEMMA NextInv == Inv /\ [Next]_vars => Inv'
<1> SUFFICES ASSUME Inv, [Next]_vars PROVE Inv'
  OBVIOUS
<1>1. CASE Host
  BY <1>1, HostStepInv
<1>2. CASE \E ss \in m.stacks : Interrupt(ss)
  BY <1>2, InterruptInv
<1>3. CASE Exit \/ MovToCr3 \/ GuestChangesMode \/ TakeInit \/ handle_sipi
  BY <1>3, ExitInv, MovToCr3Inv, GuestChangesModeInv, TakeInitInv, HandleSipiInv
<1>4. CASE UNCHANGED vars
  BY <1>4, StutterInv
<1> QED
  BY <1>1, <1>2, <1>3, <1>4 DEF Next

LEMMA Invariance == Spec => []Inv
BY InitInv, NextInv, PTL DEF Spec

(* VM entry never fails: the set-up of both vendors leaves a VMCS or VMCB  *)
(* that the processor accepts, in every mode of the guest, on any machine. *)
(* Nothing else panics, but each for its reason that PanicsOnlyFor names.  *)
THEOREM FewPanics == Spec => []PanicsOnlyFor
<1>1. Inv => PanicsOnlyFor
  BY DEF Inv
<1> QED
  BY <1>1, Invariance, PTL

(* What initialize_guest() copied, register group by register group, and   *)
(* handle_init_signal() reset, is what the bare processor would go on with.*)
THEOREM GuestContinues == Spec => []GuestGoesOn
<1>1. Inv => GuestGoesOn
  <2> SUFFICES ASSUME Inv, pc = "guest", resets => CanBeReset
               PROVE  /\ \A s \in Segs \ Lost : cpu.seg[s] = expect.seg[s]
                      /\ cpu.cr0 = expect.cr0 \cup (IF Intel THEN Cr0Fixed0 \ {"PE", "PG"} ELSE {})
                      /\ cpu.cr4 = expect.cr4 \cup (IF Intel THEN Cr4Fixed0 ELSE {})
                      /\ cpu.lma = expect.lma
                      /\ Intel => InstructionControls \cap m.secondary \subseteq vmcs.ctl["secondary"]
    BY DEF GuestGoesOn
  <2>1. Follows(cpu)
    BY DEF Inv, GuestInv
  <2>2. Cr0Fixed0 \ {"PE", "PG"} = {"NE"} /\ Cr4Fixed0 = {"VMXE"}
    BY DEF Cr0Fixed0, Cr4Fixed0
  <2>3. Intel => vmcs.ctl["secondary"] = adjust_vmx_control(m, "secondary")
    BY EntryBit DEF Inv, CtlInv, Virtual
  <2>4. Intel => InstructionControls \cap m.secondary \subseteq vmcs.ctl["secondary"]
    BY <2>3, Adjusted DEF Inv, TypeInv
  <2> QED
    BY <2>1, <2>2, <2>4 DEF Follows, Ne, Vmxe
<1> QED
  BY <1>1, Invariance, PTL

(* The guest's task register leads to the TSS the processor had, or that   *)
(* the UEFI driver gave it.                                                *)
THEOREM TssFound == Spec => []TssIsFound
<1>1. Inv => TssIsFound
  BY DEF Inv, GuestInv, Follows, TssOk, TssIsFound
<1> QED
  BY <1>1, Invariance, PTL

(* A control word has only bits that were requested or that the processor  *)
(* allows, whenever it is written.                                         *)
CtlBound == \A w \in Words : vmcs.ctl[w] \subseteq Requested[w] \cup May(m, w)

WithControls == (SettingUp \ {"enable", "control"}) \cup Virtual

LEMMA WrittenWithControls ==
    ASSUME Inv, [Next]_vars
    PROVE  UNCHANGED m /\ (vmcs' = vmcs \/ pc' \in WithControls)
<1>1. /\ {"selectors", "limits", "rights", "bases", "host", "lidt", "start"} \subseteq WithControls
      /\ {"entry", "guest", "init", "wait"} \subseteq WithControls
  BY DEF WithControls, SettingUp, Virtual
<1>2. CASE Host
  BY <1>1, <1>2 DEF Host, UpdateGdt, create_shared_host_data, Snapshot, enable, initialize_control,
     Selectors, Limits, Rights, Bases, VmxHost, SetUp, SvmHostGdt, SvmHostIdt, Start, Enter,
     handle_init_signal, Goto, Fail
<1>3. CASE \E ss \in m.stacks : Interrupt(ss)
  BY <1>3 DEF Interrupt
<1>4. CASE Exit \/ MovToCr3 \/ GuestChangesMode \/ TakeInit \/ handle_sipi
  BY <1>1, <1>4 DEF Exit, MovToCr3, GuestChangesMode, TakeInit, handle_sipi, Goto
<1>5. CASE UNCHANGED vars
  BY <1>5 DEF vars
<1> QED
  BY <1>2, <1>3, <1>4, <1>5 DEF Next

LEMMA Bounded == Inv /\ pc \in WithControls => CtlBound
<1> SUFFICES ASSUME Inv, pc \in WithControls, NEW w \in Words
             PROVE  vmcs.ctl[w] \subseteq Requested[w] \cup May(m, w)
  BY DEF CtlBound
<1>1. adjust_vmx_control(m, w) \subseteq Requested[w] \cup May(m, w)
  BY Adjusted DEF Inv, TypeInv
<1>2. vmcs.ctl[w] = {} \/ vmcs.ctl[w] \subseteq adjust_vmx_control(m, w)
  BY DEF Inv, CtlInv, WithControls
<1> QED
  BY <1>1, <1>2

LEMMA BoundInv == Spec => []CtlBound
<1>1. Init => CtlBound
  BY DEF Init, CtlBound
<1>2. (Inv /\ pc \in WithControls => CtlBound)'
  BY Bounded, PTL
<1>3. Inv /\ Inv' /\ CtlBound /\ [Next]_vars => CtlBound'
  <2> SUFFICES ASSUME Inv, Inv', CtlBound, [Next]_vars PROVE CtlBound'
    OBVIOUS
  <2>1. UNCHANGED m /\ (vmcs' = vmcs \/ pc' \in WithControls')
    BY WrittenWithControls DEF WithControls, SettingUp, Virtual
  <2>2. CASE vmcs' = vmcs
    BY <2>1, <2>2 DEF CtlBound, May, Must
  <2>3. CASE pc' \in WithControls'
    BY <1>2, <2>3
  <2> QED
    BY <2>1, <2>2, <2>3
<1> QED
  BY <1>1, <1>3, Invariance, PTL DEF Spec

(* Registers, tables and control words keep their types.                   *)
THEOREM TypeCorrect == Spec => []TypeOK
<1>1. Inv /\ CtlBound => TypeOK
  <2> SUFFICES ASSUME Inv, CtlBound PROVE TypeOK
    OBVIOUS
  <2>1. TypeInv /\ GdtOk(gdtr) /\ hostGdt.limit \in -1 .. (Word - 1)
    BY DEF Inv, GdtInv, HostGdtInv
  <2>2. Registers(cpu) /\ Registers(expect)
    BY <2>1 DEF TypeInv, RegisterFile, Registers
  <2>3. /\ Registers(vmcs) /\ vmcs.svm \subseteq SvmControls
        /\ vmcs.host \in [Data \cup {"tr"} -> Nat]
    BY <2>1 DEF TypeInv, VmcsFile, Registers
  <2>4. \A g \in {gdtr, hostGdt} : g.limit \in -1 .. (Word - 1)
    <3>1. gdtr.limit \in Nat /\ gdtr.limit < Word
      BY <2>1, SizeFacts
    <3> QED
      BY <2>1, <3>1, SizeAssumption
  <2>5. pc \in SettingUp \cup {"gdt", "host_data", "snapshot", "entry", "guest", "init", "wait"} \cup Panics
    BY <2>1 DEF TypeInv, OnHost, BeforeSnapshot, Virtual
  <2> QED
    BY <2>1, <2>2, <2>3, <2>4, <2>5 DEF TypeOK, TypeInv, CtlBound
<1> QED
  BY <1>1, BoundInv, Invariance, PTL
=============================================================================
