---------------------------- MODULE MCGuestSetup ----------------------------
(***************************************************************************)
(* The machines for GuestSetup: a Windows system whose GDT has a TSS, and  *)
(* UEFI firmware whose GDT has none, with what can differ about them.      *)
(***************************************************************************)
EXTENDS GuestSetup

Gdt(n, entries) ==
    [entries |-> [i \in 0 .. (n - 1) |-> IF i \in DOMAIN entries THEN entries[i] ELSE Null],
     limit |-> 8 * n - 1]

(* Windows: code, data, data of ring 3, and a TSS with its upper half.     *)
WindowsTss == 1 + 2 * FourGB
WindowsGdt(n) ==
    Gdt(n, [i \in 1 .. 5 |-> CASE i = 1 -> Descriptor("code64", 0, 0, FALSE)
                               [] i = 2 -> Descriptor("data", 0, 0, FALSE)
                               [] i = 3 -> Descriptor("data", 0, 3, TRUE)
                               [] i = 4 -> Descriptor("busy_tss", 1, 2, FALSE)
                               [] i = 5 -> Descriptor("upper", 2, 0, FALSE)])

(* UEFI: data and code.                                                    *)
UefiGdt(n) ==
    Gdt(n, [i \in 1 .. 2 |-> IF i = 1 THEN Descriptor("data", 0, 3, TRUE)
                                      ELSE Descriptor("code64", 0, 3, TRUE)])

All == {"ept", "unrestricted_guest"} \cup InstructionControls

Windows ==
    [vendor : {"intel", "amd"}, platform : {"windows"}, gdtr : {WindowsGdt(6), WindowsGdt(8)},
     sel : [cs : {8}, ss : {0, 16}, ds : {27}, tr : {32}, ldtr : {0, 24}], stacks : {{0, 16}},
     tss : {WindowsTss}, cr0 : {{"PE", "ET", "NE", "PG"}}, cr4 : {{"PAE"}},
     secondary : {All, All \ {"unrestricted_guest"}}, trueMsrs : BOOLEAN,
     interrupts : {TRUE}, ap : {FALSE}]

(* On UEFI application processors run with interrupts off, and the         *)
(* operating system starts them again with INIT.                           *)
Uefis ==
    [vendor : {"intel", "amd"}, platform : {"uefi"}, gdtr : {UefiGdt(n) : n \in {3, 5, 6, 7, 8}},
     sel : [cs : {16}, ss : {8}, ds : {8}, tr : {0}, ldtr : {0}], stacks : {{0, 8}},
     tss : {1, 1 + FourGB}, cr0 : {{"PE", "ET", "PG"}, {"PE", "ET", "NE", "PG"}}, cr4 : {{"PAE"}},
     secondary : {All, All \ {"unrestricted_guest"}, All \ {"user_wait_pause"}}, trueMsrs : BOOLEAN,
     interrupts : BOOLEAN, ap : BOOLEAN]

(* Firmware that has loaded TR already.                                    *)
UefiWithTss ==
    [vendor : {"intel", "amd"}, platform : {"uefi"}, gdtr : {WindowsGdt(6)},
     sel : [cs : {8}, ss : {16}, ds : {16}, tr : {32}, ldtr : {0}], stacks : {{16}},
     tss : {WindowsTss}, cr0 : {{"PE", "ET", "NE", "PG"}}, cr4 : {{"PAE"}},
     secondary : {All}, trueMsrs : {TRUE}, interrupts : {TRUE}, ap : {FALSE}]

AllMachines == {x \in Windows \cup Uefis \cup UefiWithTss : x.ap => ~x.interrupts}
=============================================================================
