---------------------------- MODULE MCLifecycle ----------------------------
(***************************************************************************)
(* The machines for Lifecycle: both vendors and both platforms, one whose  *)
(* firmware has locked VMX out, and one with equal local APIC ids.         *)
(***************************************************************************)
EXTENDS Lifecycle

Machine(vendor, platform, featureControl) ==
    [vendor |-> vendor, platform |-> platform, featureControl |-> featureControl,
     apicIds |-> [p \in Processors |-> 2 * p]]

AllMachines ==
    {Machine("intel", "windows", "unlocked"), Machine("intel", "uefi", "on"),
     Machine("intel", "windows", "off"),
     Machine("amd", "windows", "on"), Machine("amd", "uefi", "on"),
     [Machine("amd", "windows", "on") EXCEPT !.apicIds = [p \in Processors |-> 1]]}
=============================================================================
