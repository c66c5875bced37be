----------------------------- MODULE MCSvmSipi -----------------------------
(***************************************************************************)
(* The guests for SvmSipi.                                                 *)
(***************************************************************************)
EXTENDS SvmSipi

(* One that boots as the code expects, one that is as orderly but hurries  *)
(* its second SIPI and makes any store, and one that wakes processors      *)
(* in any order.                                                           *)
BootingGuests ==
    {[orderly |-> TRUE, late |-> TRUE, unsupported |-> FALSE, rounds |-> 2],
     [orderly |-> TRUE, late |-> FALSE, unsupported |-> TRUE, rounds |-> 2],
     [orderly |-> FALSE, late |-> FALSE, unsupported |-> FALSE, rounds |-> 1]}

(* One that wakes processors in any order, and a second time.              *)
DisorderlyGuests == {[orderly |-> FALSE, late |-> TRUE, unsupported |-> FALSE, rounds |-> 2]}
=============================================================================
