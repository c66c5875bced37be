----------------------------- MODULE ApStartup -----------------------------
(***************************************************************************)
(* What the guest's operating system expects of an application processor   *)
(* that it starts with INIT and Startup IPIs: INIT puts it in the          *)
(* wait-for-SIPI state, the first SIPI that finds it there releases it     *)
(* with that SIPI's vector, and it then executes from that vector.  A SIPI *)
(* that finds it in another state changes nothing.                         *)
(*                                                                         *)
(* The hypervisor emulates this in software on AMD (module SvmSipi).       *)
(***************************************************************************)
EXTENDS Naturals

CONSTANTS Aps,          \* the application processors
          Vectors,      \* the startup vectors the system uses
          NoVector      \* not a vector

VARIABLES mode,         \* what each processor does
          vector,       \* the vector that released it, while it is "released"
          start         \* the vector it last started from

avars == <<mode, vector, start>>

AInit ==
    /\ mode = [p \in Aps |-> "running"]
    /\ vector = [p \in Aps |-> NoVector]
    /\ start = [p \in Aps |-> NoVector]

(* INIT: whatever it was executing is forgotten.                           *)
Reset(p) ==
    /\ mode[p] = "running"
    /\ mode' = [mode EXCEPT ![p] = "waiting"]
    /\ start' = [start EXCEPT ![p] = NoVector]
    /\ UNCHANGED vector

Release(p, v) ==
    /\ mode[p] = "waiting"
    /\ mode' = [mode EXCEPT ![p] = "released"]
    /\ vector' = [vector EXCEPT ![p] = v]
    /\ UNCHANGED start

Resume(p) ==
    /\ mode[p] = "released"
    /\ mode' = [mode EXCEPT ![p] = "running"]
    /\ start' = [start EXCEPT ![p] = vector[p]]
    /\ vector' = [vector EXCEPT ![p] = NoVector]

ANext ==
    \E p \in Aps :
        \/ Reset(p)
        \/ \E v \in Vectors : Release(p, v)
        \/ Resume(p)

ASafety == AInit /\ [][ANext]_avars

ASpec == ASafety /\ \A p \in Aps : WF_avars(Resume(p))
=============================================================================
