------------------------------ MODULE MCDrivers ------------------------------
(* Small instances of four kernel-side models that share nothing, in one    *)
(* run: a behaviour is about one of them, the part, and the others keep the  *)
(* one initial state chosen for them.                                       *)
EXTENDS ShortRings, ShortPorts, Waiters, Loading

VARIABLE part

allvars == <<part, rvars, pvars, wvars, lvars>>

DriversInit ==
    /\ part \in {"rings", "ports", "waiters", "loading"}
    /\ RingsInit /\ PortsInit /\ WaitersInit /\ LoadingInit
    /\ part # "rings" => handler = "interrupt"
    /\ part # "waiters" => procs = {"sleepy"}
    /\ part # "loading" => driver = "scull"

RingsPart   == part = "rings" /\ RingsNext /\ UNCHANGED <<part, pvars, wvars, lvars>>
PortsPart   == part = "ports" /\ PortsNext /\ UNCHANGED <<part, rvars, wvars, lvars>>
WaitersPart == part = "waiters" /\ WaitersNext /\ UNCHANGED <<part, rvars, pvars, lvars>>
LoadingPart == part = "loading" /\ LoadingNext /\ UNCHANGED <<part, rvars, pvars, wvars>>

DriversSpec ==
    DriversInit /\ [][RingsPart \/ PortsPart \/ WaitersPart \/ LoadingPart]_allvars
=============================================================================
