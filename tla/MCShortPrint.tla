----------------------------- MODULE MCShortPrint -----------------------------
(* Small instances of ShortPrint for TLC.                                  *)
EXTENDS ShortPrint, TLC

CONSTANTS p1, p2

(* One process opens, writes and closes, the other only writes.            *)
RolesNext ==
    \/ Engine
    \/ Process(p1)
    \/ Open(p2) \/ \E n \in 1 .. MaxCount : Write(p2, n)
    \/ WriteDown(p2) \/ WriteSteps(p2) \/ Signals(p2)

RolesSpec == Init /\ [][RolesNext]_vars
=============================================================================
