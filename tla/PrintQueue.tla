----------------------------- MODULE PrintQueue -----------------------------
(***************************************************************************)
(* What shortprint promises: bytes go to the printer in the order in which *)
(* the writes put them in line, each of them once.                         *)
(***************************************************************************)
EXTENDS Naturals, Sequences

CONSTANTS Proc

VARIABLES queue     \* the bytes in line; a byte is the process that wrote it

Init == queue = <<>>

Put(p) ==
    /\ Len(queue') > Len(queue)
    /\ queue' = queue \o [i \in 1 .. Len(queue') - Len(queue) |-> p]

Strobe == queue # <<>> /\ queue' = Tail(queue)

Next == Strobe \/ \E p \in Proc : Put(p)

Spec == Init /\ [][Next]_queue
=============================================================================
