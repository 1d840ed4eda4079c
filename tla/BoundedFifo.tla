----------------------------- MODULE BoundedFifo -----------------------------
(***************************************************************************)
(* What scullpipe promises the programs that use it: a queue of bytes that *)
(* never holds size of them.  A call works on the buffer its caller gave.  *)
(***************************************************************************)
EXTENDS Integers, Sequences

CONSTANTS File, Byte, Junk, Sizes

VARIABLES
    queue,      \* the bytes written and not yet read, oldest first
    size,       \* the queue holds fewer bytes than this
    intact,     \* the memory of the queue belongs to it
    ubuf,       \* the callers' buffers
    count       \* what the callers ask for, then what they got

vars == <<queue, size, intact, ubuf, count>>

Init ==
    /\ queue = <<>> /\ size = 0 /\ intact \in BOOLEAN
    /\ ubuf \in [File -> {<<>>}]
    /\ count \in [File -> {0}]

(* A call begins or ends: what the caller's own variables hold is its      *)
(* affair.                                                                 *)
Caller(f) ==
    /\ ubuf'[f] \in Seq(Byte)
    /\ \A g \in File \ {f} : ubuf'[g] = ubuf[g] /\ count'[g] = count[g]
    /\ UNCHANGED <<queue, size, intact>>

(* A write appends a non-empty prefix of the caller's bytes and says how   *)
(* long it was.                                                            *)
Put(f) ==
    \E n \in 1 .. Len(ubuf[f]) :
        /\ Len(queue) + n < size
        /\ queue' = queue \o SubSeq(ubuf[f], 1, n)
        /\ count' = [count EXCEPT ![f] = n]
        /\ UNCHANGED <<size, intact, ubuf>>

(* A read takes at most the number asked for, and at least one byte.       *)
Take(f) ==
    \E n \in 1 .. Len(queue) :
        /\ n <= count[f]
        /\ ubuf' = [ubuf EXCEPT ![f] = SubSeq(queue, 1, n)]
        /\ queue' = SubSeq(queue, n + 1, Len(queue))
        /\ count' = [count EXCEPT ![f] = n]
        /\ UNCHANGED <<size, intact>>

(* An open empties the queue and may change its size.                      *)
Reset ==
    /\ queue' = <<>>
    /\ size' \in Sizes
    /\ intact' \in BOOLEAN
    /\ UNCHANGED <<ubuf, count>>

(* The last close gives the memory back.                                   *)
Drop ==
    /\ intact' = FALSE
    /\ UNCHANGED <<queue, size, ubuf, count>>

(* Only memory that is not the queue's own loses its bytes.                *)
Spoil ==
    /\ ~intact
    /\ DOMAIN queue' = DOMAIN queue
    /\ \A i \in DOMAIN queue : queue'[i] \in {queue[i], Junk}
    /\ UNCHANGED <<size, intact, ubuf, count>>

Next ==
    \/ \E f \in File : Caller(f) \/ Put(f) \/ Take(f)
    \/ Reset \/ Drop \/ Spoil

Spec == Init /\ [][Next]_vars
=============================================================================
