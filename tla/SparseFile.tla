------------------------------ MODULE SparseFile ------------------------------
(***************************************************************************)
(* What a scull device promises the programs that use it: a file with      *)
(* holes.  A byte that was never written is unspecified, and a program     *)
(* that has not been told a byte's value cannot tell it from a hole.       *)
(***************************************************************************)
EXTENDS Integers, Sequences

CONSTANTS Proc, Byte, Hole

VARIABLES
    content,    \* the bytes from 0 to the end of the file
    pos,        \* where each process's file stands
    buf, count  \* the callers' buffers, what they ask for and what they got

vars == <<content, pos, buf, count>>

Init ==
    /\ content = <<>>
    /\ pos \in [Proc -> {0}] /\ buf \in [Proc -> {<<>>}] /\ count \in [Proc -> {0}]

(* A call begins or ends, a file is opened, closed or positioned.          *)
Caller(p) ==
    /\ buf'[p] \in Seq(Byte) /\ pos'[p] \in Nat
    /\ \A q \in Proc \ {p} : buf'[q] = buf[q] /\ count'[q] = count[q] /\ pos'[q] = pos[q]
    /\ UNCHANGED content

(* Outside the window a call writes to, the bytes of the file stay as they *)
(* are, but holes may be filled with anything.                             *)
Untouched(window) ==
    \A i \in DOMAIN content \ window : content[i] = Hole \/ content'[i] = content[i]

(* A write stores a non-empty prefix of the caller's bytes at its position *)
(* and moves the position behind it; the file grows if need be.            *)
Write(p) ==
    \E n \in 1 .. Len(buf[p]) :
        LET window == pos[p] + 1 .. pos[p] + n IN
        /\ Len(content') = (IF Len(content) > pos[p] + n THEN Len(content) ELSE pos[p] + n)
        /\ \A i \in window : content'[i] = buf[p][i - pos[p]]
        /\ Untouched(window)
        /\ pos' = [pos EXCEPT ![p] = @ + n]
        /\ count' = [count EXCEPT ![p] = n]
        /\ UNCHANGED buf

(* A write that fails may have stored bytes all the same, but none past    *)
(* the end of the file.                                                    *)
FailedWrite(p) ==
    \E n \in 0 .. Len(buf[p]) :
        LET window == pos[p] + 1 .. pos[p] + n IN
        /\ Len(content') = Len(content)
        /\ \A i \in window \cap DOMAIN content : content'[i] = buf[p][i - pos[p]]
        /\ Untouched(window)
        /\ UNCHANGED <<pos, buf, count>>

(* A read returns bytes as they are in the file, and never through a hole. *)
Read(p) ==
    \E n \in 1 .. Len(content) - pos[p] :
        LET taken == SubSeq(content, pos[p] + 1, pos[p] + n) IN
        /\ n <= count[p]
        /\ \A i \in 1 .. n : taken[i] # Hole
        /\ buf' = [buf EXCEPT ![p] = taken]
        /\ pos' = [pos EXCEPT ![p] = @ + n]
        /\ count' = [count EXCEPT ![p] = n]
        /\ UNCHANGED content

(* Opening for writing only empties the file.                              *)
Truncate ==
    /\ content' = <<>>
    /\ UNCHANGED <<pos, buf, count>>

Next ==
    \/ \E p \in Proc : Caller(p) \/ Write(p) \/ FailedWrite(p) \/ Read(p)
    \/ Truncate

Spec == Init /\ [][Next]_vars
=============================================================================
