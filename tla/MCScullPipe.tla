----------------------------- MODULE MCScullPipe -----------------------------
(* Small instances of ScullPipe for TLC.                                   *)
EXTENDS ScullPipe, TLC

CONSTANTS f1, f2, f3, a, b

Short == {<<a>>}                    \* indistinguishable bytes, one at a time
ShortAndLong == {<<a>>, <<a, b>>}   \* enough to see bytes out of order
FileSymmetry == Permutations(File)

(* Everything that touches the data: no poll, SIGIO or signal.             *)
DataNext ==
    \/ \E f \in File :
        \/ \E n \in 1 .. MaxCount : Read(f, n)
        \/ \E s \in Messages : Write(f, s)
        \/ Steps(f) \/ Opens(f)
    \/ Clobber

DataSpec == Init /\ [][DataNext]_vars

(* Programs that only read and write between two opens, and signals.       *)
BlockingNext ==
    \E f \in File :
        \/ \E n \in 1 .. MaxCount : Read(f, n)
        \/ \E s \in Messages : Write(f, s)
        \/ Steps(f) \/ Signal(f)

BlockingSpec == SessionInit /\ [][BlockingNext]_vars /\ Fairness
=============================================================================
