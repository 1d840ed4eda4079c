------------------------------ MODULE ScullStore ------------------------------
(***************************************************************************)
(* scull/main.c: the memory behind a scull device, a list of quantum sets, *)
(* and the file operations every scull device but the pipes shares: read,  *)
(* write, llseek, ioctl and scull_trim.  How a device is opened differs    *)
(* and is left to the modules that extend this one.                        *)
(*                                                                         *)
(* A process copies dev->quantum and dev->qset before it takes dev->sem,   *)
(* then looks its quantum up and copies the data in two steps under it.    *)
(***************************************************************************)
EXTENDS Integers, Sequences, FiniteSets

CONSTANTS
    Proc,           \* processes, each with one file
    NoProc,         \* "no one holds the semaphore"
    Byte,           \* bytes written by programs
    Junk,           \* what a fresh quantum holds: kmalloc does not clear it
    Hole,           \* a byte of the device without a quantum
    Quanta, Qsets,  \* the values the ioctls give scull_quantum and scull_qset
    Messages,       \* what programs write in one call
    MaxCount,       \* bound on the count of a read
    MaxPos          \* bound on the position a program seeks to

ASSUME StoreAssumption ==
    /\ Quanta \subseteq Nat /\ Qsets \subseteq Nat
    /\ Messages \subseteq Seq(Byte) /\ <<>> \notin Messages
    /\ MaxCount \in Nat \ {0} /\ MaxPos \in Nat
    /\ NoProc \notin Proc
    /\ Junk \notin Byte /\ Hole \notin Byte /\ Junk # Hole

VARIABLES
    scull_quantum, scull_qset,  \* the module's settings
    quantum, qset, size,        \* dev->quantum, dev->qset, dev->size
    data,                       \* the list at dev->data: a sequence of items, each the
                                \* sequence of its quanta; <<>> stands for NULL in both
    sem,                        \* the process that holds dev->sem
    pc,
    f_flags,                    \* how the file is open, "" when it is not
    f_pos,
    my_quantum, my_qset,        \* the local copies of a read or write under way
    buf, count,                 \* the caller's buffer and how many bytes it asks for
    dangling                    \* processes whose quantum was freed under them

settings == <<scull_quantum, scull_qset>>
device   == <<quantum, qset, size, data>>
call     == <<my_quantum, my_qset, buf, count>>
vars     == <<settings, device, sem, pc, f_flags, f_pos, call, dangling>>

Flags == {"O_RDONLY", "O_WRONLY", "O_RDWR"}
Location == {"closed", "opening", "idle", "r_load", "r_load2", "r_down", "r_copy",
             "w_load", "w_load2", "w_down", "w_copy", "done", "wild"}

TypeOK ==
    /\ scull_quantum \in Quanta /\ scull_qset \in Qsets
    /\ quantum \in Quanta /\ qset \in Qsets /\ size \in Nat
    /\ data \in Seq(Seq(Seq(Byte \cup {Junk})))
    /\ sem \in Proc \cup {NoProc}
    /\ pc \in [Proc -> Location]
    /\ f_flags \in [Proc -> Flags \cup {""}]
    /\ f_pos \in [Proc -> Nat]
    /\ my_quantum \in [Proc -> Quanta] /\ my_qset \in [Proc -> Qsets]
    /\ buf \in [Proc -> Seq(Byte \cup {Junk})] /\ count \in [Proc -> Nat]
    /\ dangling \subseteq Proc

Init ==
    /\ scull_quantum \in Quanta \ {0} /\ scull_qset \in Qsets \ {0}    \* as loaded
    /\ quantum = scull_quantum /\ qset = scull_qset
    /\ size = 0 /\ data = <<>>
    /\ sem = NoProc
    /\ pc = [p \in Proc |-> "closed"]
    /\ f_flags = [p \in Proc |-> ""]
    /\ f_pos = [p \in Proc |-> 0]
    /\ my_quantum = [p \in Proc |-> quantum] /\ my_qset = [p \in Proc |-> qset]
    /\ buf = [p \in Proc |-> <<>>] /\ count = [p \in Proc |-> 0]
    /\ dangling = {}

GoTo(p, l) == pc' = [pc EXCEPT ![p] = l]

-----------------------------------------------------------------------------
(* scull_trim(): everything is freed and the settings of the day are       *)
(* taken.  A process that is copying keeps its pointer.                    *)

Trim ==
    /\ size' = 0 /\ data' = <<>>
    /\ quantum' = scull_quantum /\ qset' = scull_qset
    /\ dangling' = dangling \cup {p \in Proc : pc[p] \in {"r_copy", "w_copy"}}

(* Where the position of p lies, by the local copies.                      *)
itemsize(p) == my_quantum[p] * my_qset[p]
item(p)     == f_pos[p] \div itemsize(p)
rest(p)     == f_pos[p] % itemsize(p)
s_pos(p)    == rest(p) \div my_quantum[p]
q_pos(p)    == rest(p) % my_quantum[p]

(* Dividing by zero, or an index past the array of an item, leaves the     *)
(* behaviour open; the model leaves the process there, semaphore held.     *)
GoesWild(p, list) ==
    \/ itemsize(p) = 0
    \/ /\ list[item(p) + 1] # <<>>
       /\ s_pos(p) >= Len(list[item(p) + 1])

(* The pointer dptr->data[s_pos] has been followed: it must not lead past  *)
(* the end of the quantum.                                                 *)
Quantum(p) == data[item(p) + 1][s_pos(p) + 1]

Least(a, b) == IF a < b THEN a ELSE b

(* Mutant: the count is not limited to the end of the quantum.             *)
TransferAll(p) == count[p]

Transfer(p) == Least(count[p], my_quantum[p] - q_pos(p))

(* The copy goes through a freed quantum, or past the end of one.          *)
Astray(p) == IF p \in dangling THEN TRUE ELSE q_pos(p) + Transfer(p) > Len(Quantum(p))

RunsWild(p) ==
    /\ GoTo(p, "wild")
    /\ UNCHANGED <<settings, device, sem, f_flags, f_pos, call, dangling>>

(* scull_follow(dev, n): the list, made n+1 items long if need be; or less *)
(* when memory runs out on the way.                                        *)
Followed(n) == IF n < Len(data) THEN data ELSE data \o [i \in 1 .. n + 1 - Len(data) |-> <<>>]
Shortened(n) == {data \o [i \in 1 .. k |-> <<>>] : k \in 0 .. n - Len(data)}

-----------------------------------------------------------------------------
(* The two loads every read and write starts with.                         *)

Read(p, n) ==
    /\ pc[p] = "idle" /\ f_flags[p] # "O_WRONLY"
    /\ count' = [count EXCEPT ![p] = n]
    /\ GoTo(p, "r_load")
    /\ UNCHANGED <<settings, device, sem, f_flags, f_pos, my_quantum, my_qset, buf, dangling>>

Write(p, s) ==
    /\ pc[p] = "idle" /\ f_flags[p] # "O_RDONLY"
    /\ f_pos[p] + Len(s) <= MaxPos
    /\ count' = [count EXCEPT ![p] = Len(s)]
    /\ buf' = [buf EXCEPT ![p] = s]
    /\ GoTo(p, "w_load")
    /\ UNCHANGED <<settings, device, sem, f_flags, f_pos, my_quantum, my_qset, dangling>>

LoadQuantum(p) ==
    /\ pc[p] \in {"r_load", "w_load"}
    /\ my_quantum' = [my_quantum EXCEPT ![p] = quantum]
    /\ GoTo(p, IF pc[p] = "r_load" THEN "r_load2" ELSE "w_load2")
    /\ UNCHANGED <<settings, device, sem, f_flags, f_pos, my_qset, buf, count, dangling>>

LoadQset(p) ==
    /\ pc[p] \in {"r_load2", "w_load2"}
    /\ my_qset' = [my_qset EXCEPT ![p] = qset]
    /\ GoTo(p, IF pc[p] = "r_load2" THEN "r_down" ELSE "w_down")
    /\ UNCHANGED <<settings, device, sem, f_flags, f_pos, my_quantum, buf, count, dangling>>

(* down_interruptible() is ended by a signal while another has dev->sem.   *)
Interrupted(p) ==
    /\ pc[p] \in {"r_down", "w_down"} /\ sem # NoProc
    /\ GoTo(p, "done")
    /\ UNCHANGED <<settings, device, sem, f_flags, f_pos, call, dangling>>

Return(p) ==
    /\ pc[p] = "done"
    /\ buf' = [buf EXCEPT ![p] = <<>>] /\ count' = [count EXCEPT ![p] = 0]
    /\ GoTo(p, "idle")
    /\ UNCHANGED <<settings, device, sem, f_flags, f_pos, my_quantum, my_qset, dangling>>

-----------------------------------------------------------------------------
(* scull_read                                                              *)

(* At or past the end, and in a hole, a read returns 0.  Below the end the *)
(* list is followed, and extended, even by a read.                         *)
ReadFind(p) ==
    /\ pc[p] = "r_down" /\ sem = NoProc
    /\ \/ /\ f_pos[p] >= size
          /\ GoTo(p, "done")
          /\ UNCHANGED <<data, sem, count>>
       \/ /\ f_pos[p] < size /\ itemsize(p) = 0
          /\ sem' = p
          /\ GoTo(p, "wild")
          /\ UNCHANGED <<data, count>>
       \/ /\ f_pos[p] < size /\ itemsize(p) # 0
          /\ data' \in Shortened(item(p))
          /\ GoTo(p, "done")
          /\ UNCHANGED <<sem, count>>
       \/ /\ f_pos[p] < size /\ itemsize(p) # 0
          /\ data' = Followed(item(p))
          /\ count' = [count EXCEPT ![p] = Least(@, size - f_pos[p])]
          /\ IF GoesWild(p, data') THEN sem' = p /\ GoTo(p, "wild")
             ELSE IF data'[item(p) + 1] = <<>> \/ data'[item(p) + 1][s_pos(p) + 1] = <<>>
             THEN sem' = sem /\ GoTo(p, "done")
             ELSE sem' = p /\ GoTo(p, "r_copy")
    /\ UNCHANGED <<settings, quantum, qset, size, f_flags, f_pos, my_quantum, my_qset, buf, dangling>>

ReadCopy(p) ==
    /\ pc[p] = "r_copy"
    /\ IF Astray(p) THEN RunsWild(p) ELSE
       LET n == Transfer(p) IN
       /\ buf' = [buf EXCEPT ![p] = SubSeq(Quantum(p), q_pos(p) + 1, q_pos(p) + n)]
       /\ f_pos' = [f_pos EXCEPT ![p] = @ + n]
       /\ count' = [count EXCEPT ![p] = n]
       /\ sem' = NoProc
       /\ GoTo(p, "done")
       /\ UNCHANGED <<settings, device, f_flags, my_quantum, my_qset, dangling>>

-----------------------------------------------------------------------------
(* scull_write                                                             *)

(* Mutant: the array is given the length of a quantum.                     *)
FreshItemByQuantum(p) == [i \in 1 .. my_quantum[p] |-> <<>>]

FreshItem(p)    == [i \in 1 .. my_qset[p] |-> <<>>]
FreshQuantum(p) == [i \in 1 .. my_quantum[p] |-> Junk]

(* The item of p gets its array and its quantum if they are missing.       *)
WithItem(p, list) ==
    IF list[item(p) + 1] = <<>> THEN [list EXCEPT ![item(p) + 1] = FreshItem(p)] ELSE list

(* Mutant: a quantum is allocated whether or not there is one.             *)
WithFreshQuantum(p, list) == [list EXCEPT ![item(p) + 1][s_pos(p) + 1] = FreshQuantum(p)]

WithQuantum(p, list) ==
    IF list[item(p) + 1][s_pos(p) + 1] = <<>>
    THEN [list EXCEPT ![item(p) + 1][s_pos(p) + 1] = FreshQuantum(p)] ELSE list

WriteFind(p) ==
    /\ pc[p] = "w_down" /\ sem = NoProc
    /\ IF itemsize(p) = 0
       THEN /\ sem' = p
            /\ GoTo(p, "wild")
            /\ UNCHANGED data
       ELSE \/ /\ \/ data' \in Shortened(item(p))               \* -ENOMEM in scull_follow
                  \/ /\ data' = Followed(item(p))               \* ... for the array
                     /\ data'[item(p) + 1] = <<>>
                  \/ /\ ~GoesWild(p, Followed(item(p)))         \* ... for the quantum
                     /\ data' = WithItem(p, Followed(item(p)))
                     /\ data'[item(p) + 1][s_pos(p) + 1] = <<>>
               /\ GoTo(p, "done")
               /\ UNCHANGED sem
            \/ /\ GoesWild(p, Followed(item(p)))
               /\ data' = Followed(item(p))
               /\ sem' = p
               /\ GoTo(p, "wild")
            \/ /\ ~GoesWild(p, Followed(item(p)))
               /\ data' = WithQuantum(p, WithItem(p, Followed(item(p))))
               /\ sem' = p
               /\ GoTo(p, "w_copy")
    /\ UNCHANGED <<settings, quantum, qset, size, f_flags, f_pos, call, dangling>>

Stored(p, n) ==
    [data EXCEPT ![item(p) + 1][s_pos(p) + 1] =
        [i \in DOMAIN @ |-> IF i \in q_pos(p) + 1 .. q_pos(p) + n THEN buf[p][i - q_pos(p)] ELSE @[i]]]

WriteCopy(p) ==
    /\ pc[p] = "w_copy"
    /\ IF Astray(p) THEN RunsWild(p) ELSE
       LET n == Transfer(p) IN
       /\ data' = Stored(p, n)
       /\ f_pos' = [f_pos EXCEPT ![p] = @ + n]
       /\ count' = [count EXCEPT ![p] = n]
       /\ size' = IF size < f_pos[p] + n THEN f_pos[p] + n ELSE size
       /\ sem' = NoProc
       /\ GoTo(p, "done")
       /\ UNCHANGED <<settings, quantum, qset, f_flags, my_quantum, my_qset, buf, dangling>>

(* -EFAULT: neither position nor size moves, but a write may have stored   *)
(* the bytes before the bad page.                                          *)
CopyFault(p) ==
    /\ p \notin dangling
    /\ \/ /\ pc[p] = "r_copy"
          /\ UNCHANGED data
       \/ /\ pc[p] = "w_copy"
          /\ q_pos(p) + Transfer(p) <= Len(Quantum(p))
          /\ \E k \in 0 .. Transfer(p) - 1 : data' = Stored(p, k)
    /\ sem' = NoProc
    /\ GoTo(p, "done")
    /\ UNCHANGED <<settings, quantum, qset, size, f_flags, f_pos, call, dangling>>

-----------------------------------------------------------------------------
(* scull_llseek (which reads dev->size without the semaphore), the setting *)
(* ioctls (a SCULL_IOCSQUANTUM or SCULL_IOCSQSET from a bad address stores *)
(* 0), and release.                                                        *)

Seek(p, pos) ==
    /\ pc[p] = "idle"
    /\ pos >= 0
    /\ f_pos' = [f_pos EXCEPT ![p] = pos]
    /\ UNCHANGED <<settings, device, sem, pc, f_flags, call, dangling>>

SetQuantum(p, v) ==
    /\ pc[p] = "idle"
    /\ scull_quantum' = v
    /\ UNCHANGED <<scull_qset, device, sem, pc, f_flags, f_pos, call, dangling>>

SetQset(p, v) ==
    /\ pc[p] = "idle"
    /\ scull_qset' = v
    /\ UNCHANGED <<scull_quantum, device, sem, pc, f_flags, f_pos, call, dangling>>

Release(p) ==
    /\ pc[p] = "idle"
    /\ f_flags' = [f_flags EXCEPT ![p] = ""]
    /\ f_pos' = [f_pos EXCEPT ![p] = 0]
    /\ GoTo(p, "closed")
    /\ UNCHANGED <<settings, device, sem, call, dangling>>

FileOps(p) ==
    \/ \E n \in 1 .. MaxCount : Read(p, n)
    \/ \E s \in Messages : Write(p, s)
    \/ \E pos \in 0 .. MaxPos : Seek(p, pos)
    \/ \E pos \in {f_pos[p], size} : \E off \in -1 .. 1 :
           pos + off <= MaxPos /\ Seek(p, pos + off)

Steps(p) ==
    \/ LoadQuantum(p) \/ LoadQset(p) \/ Interrupted(p) \/ Return(p)
    \/ ReadFind(p) \/ ReadCopy(p)
    \/ WriteFind(p) \/ WriteCopy(p)
    \/ CopyFault(p)

Settings(p) ==
    \/ \E v \in Quanta : SetQuantum(p, v)
    \/ \E v \in Qsets : SetQset(p, v)

-----------------------------------------------------------------------------
(* The layout scull.h describes: every array is dev->qset long and every   *)
(* quantum dev->quantum bytes, which is what scull_trim frees by.          *)
Layout ==
    \A i \in DOMAIN data : data[i] # <<>> =>
        /\ Len(data[i]) = qset
        /\ \A j \in DOMAIN data[i] : Len(data[i][j]) \in {0, quantum}

(* The semaphore is held exactly by a process between find and copy.       *)
SemaphoreDiscipline == \A p \in Proc : sem = p <=> pc[p] \in {"r_copy", "w_copy", "wild"}

(* The bytes of the device, by the layout.                                 *)
ByteAt(pos) ==
    LET i == pos \div (quantum * qset)
        j == (pos % (quantum * qset)) \div quantum
        k == pos % quantum
    IN  IF i >= Len(data) THEN Hole
        ELSE IF data[i + 1] = <<>> \/ data[i + 1][j + 1] = <<>> THEN Hole
        ELSE data[i + 1][j + 1][k + 1]

Contents == [pos \in 1 .. size |-> ByteAt(pos - 1)]

(* The memory of the device is sound: every call leaves the list in the    *)
(* layout that a trim frees by, wherever it failed, and has the semaphore  *)
(* for as long as it looks into the list and no longer.                    *)
StoreIsSound == TypeOK /\ SemaphoreDiscipline /\ Layout
=============================================================================
