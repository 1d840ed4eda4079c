---------------------------- MODULE ScullBare_proofs ----------------------------
(***************************************************************************)
(* Proofs about the file operations of a scull device, which the access-   *)
(* controlled devices share, and about the bare device: its semaphore,     *)
(* with settings that may change at any time; and with settings that stay  *)
(* as loaded the bounds of every access, the layout of the memory, and     *)
(* that the device is the file of SparseFile.                              *)
(***************************************************************************)
EXTENDS ScullBare, SequenceTheorems, TLAPS

(* What the file operations of ScullStore do to the semaphore, for any     *)
(* processes, settings and data; every device cites it for its own opens.  *)
Copying == {"r_copy", "w_copy", "wild"}

(* The processes are somewhere, and who copies has the semaphore.          *)
SemInv == pc \in [Proc -> Location] /\ sem \in Proc \cup {NoProc} /\ SemaphoreDiscipline

(* The file operations of an open file.                                    *)
FileStep(p) == FileOps(p) \/ Steps(p) \/ Settings(p)

(* Where a file operation may take a process, and whom it may give dev->sem. *)
Moved(p, l) == pc' = [pc EXCEPT ![p] = l]

-----------------------------------------------------------------------------
LEMMA Discipline ==
    ASSUME SemInv, NEW p \in Proc, NEW l \in Location, Moved(p, l),
           \/ sem' = sem /\ (pc[p] \in Copying <=> l \in Copying)
           \/ sem = NoProc /\ sem' = p /\ l \in Copying
           \/ sem' = NoProc /\ pc[p] \in Copying /\ l \notin Copying
    PROVE  SemInv'
<1> USE StoreAssumption
<1>1. pc' \in [Proc -> Location]
  BY DEF SemInv, Moved
<1>2. ASSUME NEW q \in Proc
      PROVE  sem' = q <=> pc'[q] \in Copying
  BY <1>2 DEF SemInv, SemaphoreDiscipline, Moved, Copying
<1>3. sem' \in Proc \cup {NoProc}
  BY DEF SemInv
<1>4. QED
  BY <1>1, <1>2, <1>3 DEF SemInv, SemaphoreDiscipline, Copying

(* A call that looks for its quantum takes the semaphore or leaves it.     *)
LEMMA FindStep ==
    ASSUME SemInv, NEW p \in Proc, ReadFind(p) \/ WriteFind(p)
    PROVE  /\ SemInv' /\ dangling' = dangling
           /\ pc[p] \notin {"closed", "opening"}
           /\ \E l \in Location \ {"closed", "opening"} : Moved(p, l)
<1>1. pc[p] \in {"r_down", "w_down"} /\ sem = NoProc /\ dangling' = dangling
  BY DEF ReadFind, WriteFind
<1>2. PICK l \in {"done", "r_copy", "w_copy", "wild"} :
          Moved(p, l) /\ sem' = IF l = "done" THEN sem ELSE p
  BY DEF ReadFind, WriteFind, GoTo, Moved
<1>3. l \in Location \ {"closed", "opening"}
  BY DEF Location
<1>4. SemInv'
  BY <1>1, <1>2, <1>3, Discipline DEF Copying
<1>5. QED
  BY <1>1, <1>2, <1>3, <1>4

(* A copy ends with the semaphore free, or wild and with it.               *)
LEMMA CopyStep ==
    ASSUME SemInv, NEW p \in Proc, ReadCopy(p) \/ WriteCopy(p) \/ CopyFault(p)
    PROVE  /\ SemInv' /\ dangling' = dangling
           /\ pc[p] \notin {"closed", "opening"}
           /\ \E l \in Location \ {"closed", "opening"} : Moved(p, l)
<1>1. pc[p] \in {"r_copy", "w_copy"} /\ dangling' = dangling
  BY DEF ReadCopy, WriteCopy, CopyFault, RunsWild
<1>2. PICK l \in {"done", "wild"} : Moved(p, l) /\ sem' = IF l = "done" THEN NoProc ELSE sem
  BY DEF ReadCopy, WriteCopy, CopyFault, RunsWild, GoTo, Moved
<1>3. l \in Location \ {"closed", "opening"}
  BY DEF Location
<1>4. SemInv'
  BY <1>1, <1>2, <1>3, Discipline DEF Copying
<1>5. QED
  BY <1>1, <1>2, <1>3, <1>4

(* Nothing else of a file has to do with the semaphore.                    *)
LEMMA CallStep ==
    ASSUME SemInv, NEW p \in Proc,
           \/ FileOps(p) \/ Settings(p)
           \/ LoadQuantum(p) \/ LoadQset(p) \/ Interrupted(p) \/ Return(p)
    PROVE  /\ SemInv' /\ dangling' = dangling
           /\ pc[p] \notin {"closed", "opening"}
           /\ \E l \in Location \ {"closed", "opening"} : Moved(p, l)
<1>1. /\ pc[p] \in Location \ {"closed", "opening", "r_copy", "w_copy", "wild"}
      /\ sem' = sem /\ dangling' = dangling
  BY DEF SemInv, FileOps, Settings, Read, Write, Seek, SetQuantum, SetQset, LoadQuantum,
         LoadQset, Interrupted, Return, Location
<1>2. PICK l \in Location \ {"closed", "opening", "r_copy", "w_copy", "wild"} : Moved(p, l)
  <2>1. CASE \/ \E pos \in 0 .. MaxPos : Seek(p, pos)
             \/ \E pos \in {f_pos[p], size} : \E off \in -1 .. 1 : Seek(p, pos + off)
             \/ Settings(p)
    <3>1. pc' = pc
      BY <2>1 DEF Seek, Settings, SetQuantum, SetQset
    <3>2. Moved(p, pc[p])
      BY <3>1 DEF SemInv, Moved
    <3>3. QED
      BY <3>2, <1>1
  <2>2. CASE \/ \E n \in 1 .. MaxCount : Read(p, n)
             \/ \E s \in Messages : Write(p, s)
             \/ LoadQuantum(p) \/ LoadQset(p) \/ Interrupted(p) \/ Return(p)
    BY <2>2 DEF Read, Write, LoadQuantum, LoadQset, Interrupted, Return, GoTo, Moved, Location
  <2>3. QED
    BY <2>1, <2>2 DEF FileOps
<1>3. SemInv'
  BY <1>1, <1>2, Discipline DEF Copying
<1>4. QED
  BY <1>1, <1>2, <1>3

(* A file operation keeps the discipline, frees nothing, and leaves a      *)
(* file that is open as open as it was.                                    *)
LEMMA FileStepKeeps ==
    ASSUME SemInv, NEW p \in Proc, FileStep(p)
    PROVE  /\ SemInv' /\ dangling' = dangling
           /\ pc[p] \notin {"closed", "opening"}
           /\ \E l \in Location \ {"closed", "opening"} : Moved(p, l)
  BY FindStep, CopyStep, CallStep DEF FileStep, Steps

-----------------------------------------------------------------------------
(* Who has a freed quantum can no longer start to copy: there is none,     *)
(* because a trim finds the semaphore free.                                *)
BareInv == SemInv /\ dangling = {}

LEMMA BareStep ==
    ASSUME BareInv, [Next]_vars
    PROVE  BareInv'
<1> USE StoreAssumption DEF BareInv
<1>1. CASE UNCHANGED vars
  BY <1>1 DEF vars, device, SemInv, SemaphoreDiscipline
<1>2. ASSUME NEW p \in Proc, FileOps(p) \/ Steps(p) \/ Settings(p)
      PROVE  BareInv'
  BY <1>2, FileStepKeeps DEF FileStep
<1>3. ASSUME NEW p \in Proc, \/ \E flags \in Flags : Open(p, flags)
                             \/ OpenInterrupted(p) \/ Release(p)
      PROVE  BareInv'
  <2>1. /\ pc[p] \in {"closed", "opening", "idle"}
        /\ sem' = sem /\ dangling' = dangling
    BY <1>3 DEF Open, OpenInterrupted, Release
  <2>2. PICK l \in {"closed", "opening", "idle"} : Moved(p, l)
    BY <1>3 DEF Open, OpenInterrupted, Release, GoTo, Moved
  <2>3. QED
    BY <2>1, <2>2, Discipline DEF Copying, Location
<1>4. ASSUME NEW p \in Proc, OpenTrim(p)
      PROVE  BareInv'
  <2>1. /\ pc[p] = "opening" /\ sem = NoProc /\ sem' = sem /\ Moved(p, "idle")
        /\ dangling' = dangling \cup {q \in Proc : pc[q] \in {"r_copy", "w_copy"}}
    BY <1>4 DEF OpenTrim, Trim, GoTo, Moved
  <2>2. {q \in Proc : pc[q] \in {"r_copy", "w_copy"}} = {}
    BY <2>1 DEF SemInv, SemaphoreDiscipline
  <2>3. SemInv'
    BY <2>1, Discipline DEF Copying, Location
  <2>4. QED
    BY <2>1, <2>2, <2>3
<1>5. QED
  BY <1>1, <1>2, <1>3, <1>4 DEF Next

LEMMA BareInvHolds == Spec => []BareInv
<1>1. Init => BareInv
  <2>1. SUFFICES ASSUME Init PROVE BareInv
    OBVIOUS
  <2>2. sem = NoProc /\ dangling = {} /\ pc = [p \in Proc |-> "closed"]
    BY <2>1 DEF Init
  <2>3. QED
    BY <2>2, StoreAssumption DEF BareInv, SemInv, SemaphoreDiscipline, Location
<1>2. QED
  BY <1>1, BareStep, PTL DEF Spec

(* dev->sem is held exactly between find and copy on every path of read    *)
(* and write, for any number of processes and whatever the settings do.    *)
THEOREM SemaphoreIsHeld == Spec => []SemaphoreDiscipline
<1>1. BareInv => SemaphoreDiscipline
  BY DEF BareInv, SemInv
<1>2. QED
  BY <1>1, BareInvHolds, PTL

(* No quantum is freed while a process copies through it: a write-only     *)
(* open waits for the semaphore before it empties the device.              *)
THEOREM TrimsWait == Spec => []NothingFreedUnderACopy
<1>1. BareInv => NothingFreedUnderACopy
  BY DEF BareInv, NothingFreedUnderACopy
<1>2. QED
  BY <1>1, BareInvHolds, PTL
-----------------------------------------------------------------------------
(* What scull_trim frees by: quanta and their arrays are missing, or have  *)
(* the length that the settings say.                                       *)
Bytes == Byte \cup {Junk}
Blocks(q) == {x \in Seq(Bytes) : Len(x) \in {0, q}}
Arrays(q, s) == {x \in Seq(Blocks(q)) : Len(x) \in {0, s}}

LEMMA EmptyOnes ==
    ASSUME NEW q \in Nat, NEW s \in Nat
    PROVE  <<>> \in Blocks(q) /\ <<>> \in Arrays(q, s)
<1>1. /\ <<>> \in Seq(Bytes) /\ Len(<<>>) = 0 /\ <<>> \in Seq(Blocks(q))
  BY EmptySeq
<1>2. QED
  BY <1>1 DEF Blocks, Arrays

LEMMA FreshSeq ==
    ASSUME NEW n \in Nat, NEW S, NEW e \in S
    PROVE  [i \in 1 .. n |-> e] \in Seq(S) /\ Len([i \in 1 .. n |-> e]) = n
<1>1. [i \in 1 .. n |-> e] \in [1 .. n -> S]
  OBVIOUS
<1>2. [i \in 1 .. n |-> e] \in Seq(S)
  BY <1>1, SeqDef
<1>3. QED
  BY <1>1, <1>2, LenProperties

LEMMA NonEmpty ==
    ASSUME NEW S, NEW x \in Seq(S)
    PROVE  x = <<>> <=> Len(x) = 0
  BY EmptySeq

LEMMA Shapes ==
    ASSUME NEW q \in Nat, NEW s \in Nat, NEW list \in Seq(Arrays(q, s))
    PROVE  /\ list \in Seq(Seq(Seq(Bytes)))
           /\ \A i \in DOMAIN list : list[i] # <<>> =>
                /\ Len(list[i]) = s
                /\ \A j \in DOMAIN list[i] : Len(list[i][j]) \in {0, q}
<1>1. Blocks(q) \subseteq Seq(Bytes)
  BY DEF Blocks
<1>2. Arrays(q, s) \subseteq Seq(Seq(Bytes))
  BY <1>1, SeqMonotonic DEF Arrays
<1>3. list \in Seq(Seq(Seq(Bytes)))
  BY <1>2, SeqMonotonic
<1>4. ASSUME NEW i \in DOMAIN list, list[i] # <<>>
      PROVE  Len(list[i]) = s /\ \A j \in DOMAIN list[i] : Len(list[i][j]) \in {0, q}
  <2>1. list[i] \in Arrays(q, s)
    BY ElementOfSeq, LenProperties
  <2>2. list[i] \in Seq(Blocks(q)) /\ Len(list[i]) \in {0, s}
    BY <2>1 DEF Arrays
  <2>3. Len(list[i]) = s
    BY <1>4, <2>2, NonEmpty
  <2>4. ASSUME NEW j \in DOMAIN list[i]
        PROVE  Len(list[i][j]) \in {0, q}
    <3>1. list[i][j] \in Blocks(q)
      BY <2>2, ElementOfSeq, LenProperties
    <3>2. QED
      BY <3>1 DEF Blocks
  <2>5. QED
    BY <2>3, <2>4
<1>5. QED
  BY <1>3, <1>4

(* A position lies in one quantum of one item, inside both.                *)
LEMMA Geometry ==
    ASSUME NEW q \in Nat \ {0}, NEW s \in Nat \ {0}, NEW x \in Nat
    PROVE  /\ q * s \in Nat \ {0} /\ x \div (q * s) \in Nat
           /\ (x % (q * s)) \div q \in 0 .. s - 1
           /\ (x % (q * s)) % q \in 0 .. q - 1
<1>1. q * s \in Nat \ {0}
  <2>1. q >= 1 /\ s >= 1
    OBVIOUS
  <2>2. q * s >= q
    BY <2>1
  <2>3. QED
    BY <2>1, <2>2
<1> DEFINE n == q * s  r == x % n  d == r \div q
<1>2. n \in Nat \ {0}
  BY <1>1
<1> HIDE DEF n
<1>3. r \in 0 .. n - 1 /\ x \div n \in Nat
  BY <1>2
<1> HIDE DEF r
<1>4. d \in Nat /\ r % q \in 0 .. q - 1 /\ q * d <= r
  BY <1>2, <1>3
<1> HIDE DEF d
<1>5. d <= s - 1
  <2>1. SUFFICES ASSUME d >= s PROVE FALSE
    BY <1>4
  <2>2. q * d >= q * s
    BY <1>4, <2>1
  <2>3. QED
    BY <1>3, <1>4, <2>2 DEF n
<1>6. QED
  BY <1>1, <1>3, <1>4, <1>5 DEF n, r, d

-----------------------------------------------------------------------------
(* A copy under way has found a quantum.                                   *)
Mapped(p) ==
    /\ item(p) + 1 \in 1 .. Len(data)
    /\ data[item(p) + 1] # <<>> /\ data[item(p) + 1][s_pos(p) + 1] # <<>>

Sound(p) ==
    /\ pc[p] # "wild"
    /\ pc[p] \in {"w_load", "w_load2", "w_down", "w_copy"} => count[p] = Len(buf[p])
    /\ pc[p] \in {"r_copy", "w_copy"} => Mapped(p)

(* With settings that stay as loaded, the device and all local copies have *)
(* the same ones.                                                          *)
Settled ==
    /\ quantum \in Quanta \ {0} /\ qset \in Qsets \ {0}
    /\ scull_quantum = quantum /\ scull_qset = qset
    /\ my_quantum = [p \in Proc |-> quantum] /\ my_qset = [p \in Proc |-> qset]

Shaped ==
    /\ data \in Seq(Arrays(quantum, qset)) /\ size \in Nat
    /\ f_flags \in [Proc -> Flags \cup {""}] /\ f_pos \in [Proc -> Nat]
    /\ buf \in [Proc -> Seq(Bytes)] /\ count \in [Proc -> Nat]

FixedInv == BareInv /\ Settled /\ Shaped /\ \A p \in Proc : Sound(p)

LEMMA Place ==
    ASSUME FixedInv, NEW p \in Proc
    PROVE  /\ quantum \in Nat \ {0} /\ qset \in Nat \ {0}
           /\ my_quantum[p] = quantum /\ my_qset[p] = qset
           /\ itemsize(p) \in Nat \ {0} /\ item(p) \in Nat
           /\ s_pos(p) \in 0 .. qset - 1 /\ q_pos(p) \in 0 .. quantum - 1
<1>1. quantum \in Nat \ {0} /\ qset \in Nat \ {0} /\ f_pos[p] \in Nat
  BY StoreAssumption DEF FixedInv, Settled, Shaped
<1>2. my_quantum[p] = quantum /\ my_qset[p] = qset
  BY DEF FixedInv, Settled
<1>3. QED
  BY <1>1, <1>2, Geometry DEF itemsize, item, rest, s_pos, q_pos

(* In a list of the right shape no index leads outside.                    *)
LEMMA Reach ==
    ASSUME FixedInv, NEW p \in Proc, NEW list \in Seq(Arrays(quantum, qset)), item(p) + 1 \in 1 .. Len(list)
    PROVE  /\ ~GoesWild(p, list)
           /\ list[item(p) + 1] # <<>> =>
                 /\ list[item(p) + 1] \in Seq(Blocks(quantum)) /\ Len(list[item(p) + 1]) = qset
                 /\ s_pos(p) + 1 \in 1 .. qset /\ list[item(p) + 1][s_pos(p) + 1] \in Blocks(quantum)
<1> DEFINE x == list[item(p) + 1]
<1>1. x \in Arrays(quantum, qset)
  BY ElementOfSeq
<1>2. x \in Seq(Blocks(quantum)) /\ Len(x) \in {0, qset}
  BY <1>1 DEF Arrays
<1> HIDE DEF x
<1>3. itemsize(p) # 0 /\ s_pos(p) \in 0 .. qset - 1 /\ qset \in Nat \ {0}
  BY Place
<1>4. ASSUME x # <<>>
      PROVE  /\ Len(x) = qset /\ s_pos(p) + 1 \in 1 .. qset /\ s_pos(p) < Len(x)
             /\ x[s_pos(p) + 1] \in Blocks(quantum)
  <2>1. Len(x) = qset
    BY <1>2, <1>4, NonEmpty
  <2>2. s_pos(p) + 1 \in 1 .. Len(x)
    BY <1>3, <2>1
  <2>3. x[s_pos(p) + 1] \in Blocks(quantum)
    BY <1>2, <2>2, ElementOfSeq
  <2>4. QED
    BY <1>3, <2>1, <2>2, <2>3
<1>5. ~GoesWild(p, list)
  <2>1. x # <<>> => ~(s_pos(p) >= Len(x))
    BY <1>3, <1>4
  <2>2. QED
    BY <1>3, <2>1 DEF GoesWild, x
<1>6. QED
  BY <1>2, <1>4, <1>5 DEF x

(* A list that scull_follow has extended keeps its shape.                  *)
LEMMA Grow ==
    ASSUME FixedInv, NEW n \in Nat
    PROVE  /\ Followed(n) \in Seq(Arrays(quantum, qset)) /\ n + 1 \in 1 .. Len(Followed(n))
           /\ Shortened(n) \subseteq Seq(Arrays(quantum, qset))
<1> DEFINE A == Arrays(quantum, qset)
<1>1. quantum \in Nat /\ qset \in Nat /\ data \in Seq(A) /\ Len(data) \in Nat
  BY StoreAssumption, LenProperties DEF FixedInv, Settled, Shaped
<1>2. <<>> \in A
  BY <1>1, EmptyOnes
<1> HIDE DEF A
<1>3. ASSUME NEW k \in Nat
      PROVE  /\ data \o [i \in 1 .. k |-> <<>>] \in Seq(A)
             /\ Len(data \o [i \in 1 .. k |-> <<>>]) = Len(data) + k
  <2>1. [i \in 1 .. k |-> <<>>] \in Seq(A) /\ Len([i \in 1 .. k |-> <<>>]) = k
    BY <1>2, FreshSeq
  <2>2. QED
    BY <1>1, <2>1, ConcatProperties
<1>4. Followed(n) \in Seq(A) /\ n + 1 \in 1 .. Len(Followed(n))
  <2>1. CASE n < Len(data)
    BY <1>1, <2>1 DEF Followed
  <2>2. CASE n >= Len(data)
    <3>1. Followed(n) = data \o [i \in 1 .. n + 1 - Len(data) |-> <<>>] /\ n + 1 - Len(data) \in Nat
      BY <1>1, <2>2 DEF Followed
    <3>2. Followed(n) \in Seq(A) /\ Len(Followed(n)) = Len(data) + (n + 1 - Len(data))
      BY <1>3, <3>1
    <3>3. QED
      BY <1>1, <3>2
  <2>3. QED
    BY <1>1, <2>1, <2>2
<1>5. Shortened(n) \subseteq Seq(A)
  <2>1. \A k \in 0 .. n - Len(data) : k \in Nat
    BY <1>1
  <2>2. QED
    BY <1>3, <2>1 DEF Shortened
<1>6. QED
  BY <1>4, <1>5 DEF A

(* The item and the quantum that a write allocates have the right shape.   *)
LEMMA Fill ==
    ASSUME FixedInv, NEW p \in Proc, NEW list \in Seq(Arrays(quantum, qset)), item(p) + 1 \in 1 .. Len(list)
    PROVE  LET w == WithItem(p, list)
               v == WithQuantum(p, w)
           IN  /\ w \in Seq(Arrays(quantum, qset))
               /\ v \in Seq(Arrays(quantum, qset)) /\ item(p) + 1 \in 1 .. Len(v)
               /\ v[item(p) + 1] # <<>> /\ v[item(p) + 1][s_pos(p) + 1] # <<>>
<1> DEFINE A == Arrays(quantum, qset)  w == WithItem(p, list)  v == WithQuantum(p, w)
           n == item(p) + 1  j == s_pos(p) + 1
<1>1. /\ quantum \in Nat \ {0} /\ qset \in Nat \ {0} /\ my_quantum[p] = quantum /\ my_qset[p] = qset
      /\ j \in 1 .. qset
  BY Place
<1>2. FreshItem(p) \in A /\ FreshItem(p) # <<>>
  <2>1. FreshItem(p) = [i \in 1 .. qset |-> <<>>] /\ <<>> \in Blocks(quantum)
    BY <1>1, EmptyOnes DEF FreshItem
  <2>2. FreshItem(p) \in Seq(Blocks(quantum)) /\ Len(FreshItem(p)) = qset
    BY <1>1, <2>1, FreshSeq
  <2>3. QED
    BY <1>1, <2>2, NonEmpty DEF Arrays
<1>3. FreshQuantum(p) \in Blocks(quantum) /\ FreshQuantum(p) # <<>>
  <2>1. FreshQuantum(p) = [i \in 1 .. quantum |-> Junk] /\ Junk \in Bytes
    BY <1>1 DEF FreshQuantum, Bytes
  <2>2. FreshQuantum(p) \in Seq(Bytes) /\ Len(FreshQuantum(p)) = quantum
    BY <1>1, <2>1, FreshSeq
  <2>3. QED
    BY <1>1, <2>2, NonEmpty DEF Blocks
<1>4. w \in Seq(A) /\ Len(w) = Len(list) /\ w[n] # <<>> /\ n \in 1 .. Len(w)
  <2>1. CASE list[n] = <<>>
    <3>1. w = [list EXCEPT ![n] = FreshItem(p)]
      BY <2>1 DEF WithItem
    <3>2. QED
      BY <1>2, <3>1, ExceptSeq
  <2>2. CASE list[n] # <<>>
    BY <2>2 DEF WithItem
  <2>3. QED
    BY <2>1, <2>2
<1>5. /\ w[n] \in Seq(Blocks(quantum)) /\ Len(w[n]) = qset /\ j \in 1 .. Len(w[n])
  BY <1>1, <1>4, Reach
<1>6. v \in Seq(A) /\ Len(v) = Len(w) /\ v[n] # <<>> /\ v[n][j] # <<>>
  <2>1. CASE w[n][j] = <<>>
    <3> DEFINE y == [w[n] EXCEPT ![j] = FreshQuantum(p)]
    <3>1. v = [w EXCEPT ![n] = y]
      BY <2>1 DEF WithQuantum
    <3>2. y \in Seq(Blocks(quantum)) /\ Len(y) = qset /\ y[j] = FreshQuantum(p)
      BY <1>3, <1>5, ExceptSeq
    <3>3. y \in A /\ y # <<>>
      BY <1>1, <3>2, NonEmpty DEF Arrays
    <3> HIDE DEF y
    <3>4. v \in Seq(A) /\ Len(v) = Len(w) /\ v[n] = y
      BY <1>4, <3>1, <3>3, ExceptSeq
    <3>5. QED
      BY <1>3, <3>2, <3>3, <3>4
  <2>2. CASE w[n][j] # <<>>
    <3>1. v = w
      BY <2>2 DEF WithQuantum
    <3>2. QED
      BY <1>4, <2>2, <3>1
  <2>3. QED
    BY <2>1, <2>2
<1>7. QED
  BY <1>4, <1>6

(* A copy stays inside its quantum, and keeps the shape of the list.       *)
LEMMA CopyInside ==
    ASSUME FixedInv, NEW p \in Proc, pc[p] \in {"r_copy", "w_copy"}
    PROVE  /\ ~Astray(p)
           /\ Quantum(p) \in Seq(Bytes) /\ Len(Quantum(p)) = quantum
           /\ Transfer(p) \in Nat /\ Transfer(p) <= count[p]
           /\ q_pos(p) \in Nat /\ q_pos(p) + Transfer(p) <= quantum
<1>1. /\ data \in Seq(Arrays(quantum, qset)) /\ item(p) + 1 \in 1 .. Len(data)
      /\ data[item(p) + 1] # <<>> /\ Quantum(p) # <<>> /\ dangling = {} /\ count[p] \in Nat
  BY DEF FixedInv, BareInv, Shaped, Sound, Mapped, Quantum
<1>2. Quantum(p) \in Blocks(quantum)
  BY <1>1, Reach DEF Quantum
<1>3. Quantum(p) \in Seq(Bytes) /\ Len(Quantum(p)) = quantum
  BY <1>1, <1>2, NonEmpty DEF Blocks
<1>4. q_pos(p) \in 0 .. quantum - 1 /\ my_quantum[p] = quantum /\ quantum \in Nat \ {0}
  BY Place
<1>5. /\ Transfer(p) \in Nat /\ Transfer(p) <= count[p]
      /\ q_pos(p) \in Nat /\ q_pos(p) + Transfer(p) <= quantum
  BY <1>1, <1>4 DEF Transfer, Least
<1>6. ~Astray(p)
  BY <1>1, <1>3, <1>4, <1>5 DEF Astray
<1>7. QED
  BY <1>3, <1>5, <1>6

LEMMA StoreInside ==
    ASSUME FixedInv, NEW p \in Proc, pc[p] = "w_copy", NEW k \in 0 .. Transfer(p)
    PROVE  Stored(p, k) \in Seq(Arrays(quantum, qset))
<1> DEFINE n == item(p) + 1  j == s_pos(p) + 1  x == data[n]
           z == [i \in DOMAIN x[j] |-> IF i \in q_pos(p) + 1 .. q_pos(p) + k THEN buf[p][i - q_pos(p)] ELSE x[j][i]]
<1>1. /\ data \in Seq(Arrays(quantum, qset)) /\ n \in 1 .. Len(data) /\ x # <<>>
      /\ count[p] = Len(buf[p]) /\ buf[p] \in Seq(Bytes)
  BY DEF FixedInv, Shaped, Sound, Mapped
<1>2. x \in Seq(Blocks(quantum)) /\ Len(x) = qset /\ j \in 1 .. Len(x)
  BY <1>1, Reach
<1>3. /\ x[j] \in Seq(Bytes) /\ Len(x[j]) = quantum /\ q_pos(p) \in Nat /\ quantum \in Nat
      /\ Transfer(p) \in Nat /\ Transfer(p) <= count[p]
  BY CopyInside, Place DEF Quantum
<1>4. Stored(p, k) = [data EXCEPT ![n] = [x EXCEPT ![j] = z]]
  BY <1>1, <1>2 DEF Stored
<1>5. z \in Blocks(quantum)
  <2> DEFINE c == x[j]
  <2>1. c \in [1 .. quantum -> Bytes] /\ DOMAIN c = 1 .. quantum
    BY <1>3, LenProperties
  <2> HIDE DEF c
  <2>2. ASSUME NEW i \in q_pos(p) + 1 .. q_pos(p) + k
        PROVE  buf[p][i - q_pos(p)] \in Bytes
    <3>1. i - q_pos(p) \in 1 .. Len(buf[p])
      BY <1>1, <1>3
    <3>2. QED
      BY <1>1, <3>1, ElementOfSeq
  <2>3. z = [i \in 1 .. quantum |-> IF i \in q_pos(p) + 1 .. q_pos(p) + k THEN buf[p][i - q_pos(p)] ELSE c[i]]
    BY <2>1 DEF c
  <2>4. z \in [1 .. quantum -> Bytes]
    BY <2>1, <2>2, <2>3
  <2> HIDE DEF z
  <2>5. z \in Seq(Bytes) /\ Len(z) = quantum
    <3>1. z \in Seq(Bytes)
      BY <1>3, <2>4, SeqDef
    <3>2. QED
      BY <1>3, <2>4, <3>1, LenProperties
  <2>6. QED
    BY <2>5 DEF Blocks
<1> HIDE DEF z
<1> DEFINE y == [x EXCEPT ![j] = z]
<1>6. y \in Arrays(quantum, qset)
  <2>1. y \in Seq(Blocks(quantum)) /\ Len(y) = qset
    BY <1>2, <1>5, ExceptSeq
  <2>2. QED
    BY <2>1 DEF Arrays
<1> HIDE DEF y
<1>7. [data EXCEPT ![n] = y] \in Seq(Arrays(quantum, qset))
  BY <1>1, <1>6, ExceptSeq
<1>8. QED
  BY <1>4, <1>7 DEF y

-----------------------------------------------------------------------------
(* What a step of one process leaves to the others: who copies has the     *)
(* semaphore, so that nobody else changes the list meanwhile.              *)
LEMMA OthersStaySound ==
    ASSUME FixedInv, NEW p \in Proc,
           \A q \in Proc \ {p} : /\ pc'[q] = pc[q] /\ f_pos'[q] = f_pos[q]
                                 /\ buf'[q] = buf[q] /\ count'[q] = count[q],
           UNCHANGED <<my_quantum, my_qset>>,
           data' = data \/ sem \in {p, NoProc}
    PROVE  \A q \in Proc \ {p} : Sound(q)'
<1> SUFFICES ASSUME NEW q \in Proc \ {p}
             PROVE  Sound(q)'
  OBVIOUS
<1>1. Sound(q) /\ pc'[q] = pc[q] /\ buf'[q] = buf[q] /\ count'[q] = count[q]
  BY DEF FixedInv
<1>2. pc[q] \in {"r_copy", "w_copy"} => data' = data
  BY StoreAssumption DEF FixedInv, BareInv, SemInv, SemaphoreDiscipline
<1>3. data' = data /\ Mapped(q) => Mapped(q)'
  BY DEF Mapped, item, s_pos, rest, itemsize
<1>4. QED
  BY <1>1, <1>2, <1>3 DEF Sound


Kept == Settled /\ Shaped /\ \A p \in Proc : Sound(p)

LEMMA KeepsSettled ==
    ASSUME FixedInv, NEW p \in Proc, UNCHANGED settings,
           quantum' \in {quantum, scull_quantum}, qset' \in {qset, scull_qset},
           my_quantum' \in {my_quantum, [my_quantum EXCEPT ![p] = quantum]},
           my_qset' \in {my_qset, [my_qset EXCEPT ![p] = qset]}
    PROVE  /\ Settled' /\ UNCHANGED <<quantum, qset, my_quantum, my_qset>>
           /\ quantum \in Nat /\ qset \in Nat
<1>1. /\ quantum \in Nat /\ qset \in Nat
      /\ quantum' = quantum /\ qset' = qset /\ scull_quantum' = scull_quantum /\ scull_qset' = scull_qset
  BY StoreAssumption DEF FixedInv, Settled, settings
<1>2. my_quantum' = my_quantum
  <2>1. [my_quantum EXCEPT ![p] = quantum] = my_quantum
    BY DEF FixedInv, Settled
  <2>2. QED
    BY <2>1
<1>3. my_qset' = my_qset
  <2>1. [my_qset EXCEPT ![p] = qset] = my_qset
    BY DEF FixedInv, Settled
  <2>2. QED
    BY <2>1
<1>4. QED
  BY <1>1, <1>2, <1>3 DEF FixedInv, Settled

(* What a step may do to the process itself.                               *)
Becomes(p, l, fl, fp, b, c) ==
    /\ pc' = [pc EXCEPT ![p] = l] /\ f_flags' = [f_flags EXCEPT ![p] = fl] /\ f_pos' = [f_pos EXCEPT ![p] = fp]
    /\ buf' = [buf EXCEPT ![p] = b] /\ count' = [count EXCEPT ![p] = c]

Quietly(p) ==
    \E l \in Location \ {"wild", "r_copy", "w_copy"}, fl \in Flags \cup {""}, fp \in Nat, b \in Seq(Bytes), c \in Nat :
        /\ Becomes(p, l, fl, fp, b, c)
        /\ l \in {"w_load", "w_load2", "w_down"} => c = Len(b)

LEMMA KeepsSound ==
    ASSUME FixedInv, NEW p \in Proc, UNCHANGED settings,
           quantum' \in {quantum, scull_quantum}, qset' \in {qset, scull_qset},
           my_quantum' \in {my_quantum, [my_quantum EXCEPT ![p] = quantum]},
           my_qset' \in {my_qset, [my_qset EXCEPT ![p] = qset]},
           data' = data \/ sem \in {p, NoProc},
           data' \in Seq(Arrays(quantum, qset)), size' \in Nat,
           NEW l \in Location \ {"wild"}, NEW fl \in Flags \cup {""}, NEW fp \in Nat,
           NEW b \in Seq(Bytes), NEW c \in Nat, Becomes(p, l, fl, fp, b, c),
           l \in {"w_load", "w_load2", "w_down", "w_copy"} => c = Len(b),
           l \in {"r_copy", "w_copy"} => Mapped(p)'
    PROVE  Kept'
<1>1. Settled' /\ UNCHANGED <<quantum, qset, my_quantum, my_qset>>
  BY KeepsSettled
<1>2. Shaped'
  BY <1>1 DEF FixedInv, Shaped, Becomes
<1>3. \A q \in Proc \ {p} : /\ pc'[q] = pc[q] /\ f_pos'[q] = f_pos[q]
                            /\ buf'[q] = buf[q] /\ count'[q] = count[q]
  BY DEF FixedInv, BareInv, SemInv, Shaped, Becomes
<1>4. \A q \in Proc \ {p} : Sound(q)'
  BY <1>1, <1>3, OthersStaySound
<1>5. pc'[p] = l /\ buf'[p] = b /\ count'[p] = c
  BY DEF FixedInv, BareInv, SemInv, Shaped, Becomes
<1>6. Sound(p)'
  BY <1>5 DEF Sound
<1>7. QED
  BY <1>1, <1>2, <1>4, <1>6 DEF Kept

LEMMA SeekBecomes ==
    ASSUME FixedInv, NEW p \in Proc, NEW pos \in Int, Seek(p, pos)
    PROVE  Quietly(p)
<1>1. /\ pc[p] \in Location /\ f_flags[p] \in Flags \cup {""} /\ buf[p] \in Seq(Bytes) /\ count[p] \in Nat
      /\ pc = [pc EXCEPT ![p] = pc[p]] /\ f_flags = [f_flags EXCEPT ![p] = f_flags[p]]
      /\ buf = [buf EXCEPT ![p] = buf[p]] /\ count = [count EXCEPT ![p] = count[p]]
  BY DEF FixedInv, BareInv, SemInv, Shaped
<1>2. Becomes(p, pc[p], f_flags[p], pos, buf[p], count[p])
  <2>1. f_pos' = [f_pos EXCEPT ![p] = pos] /\ UNCHANGED <<pc, f_flags, buf, count>>
    BY DEF Seek, call
  <2>2. QED
    BY <1>1, <2>1 DEF Becomes
<1>3. pc[p] = "idle" /\ pos \in Nat
  <2>1. pc[p] = "idle" /\ pos >= 0
    BY DEF Seek
  <2>2. QED
    BY <2>1
<1>4. QED
  BY <1>1, <1>2, <1>3 DEF Quietly

LEMMA CallBecomes ==
    ASSUME FixedInv, NEW p \in Proc,
           \/ \E flags \in Flags : Open(p, flags)
           \/ OpenInterrupted(p) \/ Release(p)
           \/ LoadQuantum(p) \/ LoadQset(p) \/ Interrupted(p) \/ Return(p)
           \/ \E n \in 1 .. MaxCount : Read(p, n)
           \/ \E s \in Messages : Write(p, s)
    PROVE  Quietly(p)
<1> USE DEF GoTo, Becomes
<1>1. /\ pc[p] \in Location /\ f_flags[p] \in Flags \cup {""} /\ f_pos[p] \in Nat
      /\ buf[p] \in Seq(Bytes) /\ count[p] \in Nat
      /\ f_flags = [f_flags EXCEPT ![p] = f_flags[p]] /\ f_pos = [f_pos EXCEPT ![p] = f_pos[p]]
      /\ buf = [buf EXCEPT ![p] = buf[p]] /\ count = [count EXCEPT ![p] = count[p]]
  BY DEF FixedInv, BareInv, SemInv, Shaped
<1>2. ASSUME NEW flags \in Flags, Open(p, flags)
      PROVE  Quietly(p)
  <2>1. PICK l \in {"opening", "idle"} : Becomes(p, l, flags, f_pos[p], buf[p], count[p])
    BY <1>1, <1>2 DEF Open, call
  <2>2. l \in Location \ {"wild", "r_copy", "w_copy"} /\ l \notin {"w_load", "w_load2", "w_down"}
    BY DEF Location
  <2>3. QED
    BY <1>1, <2>1, <2>2 DEF Quietly
<1>3. CASE OpenInterrupted(p)
  <2>1. Becomes(p, "closed", "", f_pos[p], buf[p], count[p])
    BY <1>1, <1>3 DEF OpenInterrupted, call
  <2>2. QED
    BY <1>1, <2>1 DEF Quietly, Location
<1>4. CASE Release(p)
  <2>1. Becomes(p, "closed", "", 0, buf[p], count[p])
    BY <1>1, <1>4 DEF Release, call
  <2>2. QED
    BY <1>1, <2>1 DEF Quietly, Location
<1>5. CASE LoadQuantum(p) \/ LoadQset(p) \/ Interrupted(p)
  <2>1. PICK l \in {"r_load2", "w_load2", "r_down", "w_down", "done"} :
            /\ Becomes(p, l, f_flags[p], f_pos[p], buf[p], count[p])
            /\ l \in {"w_load2", "w_down"} => pc[p] \in {"w_load", "w_load2"}
    BY <1>1, <1>5 DEF LoadQuantum, LoadQset, Interrupted, call
  <2>2. l \in {"w_load", "w_load2", "w_down"} => count[p] = Len(buf[p])
    BY <2>1 DEF FixedInv, Sound
  <2>3. l \in Location \ {"wild", "r_copy", "w_copy"}
    BY DEF Location
  <2>4. QED
    BY <1>1, <2>1, <2>2, <2>3 DEF Quietly
<1>6. CASE Return(p)
  <2>1. Becomes(p, "idle", f_flags[p], f_pos[p], <<>>, 0) /\ <<>> \in Seq(Bytes)
    BY <1>1, <1>6, EmptySeq DEF Return
  <2>2. QED
    BY <1>1, <2>1 DEF Quietly, Location
<1>7. ASSUME NEW n \in 1 .. MaxCount, Read(p, n)
      PROVE  Quietly(p)
  <2>1. Becomes(p, "r_load", f_flags[p], f_pos[p], buf[p], n)
    BY <1>1, <1>7 DEF Read
  <2>2. n \in Nat
    BY StoreAssumption
  <2>3. QED
    BY <1>1, <2>1, <2>2 DEF Quietly, Location
<1>8. ASSUME NEW s \in Messages, Write(p, s)
      PROVE  Quietly(p)
  <2>1. s \in Seq(Bytes) /\ Len(s) \in Nat
    BY StoreAssumption, SeqMonotonic, LenProperties DEF Bytes
  <2>2. Becomes(p, "w_load", f_flags[p], f_pos[p], s, Len(s))
    BY <1>1, <1>8 DEF Write
  <2>3. QED
    BY <1>1, <2>1, <2>2 DEF Quietly, Location
<1>9. QED
  BY <1>2, <1>3, <1>4, <1>5, <1>6, <1>7, <1>8

(* The steps that leave the list alone.                                    *)
Quiet(p) ==
    \/ \E flags \in Flags : Open(p, flags)
    \/ OpenInterrupted(p) \/ Release(p) \/ FileOps(p)
    \/ LoadQuantum(p) \/ LoadQset(p) \/ Interrupted(p) \/ Return(p)

LEMMA QuietBecomes ==
    ASSUME FixedInv, NEW p \in Proc, Quiet(p)
    PROVE  Quietly(p)
<1>1. f_pos[p] \in Int /\ size \in Int /\ MaxPos \in Int
  <2>1. f_pos[p] \in Nat /\ size \in Nat /\ MaxPos \in Nat
    BY StoreAssumption DEF FixedInv, Shaped
  <2>2. QED
    BY <2>1
<1>2. ASSUME NEW pos \in 0 .. MaxPos, Seek(p, pos)
      PROVE  Quietly(p)
  BY <1>2, SeekBecomes
<1>3. ASSUME NEW pos \in {f_pos[p], size}, NEW off \in -1 .. 1, Seek(p, pos + off)
      PROVE  Quietly(p)
  <2>1. pos + off \in Int
    BY <1>1
  <2>2. QED
    BY <1>3, <2>1, SeekBecomes
<1>4. QED
  BY <1>2, <1>3, CallBecomes DEF FileOps, Quiet

LEMMA QuietStep ==
    ASSUME FixedInv, NEW p \in Proc, Quiet(p)
    PROVE  Kept'
<1>1. UNCHANGED <<settings, device>>
  BY DEF Quiet, Open, OpenInterrupted, Release, FileOps, Read, Write, Seek, LoadQuantum, LoadQset, Interrupted, Return
<1>2. /\ my_quantum' \in {my_quantum, [my_quantum EXCEPT ![p] = quantum]}
      /\ my_qset' \in {my_qset, [my_qset EXCEPT ![p] = qset]}
  BY DEF Quiet, Open, OpenInterrupted, Release, FileOps, Read, Write, Seek, LoadQuantum, LoadQset, Interrupted, Return, call
<1>3. Quietly(p)
  BY QuietBecomes
<1>4. PICK l \in Location \ {"wild", "r_copy", "w_copy"}, fl \in Flags \cup {""}, fp \in Nat, b \in Seq(Bytes), c \in Nat :
          /\ Becomes(p, l, fl, fp, b, c)
          /\ l \in {"w_load", "w_load2", "w_down"} => c = Len(b)
  BY <1>3 DEF Quietly
<1>5. data' \in Seq(Arrays(quantum, qset)) /\ size' \in Nat /\ quantum' = quantum /\ qset' = qset /\ data' = data
  BY <1>1 DEF FixedInv, Shaped, device
<1>6. QED
  BY <1>1, <1>2, <1>4, <1>5, KeepsSound DEF settings

(* A call that finds its quantum has it from then on.                      *)
LEMMA FindKeeps ==
    ASSUME FixedInv, NEW p \in Proc, ReadFind(p) \/ WriteFind(p)
    PROVE  Kept'
<1> USE DEF GoTo
<1>1. /\ sem = NoProc /\ UNCHANGED <<settings, quantum, qset, size, f_flags, f_pos, my_quantum, my_qset, buf>>
      /\ item(p) \in Nat /\ itemsize(p) # 0 /\ size \in Nat
  BY Place DEF ReadFind, WriteFind, call, FixedInv, Shaped
<1>2. /\ f_flags[p] \in Flags \cup {""} /\ f_pos[p] \in Nat /\ buf[p] \in Seq(Bytes) /\ count[p] \in Nat
      /\ f_flags = [f_flags EXCEPT ![p] = f_flags[p]] /\ f_pos = [f_pos EXCEPT ![p] = f_pos[p]]
      /\ buf = [buf EXCEPT ![p] = buf[p]] /\ count = [count EXCEPT ![p] = count[p]]
      /\ data \in Seq(Arrays(quantum, qset))
  BY DEF FixedInv, Shaped
<1>3. /\ Followed(item(p)) \in Seq(Arrays(quantum, qset)) /\ item(p) + 1 \in 1 .. Len(Followed(item(p)))
      /\ Shortened(item(p)) \subseteq Seq(Arrays(quantum, qset))
      /\ ~GoesWild(p, Followed(item(p)))
  BY <1>1, Grow, Reach
<1>4. UNCHANGED <<item(p), s_pos(p)>>
  BY <1>1 DEF item, s_pos, rest, itemsize
<1>5. PICK l \in {"done", "r_copy", "w_copy"}, c \in Nat :
          /\ pc' = [pc EXCEPT ![p] = l] /\ count' = [count EXCEPT ![p] = c]
          /\ data' \in Seq(Arrays(quantum, qset))
          /\ l = "w_copy" => c = Len(buf[p])
          /\ l \in {"r_copy", "w_copy"} => Mapped(p)'
  <2>1. CASE ReadFind(p)
    <3>1. CASE /\ pc' = [pc EXCEPT ![p] = "done"] /\ count' = count
               /\ data' \in {data} \cup Shortened(item(p))
      BY <1>2, <1>3, <3>1
    <3>2. CASE /\ f_pos[p] < size /\ data' = Followed(item(p))
               /\ count' = [count EXCEPT ![p] = Least(count[p], size - f_pos[p])]
               /\ \/ pc' = [pc EXCEPT ![p] = "done"]
                  \/ /\ pc' = [pc EXCEPT ![p] = "r_copy"]
                     /\ data'[item(p) + 1] # <<>> /\ data'[item(p) + 1][s_pos(p) + 1] # <<>>
      <4>1. Least(count[p], size - f_pos[p]) \in Nat
        <5>1. f_pos[p] \in Nat /\ count[p] \in Nat /\ size \in Nat /\ f_pos[p] < size
          BY <1>1, <1>2, <3>2
        <5>2. size - f_pos[p] \in Nat
          BY <5>1
        <5>3. QED
          BY <5>1, <5>2 DEF Least
      <4>2. CASE pc' = [pc EXCEPT ![p] = "done"]
        BY <1>3, <3>2, <4>1, <4>2
      <4>3. CASE data'[item(p) + 1] # <<>> /\ data'[item(p) + 1][s_pos(p) + 1] # <<>>
        <5>1. Mapped(p)'
          BY <1>3, <1>4, <3>2, <4>3 DEF Mapped
        <5>2. QED
          BY <1>3, <3>2, <4>1, <5>1
      <4>4. QED
        BY <3>2, <4>2, <4>3
    <3>3. QED
      BY <1>1, <1>3, <2>1, <3>1, <3>2 DEF ReadFind
  <2>2. CASE WriteFind(p)
    <3> DEFINE w == WithItem(p, Followed(item(p)))
               v == WithQuantum(p, w)
    <3>1. /\ w \in Seq(Arrays(quantum, qset))
          /\ v \in Seq(Arrays(quantum, qset)) /\ item(p) + 1 \in 1 .. Len(v)
          /\ v[item(p) + 1] # <<>> /\ v[item(p) + 1][s_pos(p) + 1] # <<>>
      BY <1>3, Fill
    <3> HIDE DEF w, v
    <3>2. count' = count /\ count[p] = Len(buf[p])
      BY <2>2 DEF WriteFind, call, FixedInv, Sound
    <3>3. CASE /\ pc' = [pc EXCEPT ![p] = "done"]
               /\ data' \in {Followed(item(p)), w} \cup Shortened(item(p))
      BY <1>2, <1>3, <3>1, <3>2, <3>3
    <3>4. CASE pc' = [pc EXCEPT ![p] = "w_copy"] /\ data' = v
      <4>1. Mapped(p)'
        BY <1>4, <3>1, <3>4 DEF Mapped
      <4>2. QED
        BY <1>2, <3>1, <3>2, <3>4, <4>1
    <3>5. QED
      BY <1>1, <1>3, <2>2, <3>3, <3>4 DEF WriteFind, w, v
  <2>3. QED
    BY <2>1, <2>2
<1>6. l \in Location \ {"wild"} /\ Becomes(p, l, f_flags[p], f_pos[p], buf[p], c)
  BY <1>1, <1>2, <1>5 DEF Becomes, Location
<1>7. QED
  BY <1>1, <1>2, <1>5, <1>6, KeepsSound

LEMMA CopyKeeps ==
    ASSUME FixedInv, NEW p \in Proc, ReadCopy(p) \/ WriteCopy(p) \/ CopyFault(p)
    PROVE  Kept'
<1> USE DEF GoTo
<1>1. /\ UNCHANGED <<settings, quantum, qset, f_flags, my_quantum, my_qset>>
      /\ pc[p] \in {"r_copy", "w_copy"} /\ sem = p /\ pc' = [pc EXCEPT ![p] = "done"]
  <2>1. pc[p] \in {"r_copy", "w_copy"}
    BY DEF ReadCopy, WriteCopy, CopyFault
  <2>2. ~Astray(p) /\ sem = p
    BY <2>1, CopyInside DEF FixedInv, BareInv, SemInv, SemaphoreDiscipline
  <2>3. QED
    BY <2>1, <2>2 DEF ReadCopy, WriteCopy, CopyFault, device, call
<1>2. /\ f_flags[p] \in Flags \cup {""} /\ f_pos[p] \in Nat /\ buf[p] \in Seq(Bytes) /\ count[p] \in Nat
      /\ f_flags = [f_flags EXCEPT ![p] = f_flags[p]] /\ f_pos = [f_pos EXCEPT ![p] = f_pos[p]]
      /\ buf = [buf EXCEPT ![p] = buf[p]] /\ count = [count EXCEPT ![p] = count[p]]
      /\ data \in Seq(Arrays(quantum, qset)) /\ size \in Nat
  BY DEF FixedInv, Shaped
<1>3. /\ ~Astray(p) /\ Quantum(p) \in Seq(Bytes) /\ Len(Quantum(p)) = quantum /\ quantum \in Nat
      /\ Transfer(p) \in Nat /\ q_pos(p) \in Nat /\ q_pos(p) + Transfer(p) <= quantum
  BY <1>1, CopyInside, Place
<1>4. PICK fp \in Nat, b \in Seq(Bytes), c \in Nat :
          /\ f_pos' = [f_pos EXCEPT ![p] = fp] /\ buf' = [buf EXCEPT ![p] = b] /\ count' = [count EXCEPT ![p] = c]
          /\ data' \in Seq(Arrays(quantum, qset)) /\ size' \in Nat
  <2>1. CASE ReadCopy(p)
    <3> DEFINE b == SubSeq(Quantum(p), q_pos(p) + 1, q_pos(p) + Transfer(p))
    <3>1. b \in Seq(Bytes)
      <4>1. \A i \in q_pos(p) + 1 .. q_pos(p) + Transfer(p) : Quantum(p)[i] \in Bytes
        BY <1>3, ElementOfSeq
      <4>2. q_pos(p) + 1 \in Int /\ q_pos(p) + Transfer(p) \in Int
        BY <1>3
      <4>3. QED
        BY <4>1, <4>2, SubSeqProperties
    <3>2. /\ buf' = [buf EXCEPT ![p] = b] /\ f_pos' = [f_pos EXCEPT ![p] = f_pos[p] + Transfer(p)]
          /\ count' = [count EXCEPT ![p] = Transfer(p)] /\ data' = data /\ size' = size
      BY <1>3, <2>1 DEF ReadCopy, device
    <3> HIDE DEF b
    <3>3. f_pos[p] + Transfer(p) \in Nat
      <4>1. f_pos[p] \in Nat /\ Transfer(p) \in Nat
        BY <1>2, <1>3
      <4>2. QED
        BY <4>1
    <3>4. QED
      BY <1>2, <1>3, <3>1, <3>2, <3>3
  <2>2. CASE WriteCopy(p)
    <3>1. /\ f_pos' = [f_pos EXCEPT ![p] = f_pos[p] + Transfer(p)] /\ buf' = buf
          /\ count' = [count EXCEPT ![p] = Transfer(p)] /\ data' = Stored(p, Transfer(p))
          /\ size' \in {size, f_pos[p] + Transfer(p)} /\ pc[p] = "w_copy"
      BY <1>3, <2>2 DEF WriteCopy
    <3>2. f_pos[p] + Transfer(p) \in Nat /\ Transfer(p) \in 0 .. Transfer(p)
      <4>1. f_pos[p] \in Nat /\ Transfer(p) \in Nat
        BY <1>2, <1>3
      <4>2. QED
        BY <4>1
    <3>3. data' \in Seq(Arrays(quantum, qset))
      BY <3>1, <3>2, StoreInside
    <3>4. QED
      BY <1>2, <1>3, <3>1, <3>2, <3>3
  <2>3. CASE CopyFault(p)
    <3>1. UNCHANGED <<f_pos, buf, count, size>>
      BY <2>3 DEF CopyFault, call
    <3>2. data' \in Seq(Arrays(quantum, qset))
      <4>1. CASE data' = data
        BY <1>2, <4>1
      <4>2. CASE pc[p] = "w_copy" /\ \E k \in 0 .. Transfer(p) - 1 : data' = Stored(p, k)
        <5>1. PICK k \in 0 .. Transfer(p) - 1 : data' = Stored(p, k)
          BY <4>2
        <5>2. k \in 0 .. Transfer(p)
          BY <1>3
        <5>3. QED
          BY <4>2, <5>1, <5>2, StoreInside
      <4>3. QED
        BY <2>3, <4>1, <4>2 DEF CopyFault
    <3>3. QED
      BY <1>2, <3>1, <3>2
  <2>4. QED
    BY <2>1, <2>2, <2>3
<1>5. "done" \in Location \ {"wild"} /\ Becomes(p, "done", f_flags[p], fp, b, c)
  BY <1>1, <1>2, <1>4 DEF Becomes, Location
<1>6. QED
  BY <1>1, <1>2, <1>4, <1>5, KeepsSound

LEMMA TrimKeeps ==
    ASSUME FixedInv, NEW p \in Proc, OpenTrim(p)
    PROVE  Kept'
<1>1. /\ sem = NoProc /\ UNCHANGED <<settings, f_flags, f_pos, my_quantum, my_qset, buf, count>>
      /\ pc' = [pc EXCEPT ![p] = "idle"] /\ size' = 0 /\ data' = <<>>
      /\ quantum' = scull_quantum /\ qset' = scull_qset
  BY DEF OpenTrim, Trim, GoTo, call
<1>2. /\ f_flags[p] \in Flags \cup {""} /\ f_pos[p] \in Nat /\ buf[p] \in Seq(Bytes) /\ count[p] \in Nat
      /\ f_flags = [f_flags EXCEPT ![p] = f_flags[p]] /\ f_pos = [f_pos EXCEPT ![p] = f_pos[p]]
      /\ buf = [buf EXCEPT ![p] = buf[p]] /\ count = [count EXCEPT ![p] = count[p]]
  BY DEF FixedInv, Shaped
<1>3. data' \in Seq(Arrays(quantum, qset)) /\ size' \in Nat
  BY <1>1, EmptySeq
<1>4. "idle" \in Location \ {"wild"} /\ Becomes(p, "idle", f_flags[p], f_pos[p], buf[p], count[p])
  BY <1>1, <1>2 DEF Becomes, Location
<1>5. QED
  BY <1>1, <1>2, <1>3, <1>4, KeepsSound

LEMMA FixedStep ==
    ASSUME FixedInv, [FixedNext]_vars
    PROVE  FixedInv'
<1>1. BareInv'
  BY BareStep DEF FixedInv, FixedNext, Next
<1>2. CASE UNCHANGED vars
  <2>1. Settled' /\ Shaped'
    BY <1>2 DEF FixedInv, Settled, Shaped, vars, settings, device, call
  <2>2. \A p \in Proc : Sound(p)'
    BY <1>2 DEF FixedInv, Sound, Mapped, item, s_pos, rest, itemsize, vars, settings, device, call
  <2>3. QED
    BY <1>1, <2>1, <2>2 DEF FixedInv
<1>3. ASSUME NEW p \in Proc,
             \/ \E flags \in Flags : Open(p, flags)
             \/ OpenTrim(p) \/ OpenInterrupted(p) \/ FileOps(p) \/ Steps(p) \/ Release(p)
      PROVE  FixedInv'
  <2>1. Kept'
    BY <1>3, QuietStep, FindKeeps, CopyKeeps, TrimKeeps DEF Steps, Quiet
  <2>2. QED
    BY <1>1, <2>1 DEF Kept, FixedInv
<1>4. QED
  BY <1>2, <1>3 DEF FixedNext

LEMMA FixedInvHolds == FixedSpec => []FixedInv
<1>1. Init => FixedInv
  <2> SUFFICES ASSUME Init PROVE FixedInv
    OBVIOUS
  <2>1. BareInv
    <3>1. sem = NoProc /\ dangling = {} /\ pc = [p \in Proc |-> "closed"]
      BY DEF Init
    <3>2. QED
      BY <3>1, StoreAssumption DEF BareInv, SemInv, SemaphoreDiscipline, Location
  <2>2. Settled
    BY DEF Init, Settled
  <2>3. Shaped
    <3>1. <<>> \in Seq(Bytes) /\ <<>> \in Seq(Arrays(quantum, qset))
      BY EmptySeq
    <3>2. data \in Seq(Arrays(quantum, qset)) /\ buf \in [Proc -> Seq(Bytes)]
      BY <3>1 DEF Init
    <3>3. size \in Nat /\ f_pos \in [Proc -> Nat] /\ count \in [Proc -> Nat]
      BY DEF Init
    <3>4. f_flags \in [Proc -> Flags \cup {""}]
      BY DEF Init
    <3>5. QED
      BY <3>2, <3>3, <3>4 DEF Shaped
  <2>4. \A p \in Proc : Sound(p)
    BY DEF Init, Sound
  <2>5. QED
    BY <2>1, <2>2, <2>3, <2>4 DEF FixedInv
<1>2. QED
  BY <1>1, FixedStep, PTL DEF FixedSpec

(* While nobody changes the settings no call indexes outside an array,     *)
(* copies outside a quantum or through a freed one, for any settings,      *)
(* sizes and number of processes.                                          *)
THEOREM CallsStayInside == FixedSpec => []NeverWild
<1>1. FixedInv => NeverWild
  BY DEF FixedInv, Sound, NeverWild
<1>2. QED
  BY <1>1, FixedInvHolds, PTL

(* The list keeps the layout that a trim frees by, also when a call runs   *)
(* out of memory halfway or copies to a bad address.                       *)
THEOREM MemoryIsSound == FixedSpec => []StoreIsSound
<1>1. FixedInv => StoreIsSound
  <2> SUFFICES ASSUME FixedInv PROVE StoreIsSound
    OBVIOUS
  <2>1. quantum \in Nat /\ qset \in Nat
    BY StoreAssumption DEF FixedInv, Settled
  <2>2. data \in Seq(Seq(Seq(Bytes))) /\ Layout
    BY <2>1, Shapes DEF FixedInv, Shaped, Layout
  <2>3. SemaphoreDiscipline /\ pc \in [Proc -> Location] /\ sem \in Proc \cup {NoProc} /\ dangling \subseteq Proc
    BY DEF FixedInv, BareInv, SemInv
  <2>4. /\ scull_quantum \in Quanta /\ scull_qset \in Qsets /\ quantum \in Quanta /\ qset \in Qsets
        /\ my_quantum \in [Proc -> Quanta] /\ my_qset \in [Proc -> Qsets]
    BY DEF FixedInv, Settled
  <2>5. TypeOK
    BY <2>2, <2>3, <2>4 DEF FixedInv, Shaped, TypeOK, Bytes
  <2>6. QED
    BY <2>2, <2>3, <2>5 DEF StoreIsSound
<1>2. QED
  BY <1>1, FixedInvHolds, PTL

-----------------------------------------------------------------------------
(* How the list flattens to the bytes of a file: a position is an item, a  *)
(* slot of its array and a place in the quantum there, and no two          *)
(* positions are the same ones.                                            *)
Item(x, q, s) == x \div (q * s)
Slot(x, q, s) == (x % (q * s)) \div q
Offset(x, q)  == x % q

LEMMA Divided ==
    ASSUME NEW n \in Nat \ {0}, NEW x \in Nat
    PROVE  /\ x \div n \in Nat /\ x % n \in 0 .. n - 1
           /\ x = n * (x \div n) + (x % n)
<1> DEFINE a == n * (x \div n)  b == x % n
<1>1. x \div n \in Nat /\ b \in 0 .. n - 1
  OBVIOUS
<1>2. a \in Nat /\ x - a = b
  BY <1>1, SMTT(30)
<1> HIDE DEF a, b
<1>3. x = a + b
  BY <1>1, <1>2
<1>4. QED
  BY <1>1, <1>3, Zenon DEF a, b

LEMMA Unique ==
    ASSUME NEW n \in Nat \ {0}, NEW a \in Nat, NEW b \in Nat, NEW r \in 0 .. n - 1, NEW t \in 0 .. n - 1,
           n * a + r = n * b + t
    PROVE  a = b /\ r = t
<1>1. ASSUME NEW c \in Nat, NEW d \in Nat, c < d
      PROVE  n * d >= n * c + n
  <2>1. PICK e \in Nat : d = c + 1 + e
    <3>1. d - c - 1 \in Nat /\ d = c + 1 + (d - c - 1)
      BY <1>1
    <3>2. QED
      BY <3>1
  <2>2. n * d = n * c + n + n * e /\ n * e >= 0 /\ n * c \in Nat /\ n * e \in Nat
    BY <2>1
  <2>3. QED
    BY <2>2
<1>2. n * a \in Nat /\ n * b \in Nat
  OBVIOUS
<1>3. ~(a < b)
  BY <1>1, <1>2
<1>4. ~(b < a)
  BY <1>1, <1>2
<1>5. QED
  BY <1>3, <1>4

LEMMA Parts ==
    ASSUME NEW q \in Nat \ {0}, NEW s \in Nat \ {0}, NEW x \in Nat
    PROVE  /\ Item(x, q, s) \in Nat /\ Slot(x, q, s) \in 0 .. s - 1 /\ x % q \in 0 .. q - 1
           /\ (x % (q * s)) % q = x % q
           /\ x = (q * s) * Item(x, q, s) + (q * Slot(x, q, s) + (x % q))
<1> DEFINE n == q * s  i == Item(x, q, s)  r == x % n  j == Slot(x, q, s)  k == r % q
<1>1. n \in Nat \ {0} /\ i \in Nat /\ j \in 0 .. s - 1 /\ k \in 0 .. q - 1
  BY Geometry DEF Item, Slot
<1>2. x = n * i + r /\ r \in 0 .. n - 1
  <2> HIDE DEF n
  <2>1. x = n * (x \div n) + (x % n) /\ x % n \in 0 .. n - 1
    BY <1>1, Divided
  <2>2. QED
    BY <2>1, Zenon DEF n, r, i, Item
<1>3. r = q * j + k
  <2> HIDE DEF r
  <2>1. r \in Nat
    BY <1>1, <1>2
  <2>2. r = q * (r \div q) + (r % q)
    BY <2>1, Divided
  <2>3. QED
    BY <2>2, Zenon DEF k, j, r, n, Slot
<1>4. x \div q \in Nat /\ x % q \in 0 .. q - 1 /\ x = q * (x \div q) + (x % q)
  BY Divided
<1> DEFINE a == s * i + j  d == x \div q  c == x % q
<1> HIDE DEF i, j, r, k, c, d
<1>5. a \in Nat /\ q * a = n * i + q * j /\ n * i \in Nat /\ q * j \in Nat
  BY <1>1
<1> HIDE DEF n, a
<1>6. x = q * a + k
  BY <1>1, <1>2, <1>3, <1>5
<1>7. q * d + c = q * a + k /\ d \in Nat /\ c \in 0 .. q - 1
  BY <1>4, <1>6 DEF d, c
<1>8. c = k
  BY <1>1, <1>5, <1>7, Unique
<1>9. x = n * i + (q * j + c)
  BY <1>1, <1>2, <1>3, <1>8
<1>10. QED
  BY <1>1, <1>7, <1>8, <1>9, Zenon DEF n, i, j, k, r, c

(* Positions that follow one another in a quantum, ...                     *)
LEMMA SamePlace ==
    ASSUME NEW q \in Nat \ {0}, NEW s \in Nat \ {0}, NEW x \in Nat, NEW t \in Nat, Offset(x, q) + t < q,
           NEW v, v = x + t
    PROVE  /\ Item(v, q, s) = Item(x, q, s) /\ Slot(v, q, s) = Slot(x, q, s)
           /\ Offset(v, q) = Offset(x, q) + t
<1> DEFINE n == q * s  i == Item(x, q, s)  j == Slot(x, q, s)  k == x % q
           u == x + t  a == Item(u, q, s)  b == Slot(u, q, s)  c == u % q
<1>0. k + t < q
  BY DEF Offset
<1>1. /\ n \in Nat \ {0} /\ i \in Nat /\ j \in 0 .. s - 1 /\ k \in 0 .. q - 1
      /\ x = n * i + (q * j + k)
  <2>1. /\ i \in Nat /\ j \in 0 .. s - 1 /\ k \in 0 .. q - 1
        /\ x = n * i + (q * j + k)
    BY Parts, Zenon
  <2>2. n \in Nat \ {0}
    BY Geometry
  <2>3. QED
    BY <2>1, <2>2
<1>2. /\ a \in Nat /\ b \in 0 .. s - 1 /\ c \in 0 .. q - 1
      /\ u = n * a + (q * b + c) /\ u \in Nat
  <2>1. u \in Nat
    OBVIOUS
  <2>2. QED
    BY <2>1, Parts, Zenon
<1>3. ASSUME NEW y \in 0 .. s - 1, NEW z \in 0 .. q - 1
      PROVE  q * y + z \in 0 .. n - 1
  <2>1. PICK e \in Nat : s = y + 1 + e
    <3>1. s - y - 1 \in Nat /\ s = y + 1 + (s - y - 1)
      BY <1>3
    <3>2. QED
      BY <3>1
  <2>2. n = q * y + q + q * e /\ q * y \in Nat /\ q * e \in Nat
    BY <2>1
  <2>3. QED
    BY <2>2
<1>4. k + t \in 0 .. q - 1
  BY <1>0, <1>1
<1> HIDE DEF n, i, j, k, u, a, b, c
<1>5. /\ q * j + (k + t) \in 0 .. n - 1 /\ q * b + c \in 0 .. n - 1
      /\ n * i \in Nat /\ n * a \in Nat /\ q * j \in Nat /\ q * b \in Nat
  <2>1. /\ n \in Nat /\ i \in Nat /\ a \in Nat
        /\ j \in 0 .. s - 1 /\ b \in 0 .. s - 1 /\ c \in 0 .. q - 1
    BY <1>1, <1>2
  <2>2. q * j + (k + t) \in 0 .. n - 1 /\ q * b + c \in 0 .. n - 1
    BY <1>3, <1>4, <2>1, Zenon
  <2>3. j \in Nat /\ b \in Nat
    BY <2>1
  <2>4. n * i \in Nat /\ n * a \in Nat /\ q * j \in Nat /\ q * b \in Nat
    BY <2>1, <2>3
  <2>5. QED
    BY <2>2, <2>4
<1>6. n * i + (q * j + (k + t)) = n * a + (q * b + c)
  BY <1>1, <1>2, <1>5 DEF u
<1>7. i = a /\ q * j + (k + t) = q * b + c
  BY <1>1, <1>2, <1>5, <1>6, Unique
<1>8. j = b /\ k + t = c
  BY <1>1, <1>2, <1>4, <1>7, Unique
<1>9. QED
  BY <1>7, <1>8 DEF i, j, k, u, a, b, c, Offset

(* ... and all that lie in the same one.                                   *)
LEMMA SameQuantum ==
    ASSUME NEW q \in Nat \ {0}, NEW s \in Nat \ {0}, NEW x \in Nat, NEW y \in Nat,
           Item(x, q, s) = Item(y, q, s), Slot(x, q, s) = Slot(y, q, s)
    PROVE  Offset(y, q) - Offset(x, q) = y - x
<1> DEFINE m == (q * s) * Item(x, q, s)  n == q * Slot(x, q, s)
<1> DEFINE a == x % q  b == y % q
<1>1. m \in Nat /\ n \in Nat
  <2>1. Item(x, q, s) \in Nat /\ Slot(x, q, s) \in 0 .. s - 1 /\ q * s \in Nat
    BY Parts, Geometry
  <2>2. QED
    BY <2>1
<1>2. x = m + (n + a) /\ a \in 0 .. q - 1
  BY Parts, Zenon
<1>3. y = m + (n + b) /\ b \in 0 .. q - 1
  <2>1. y = (q * s) * Item(y, q, s) + (q * Slot(y, q, s) + b) /\ b \in 0 .. q - 1
    BY Parts, Zenon
  <2>2. QED
    BY <2>1, Zenon
<1> HIDE DEF m, n, a, b
<1>4. b - a = y - x
  BY <1>1, <1>2, <1>3
<1>5. QED
  BY <1>4 DEF a, b, Offset

(* The quantum at slot j of item i, <<>> when there is none, and the bytes *)
(* from the start of the device on.                                        *)
Block(list, i, j) ==
    IF i >= Len(list) THEN <<>> ELSE IF list[i + 1] = <<>> THEN <<>> ELSE list[i + 1][j + 1]

ByteOf(list, x, q, s) ==
    LET block == Block(list, Item(x, q, s), Slot(x, q, s))
    IN  IF block = <<>> THEN Hole ELSE block[Offset(x, q) + 1]

BytesOf(list, n, q, s) == [pos \in 1 .. n |-> ByteOf(list, pos - 1, q, s)]

LEMMA ContentsNow == Contents = BytesOf(data, size, quantum, qset)
<1>1. ASSUME NEW x
      PROVE  ByteAt(x) = ByteOf(data, x, quantum, qset)
  BY Zenon DEF ByteAt, ByteOf, Block, Item, Slot, Offset
<1>2. QED
  BY <1>1, Zenon DEF Contents, BytesOf

LEMMA ContentsThen == Contents' = BytesOf(data', size', quantum', qset')
<1>1. (Contents = BytesOf(data, size, quantum, qset))'
  BY ContentsNow, PTL
<1>2. QED
  BY <1>1

LEMMA BlockType ==
    ASSUME NEW q \in Nat, NEW s \in Nat, NEW list \in Seq(Arrays(q, s)), NEW i \in Nat, NEW j \in 0 .. s - 1
    PROVE  Block(list, i, j) \in Blocks(q)
<1>1. CASE i >= Len(list)
  BY <1>1, EmptyOnes DEF Block
<1>2. CASE ~(i >= Len(list))
  <2> DEFINE a == list[i + 1]
  <2>1. i + 1 \in 1 .. Len(list)
    BY <1>2, LenProperties
  <2>2. a \in Arrays(q, s)
    BY <2>1, ElementOfSeq
  <2>3. Block(list, i, j) = IF a = <<>> THEN <<>> ELSE a[j + 1]
    BY <1>2 DEF Block
  <2> HIDE DEF a
  <2>4. CASE a = <<>>
    BY <2>3, <2>4, EmptyOnes
  <2>5. CASE a # <<>>
    <3>1. a \in Seq(Blocks(q)) /\ Len(a) \in {0, s}
      BY <2>2 DEF Arrays
    <3>2. j + 1 \in 1 .. Len(a)
      BY <2>5, <3>1, NonEmpty
    <3>3. a[j + 1] \in Blocks(q)
      BY <3>1, <3>2, ElementOfSeq
    <3>4. QED
      BY <2>3, <2>5, <3>3
  <2>6. QED
    BY <2>4, <2>5
<1>3. QED
  BY <1>1, <1>2

LEMMA ByteType ==
    ASSUME NEW q \in Nat \ {0}, NEW s \in Nat \ {0}, NEW list \in Seq(Arrays(q, s)), NEW x \in Nat
    PROVE  /\ ByteOf(list, x, q, s) \in Bytes \cup {Hole}
           /\ Block(list, Item(x, q, s), Slot(x, q, s)) # <<>> => ByteOf(list, x, q, s) \in Bytes
<1> DEFINE block == Block(list, Item(x, q, s), Slot(x, q, s))
<1>1. Item(x, q, s) \in Nat /\ Slot(x, q, s) \in 0 .. s - 1 /\ Offset(x, q) \in 0 .. q - 1
  BY Parts DEF Offset
<1>2. block \in Blocks(q)
  BY <1>1, BlockType
<1>3. ByteOf(list, x, q, s) = IF block = <<>> THEN Hole ELSE block[Offset(x, q) + 1]
  BY DEF ByteOf
<1> HIDE DEF block
<1>4. ASSUME block # <<>>
      PROVE  block[Offset(x, q) + 1] \in Bytes
  <2>1. block \in Seq(Bytes) /\ Len(block) = q
    BY <1>2, <1>4, NonEmpty DEF Blocks
  <2>2. Offset(x, q) + 1 \in 1 .. Len(block)
    BY <1>1, <2>1
  <2>3. QED
    BY <2>1, <2>2, ElementOfSeq
<1>5. QED
  BY <1>3, <1>4 DEF block

LEMMA BytesInSeq ==
    ASSUME NEW q \in Nat \ {0}, NEW s \in Nat \ {0}, NEW list \in Seq(Arrays(q, s)), NEW n \in Nat
    PROVE  /\ BytesOf(list, n, q, s) \in Seq(Bytes \cup {Hole}) /\ Len(BytesOf(list, n, q, s)) = n
           /\ \A i \in 1 .. n : /\ i - 1 \in Nat
                                /\ BytesOf(list, n, q, s)[i] = ByteOf(list, i - 1, q, s)
<1> DEFINE b == BytesOf(list, n, q, s)
<1>1. \A i \in 1 .. n : i - 1 \in Nat
  OBVIOUS
<1>2. \A i \in 1 .. n : ByteOf(list, i - 1, q, s) \in Bytes \cup {Hole}
  BY <1>1, ByteType
<1>3. b \in [1 .. n -> Bytes \cup {Hole}] /\ \A i \in 1 .. n : b[i] = ByteOf(list, i - 1, q, s)
  BY <1>2, Zenon DEF BytesOf
<1> HIDE DEF b
<1>4. b \in Seq(Bytes \cup {Hole})
  BY <1>3, SeqDef
<1>5. Len(b) = n
  BY <1>3, <1>4, LenProperties
<1>6. QED
  BY <1>1, <1>3, <1>4, <1>5 DEF b

-----------------------------------------------------------------------------
(* What a find does to the bytes: a longer list has the same ones, and     *)
(* what a write allocates was a hole.                                      *)
SameBlocks(l, m) ==
    \A i \in Nat, j \in 0 .. qset - 1 : Block(m, i, j) = Block(l, i, j)

MoreBlocks(l, m) ==
    \A i \in Nat, j \in 0 .. qset - 1 : Block(l, i, j) # <<>> => Block(m, i, j) = Block(l, i, j)

LEMMA LongerList ==
    ASSUME NEW S, <<>> \in S, NEW list \in Seq(S), NEW k \in Nat, NEW i \in Nat, NEW j
    PROVE  Block(list \o [x \in 1 .. k |-> <<>>], i, j) = Block(list, i, j)
<1> DEFINE t == [x \in 1 .. k |-> <<>>]  m == list \o t
<1>1. t \in Seq(S) /\ Len(t) = k /\ \A x \in 1 .. k : t[x] = <<>>
  BY FreshSeq
<1> HIDE DEF t
<1>2. /\ Len(list) \in Nat /\ Len(m) = Len(list) + k
      /\ \A x \in 1 .. Len(list) + k : m[x] = IF x <= Len(list) THEN list[x] ELSE t[x - Len(list)]
  BY <1>1, ConcatProperties, LenProperties
<1> HIDE DEF m
<1>3. Block(m, i, j) = Block(list, i, j)
  <2>1. CASE i < Len(list)
    <3>1. m[i + 1] = list[i + 1] /\ ~(i >= Len(list)) /\ ~(i >= Len(m))
      BY <1>2, <2>1
    <3>2. QED
      BY <3>1 DEF Block
  <2>2. CASE i >= Len(list) /\ i < Len(m)
    <3>1. m[i + 1] = t[i + 1 - Len(list)] /\ i + 1 - Len(list) \in 1 .. k
      BY <1>2, <2>2
    <3>2. m[i + 1] = <<>>
      BY <1>1, <3>1
    <3>3. QED
      BY <2>2, <3>2 DEF Block
  <2>3. CASE i >= Len(list) /\ i >= Len(m)
    BY <2>3 DEF Block
  <2>4. QED
    BY <1>2, <2>1, <2>2, <2>3
<1>4. QED
  BY <1>3 DEF m, t

LEMMA FollowedSame ==
    ASSUME FixedInv, NEW n \in Nat
    PROVE  /\ SameBlocks(data, Followed(n))
           /\ \A m \in Shortened(n) : SameBlocks(data, m)
<1> DEFINE A == Arrays(quantum, qset)
<1>1. quantum \in Nat /\ qset \in Nat /\ data \in Seq(A) /\ Len(data) \in Nat
  BY StoreAssumption, LenProperties DEF FixedInv, Settled, Shaped
<1>2. <<>> \in A
  BY <1>1, EmptyOnes
<1> HIDE DEF A
<1>3. ASSUME NEW k \in Nat
      PROVE  SameBlocks(data, data \o [i \in 1 .. k |-> <<>>])
  BY <1>1, <1>2, LongerList DEF SameBlocks
<1>4. SameBlocks(data, data)
  BY DEF SameBlocks
<1>5. SameBlocks(data, Followed(n))
  <2>1. CASE n < Len(data)
    BY <1>4, <2>1 DEF Followed
  <2>2. CASE n >= Len(data)
    <3>1. Followed(n) = data \o [i \in 1 .. n + 1 - Len(data) |-> <<>>] /\ n + 1 - Len(data) \in Nat
      BY <1>1, <2>2 DEF Followed
    <3>2. QED
      BY <1>3, <3>1
  <2>3. QED
    BY <1>1, <2>1, <2>2
<1>6. \A k \in 0 .. n - Len(data) : k \in Nat
  BY <1>1
<1>7. QED
  BY <1>3, <1>5, <1>6 DEF Shortened

LEMMA FilledMore ==
    ASSUME FixedInv, NEW p \in Proc, NEW list \in Seq(Arrays(quantum, qset)), item(p) + 1 \in 1 .. Len(list)
    PROVE  /\ MoreBlocks(list, WithItem(p, list))
           /\ MoreBlocks(list, WithQuantum(p, WithItem(p, list)))
<1> DEFINE w == WithItem(p, list)  v == WithQuantum(p, w)  n == item(p) + 1  j == s_pos(p) + 1
<1>1. /\ w \in Seq(Arrays(quantum, qset)) /\ v \in Seq(Arrays(quantum, qset)) /\ v[n] # <<>>
  BY Fill
<1>2. item(p) \in Nat /\ s_pos(p) \in Nat
  BY Place
<1>3. \A i \in Nat : /\ Len(w) = Len(list)
                     /\ i < Len(list) /\ i # item(p) => w[i + 1] = list[i + 1]
                     /\ list[n] # <<>> => w = list
  <2>1. CASE list[n] = <<>>
    <3>1. w = [list EXCEPT ![n] = FreshItem(p)]
      BY <2>1 DEF WithItem
    <3>2. \A i \in Nat : i < Len(list) /\ i # item(p) => i + 1 \in 1 .. Len(list) /\ i + 1 # n
      BY <1>2, LenProperties
    <3>3. QED
      BY <1>1, <2>1, <3>1, <3>2, LenProperties
  <2>2. CASE list[n] # <<>>
    BY <2>2 DEF WithItem
  <2>3. QED
    BY <2>1, <2>2
<1> HIDE DEF w
<1>4. MoreBlocks(list, w)
  <2> SUFFICES ASSUME NEW i \in Nat, NEW k \in 0 .. qset - 1, Block(list, i, k) # <<>>
               PROVE  Block(w, i, k) = Block(list, i, k)
    BY DEF MoreBlocks
  <2>1. ~(i >= Len(list)) /\ list[i + 1] # <<>>
    BY DEF Block
  <2>2. w[i + 1] = list[i + 1] /\ Len(w) = Len(list)
    BY <1>2, <1>3, <2>1, LenProperties
  <2>3. QED
    BY <2>2 DEF Block
<1>5. MoreBlocks(w, v)
  <2> SUFFICES ASSUME NEW i \in Nat, NEW k \in 0 .. qset - 1, Block(w, i, k) # <<>>
               PROVE  Block(v, i, k) = Block(w, i, k)
    BY DEF MoreBlocks
  <2>1. CASE w[n][j] = <<>>
    <3> DEFINE y == [w[n] EXCEPT ![j] = FreshQuantum(p)]
    <3>1. v = [w EXCEPT ![n] = y] /\ Len(v) = Len(w)
      BY <1>1, <2>1, LenProperties DEF WithQuantum
    <3>2. ~(i >= Len(w)) /\ w[i + 1] # <<>> /\ w[i + 1][k + 1] # <<>>
      BY DEF Block
    <3>3. i + 1 \in DOMAIN w /\ (i + 1 = n <=> i = item(p)) /\ (k + 1 = j <=> k = s_pos(p))
      BY <1>1, <1>2, <3>2, LenProperties
    <3>4. CASE i # item(p)
      <4>1. v[i + 1] = w[i + 1]
        BY <3>1, <3>3, <3>4
      <4>2. QED
        BY <3>1, <4>1 DEF Block
    <3>5. CASE i = item(p)
      <4>1. v[i + 1] = y /\ w[n] # <<>>
        BY <3>1, <3>2, <3>3, <3>5
      <4>2. k # s_pos(p)
        BY <2>1, <3>2, <3>5
      <4>3. w[n] \in Seq(Blocks(quantum)) /\ Len(w[n]) = qset
        BY <1>1, <3>3, <3>5, <4>1, Reach, LenProperties
      <4>4. y[k + 1] = w[n][k + 1] /\ v[i + 1] # <<>>
        BY <1>1, <3>3, <3>5, <4>1, <4>2, <4>3, LenProperties
      <4>5. QED
        BY <3>1, <3>2, <3>5, <4>1, <4>4 DEF Block
    <3>6. QED
      BY <3>4, <3>5
  <2>2. CASE w[n][j] # <<>>
    BY <2>2 DEF WithQuantum
  <2>3. QED
    BY <2>1, <2>2
<1>6. MoreBlocks(list, v)
  BY <1>4, <1>5 DEF MoreBlocks
<1>7. QED
  BY <1>4, <1>6 DEF w

LEMMA FindBytes ==
    ASSUME FixedInv, NEW m, NEW x \in Nat
    PROVE  /\ SameBlocks(data, m) => ByteOf(m, x, quantum, qset) = ByteOf(data, x, quantum, qset)
           /\ MoreBlocks(data, m) => \/ ByteOf(data, x, quantum, qset) = Hole
                                     \/ ByteOf(m, x, quantum, qset) = ByteOf(data, x, quantum, qset)
<1> DEFINE i == Item(x, quantum, qset)  j == Slot(x, quantum, qset)
<1>1. i \in Nat /\ j \in 0 .. qset - 1
  BY Parts, StoreAssumption DEF FixedInv, Settled
<1> HIDE DEF i, j
<1>2. /\ SameBlocks(data, m) => Block(m, i, j) = Block(data, i, j)
      /\ MoreBlocks(data, m) => Block(data, i, j) = <<>> \/ Block(m, i, j) = Block(data, i, j)
  BY <1>1 DEF SameBlocks, MoreBlocks
<1>3. QED
  BY <1>2, Zenon DEF ByteOf, i, j

-----------------------------------------------------------------------------
(* The position of a call, by the settings of the device.                  *)
LEMMA PlaceOf ==
    ASSUME FixedInv, NEW p \in Proc
    PROVE  /\ quantum \in Nat \ {0} /\ qset \in Nat \ {0} /\ f_pos[p] \in Nat
           /\ data \in Seq(Arrays(quantum, qset)) /\ size \in Nat
           /\ item(p) = Item(f_pos[p], quantum, qset) /\ s_pos(p) = Slot(f_pos[p], quantum, qset)
           /\ q_pos(p) = Offset(f_pos[p], quantum)
<1>1. /\ quantum \in Nat \ {0} /\ qset \in Nat \ {0} /\ f_pos[p] \in Nat
      /\ data \in Seq(Arrays(quantum, qset)) /\ size \in Nat
      /\ my_quantum[p] = quantum /\ my_qset[p] = qset
  BY Place DEF FixedInv, Shaped
<1>2. (f_pos[p] % (quantum * qset)) % quantum = f_pos[p] % quantum
  BY <1>1, Parts
<1>3. QED
  BY <1>1, <1>2, Zenon DEF item, s_pos, q_pos, rest, itemsize, Item, Slot, Offset

(* A quantum after a copy of k bytes from the caller's buffer.             *)
Patched(p, k) ==
    [x \in 1 .. quantum |-> IF x \in q_pos(p) + 1 .. q_pos(p) + k THEN buf[p][x - q_pos(p)] ELSE Quantum(p)[x]]

LEMMA CopiedBlock ==
    ASSUME FixedInv, NEW p \in Proc, pc[p] \in {"r_copy", "w_copy"}
    PROVE  /\ Block(data, item(p), s_pos(p)) = Quantum(p) /\ Quantum(p) # <<>>
           /\ item(p) \in Nat /\ s_pos(p) \in 0 .. qset - 1
           /\ item(p) + 1 \in 1 .. Len(data) /\ data[item(p) + 1] # <<>>
<1>1. Mapped(p) /\ item(p) \in Nat /\ s_pos(p) \in 0 .. qset - 1
  BY Place DEF FixedInv, Sound
<1>2. ~(item(p) >= Len(data))
  <2>1. Len(data) \in Nat
    BY LenProperties DEF FixedInv, Shaped
  <2>2. QED
    BY <1>1, <2>1 DEF Mapped
<1>3. QED
  BY <1>1, <1>2 DEF Mapped, Block, Quantum

LEMMA StoredBlock ==
    ASSUME FixedInv, NEW p \in Proc, pc[p] = "w_copy", NEW k \in 0 .. Transfer(p),
           NEW i \in Nat, NEW j \in 0 .. qset - 1
    PROVE  Block(Stored(p, k), i, j) = IF i = item(p) /\ j = s_pos(p) THEN Patched(p, k) ELSE Block(data, i, j)
<1> DEFINE n == item(p) + 1  m == s_pos(p) + 1  a == data[n]  z == Patched(p, k)  t == Stored(p, k)
           y == [a EXCEPT ![m] = z]
<1>1. /\ data \in Seq(Arrays(quantum, qset)) /\ n \in 1 .. Len(data) /\ a # <<>>
      /\ item(p) \in Nat /\ s_pos(p) \in 0 .. qset - 1 /\ qset \in Nat /\ quantum \in Nat
  BY PlaceOf, CopiedBlock
<1>2. a \in Seq(Blocks(quantum)) /\ Len(a) = qset /\ m \in 1 .. Len(a) /\ a[m] = Quantum(p)
  BY <1>1, Reach DEF Quantum
<1>3. DOMAIN Quantum(p) = 1 .. quantum
  BY CopyInside, LenProperties
<1>4. t = [data EXCEPT ![n] = y]
  <2>1. [x \in DOMAIN a[m] |-> IF x \in q_pos(p) + 1 .. q_pos(p) + k THEN buf[p][x - q_pos(p)] ELSE a[m][x]] = z
    BY <1>2, <1>3 DEF Patched
  <2>2. Stored(p, k) = [data EXCEPT ![n] = [a EXCEPT ![m] =
            [x \in DOMAIN a[m] |-> IF x \in q_pos(p) + 1 .. q_pos(p) + k THEN buf[p][x - q_pos(p)] ELSE a[m][x]]]]
    BY <1>1, <1>2 DEF Stored
  <2>3. QED
    BY <2>1, <2>2, Zenon
<1> HIDE DEF z
<1>5. /\ DOMAIN y = 1 .. qset /\ y[m] = z /\ y # <<>>
      /\ \A x \in 1 .. qset : x # m => y[x] = a[x]
  <2>1. DOMAIN a = 1 .. qset
    BY <1>2, LenProperties
  <2>2. y # <<>>
    BY <1>2, <2>1
  <2>3. QED
    BY <1>2, <2>1, <2>2
<1> HIDE DEF y, t
<1>6. Len(t) = Len(data) /\ t[n] = y /\ \A x \in 1 .. Len(data) : x # n => t[x] = data[x]
  BY <1>1, <1>4, LenProperties
<1>7. (i + 1 = n <=> i = item(p)) /\ (j + 1 = m <=> j = s_pos(p)) /\ j + 1 \in 1 .. qset
  BY <1>1
<1>8. CASE i >= Len(data)
  <2>1. Len(data) \in Nat
    BY <1>1, LenProperties
  <2>2. i # item(p) /\ i >= Len(t)
    BY <1>1, <1>6, <1>8, <2>1
  <2>3. QED
    BY <1>8, <2>2 DEF Block, t
<1>9. CASE ~(i >= Len(data)) /\ i # item(p)
  <2>1. i + 1 \in 1 .. Len(data)
    BY <1>1, <1>9, LenProperties
  <2>2. t[i + 1] = data[i + 1]
    BY <1>6, <1>7, <1>9, <2>1
  <2>3. QED
    BY <1>6, <1>9, <2>2 DEF Block, t
<1>10. CASE ~(i >= Len(data)) /\ i = item(p)
  <2>1. Block(t, i, j) = y[j + 1] /\ Block(data, i, j) = a[j + 1]
    BY <1>1, <1>5, <1>6, <1>10 DEF Block
  <2>2. QED
    BY <1>5, <1>7, <1>10, <2>1 DEF z, t
<1>11. QED
  BY <1>8, <1>9, <1>10

LEMMA StoredBytes ==
    ASSUME FixedInv, NEW p \in Proc, pc[p] = "w_copy", NEW k \in 0 .. Transfer(p), NEW x \in Nat
    PROVE  ByteOf(Stored(p, k), x, quantum, qset) =
               IF x \in f_pos[p] .. f_pos[p] + k - 1 THEN buf[p][x - f_pos[p] + 1]
               ELSE ByteOf(data, x, quantum, qset)
<1> DEFINE i == Item(x, quantum, qset)  j == Slot(x, quantum, qset)  c == Offset(x, quantum)
           z == Patched(p, k)  t == Stored(p, k)  f == f_pos[p]
<1>1. /\ quantum \in Nat \ {0} /\ qset \in Nat \ {0} /\ f \in Nat
      /\ item(p) = Item(f, quantum, qset) /\ s_pos(p) = Slot(f, quantum, qset) /\ q_pos(p) = Offset(f, quantum)
  BY PlaceOf
<1>2. i \in Nat /\ j \in 0 .. qset - 1 /\ c \in 0 .. quantum - 1
  BY <1>1, Parts DEF Offset
<1>3. Transfer(p) \in Nat /\ q_pos(p) \in Nat /\ q_pos(p) + Transfer(p) <= quantum /\ k \in Nat /\ k <= Transfer(p)
  BY CopyInside
<1>4. z # <<>> /\ \A y \in 1 .. quantum :
          z[y] = IF y \in q_pos(p) + 1 .. q_pos(p) + k THEN buf[p][y - q_pos(p)] ELSE Quantum(p)[y]
  <2>1. DOMAIN z = 1 .. quantum /\ 1 \in 1 .. quantum
    BY <1>1 DEF Patched
  <2>2. z # <<>>
    <3>1. 1 \notin DOMAIN <<>>
      OBVIOUS
    <3>2. QED
      BY <2>1, <3>1, Zenon
  <2>3. QED
    BY <2>2 DEF Patched
<1>5. Block(t, i, j) = IF i = item(p) /\ j = s_pos(p) THEN z ELSE Block(data, i, j)
  BY <1>2, StoredBlock
<1>6. Block(data, item(p), s_pos(p)) = Quantum(p) /\ Quantum(p) # <<>>
  BY CopiedBlock
<1>7. /\ ByteOf(t, x, quantum, qset) = IF Block(t, i, j) = <<>> THEN Hole ELSE Block(t, i, j)[c + 1]
      /\ ByteOf(data, x, quantum, qset) = IF Block(data, i, j) = <<>> THEN Hole ELSE Block(data, i, j)[c + 1]
  BY Zenon DEF ByteOf
<1>8. ASSUME x \in f .. f + k - 1
      PROVE  i = item(p) /\ j = s_pos(p) /\ c + 1 = q_pos(p) + (x - f + 1)
  <2> DEFINE u == x - f
  <2>1. u \in Nat /\ x = f + u /\ Offset(f, quantum) + u < quantum
    BY <1>1, <1>3, <1>8
  <2> HIDE DEF u
  <2>2. /\ Item(x, quantum, qset) = Item(f, quantum, qset) /\ Slot(x, quantum, qset) = Slot(f, quantum, qset)
        /\ Offset(x, quantum) = Offset(f, quantum) + u
    BY <1>1, <2>1, SamePlace
  <2>3. i = item(p) /\ j = s_pos(p) /\ c = q_pos(p) + u
    BY <1>1, <2>2, Zenon
  <2>4. QED
    BY <1>3, <2>1, <2>3 DEF u
<1>9. ASSUME i = item(p), j = s_pos(p)
      PROVE  c - q_pos(p) = x - f
  <2>1. Item(f, quantum, qset) = Item(x, quantum, qset) /\ Slot(f, quantum, qset) = Slot(x, quantum, qset)
    BY <1>1, <1>9, Zenon
  <2>2. Offset(x, quantum) - Offset(f, quantum) = x - f
    BY <1>1, <2>1, SameQuantum
  <2>3. QED
    BY <1>1, <2>2, Zenon
<1> HIDE DEF i, j, c, z, t, f
<1>10. CASE x \in f .. f + k - 1
  <2>1. /\ i = item(p) /\ j = s_pos(p) /\ c + 1 = q_pos(p) + (x - f + 1)
    BY <1>8, <1>10
  <2>2. c + 1 \in q_pos(p) + 1 .. q_pos(p) + k /\ (c + 1) - q_pos(p) = x - f + 1 /\ c + 1 \in 1 .. quantum
    BY <1>1, <1>2, <1>3, <1>10, <2>1
  <2>3. z[c + 1] = buf[p][x - f + 1]
    <3>1. z[c + 1] = buf[p][(c + 1) - q_pos(p)]
      BY <1>4, <2>2
    <3>2. QED
      BY <2>2, <3>1, Zenon
  <2>4. QED
    BY <1>4, <1>5, <1>7, <1>10, <2>1, <2>3 DEF f, t
<1>11. CASE x \notin f .. f + k - 1 /\ i = item(p) /\ j = s_pos(p)
  <2>1. c - q_pos(p) = x - f
    BY <1>9, <1>11
  <2>2. c + 1 \notin q_pos(p) + 1 .. q_pos(p) + k /\ c + 1 \in 1 .. quantum
    BY <1>1, <1>2, <1>3, <1>11, <2>1
  <2>3. z[c + 1] = Quantum(p)[c + 1]
    BY <1>4, <2>2
  <2>4. QED
    BY <1>4, <1>5, <1>6, <1>7, <1>11, <2>3 DEF f, t
<1>12. CASE x \notin f .. f + k - 1 /\ ~(i = item(p) /\ j = s_pos(p))
  BY <1>5, <1>7, <1>12 DEF f, t
<1>13. QED
  BY <1>10, <1>11, <1>12

-----------------------------------------------------------------------------
(* What a call under way has asked for: something, and a read no more than *)
(* there is.                                                               *)
Asked ==
    \A p \in Proc :
        /\ pc[p] \in {"r_load", "r_load2", "r_down", "r_copy", "w_load", "w_load2", "w_down", "w_copy"} =>
               count[p] >= 1
        /\ pc[p] = "r_copy" => f_pos[p] + count[p] <= size

FileInv == FixedInv /\ Asked

LEMMA StepAsked ==
    ASSUME FixedInv, Asked, [FixedNext]_vars
    PROVE  Asked'
<1> USE DEF GoTo
<1>0. /\ pc \in [Proc -> Location] /\ f_pos \in [Proc -> Nat] /\ count \in [Proc -> Nat] /\ size \in Nat
      /\ SemaphoreDiscipline /\ MaxCount \in Nat
  BY StoreAssumption DEF FixedInv, BareInv, SemInv, Shaped
<1>1. CASE UNCHANGED vars
  BY <1>1 DEF vars, device, call, Asked
<1>2. ASSUME NEW p \in Proc, NEW flags \in Flags, Open(p, flags) PROVE Asked'
  BY <1>0, <1>2 DEF Open, device, call, Asked
<1>3. ASSUME NEW p \in Proc, OpenTrim(p) PROVE Asked'
  BY <1>0, <1>3, StoreAssumption DEF OpenTrim, Trim, call, Asked, SemaphoreDiscipline
<1>4. ASSUME NEW p \in Proc, OpenInterrupted(p) PROVE Asked'
  BY <1>0, <1>4 DEF OpenInterrupted, device, call, Asked
<1>5. ASSUME NEW p \in Proc, NEW n \in 1 .. MaxCount, Read(p, n) PROVE Asked'
  BY <1>0, <1>5 DEF Read, device, Asked
<1>6. ASSUME NEW p \in Proc, NEW s \in Messages, Write(p, s) PROVE Asked'
  <2>1. Len(s) \in Nat /\ Len(s) # 0
    BY StoreAssumption, NonEmpty, LenProperties
  <2>2. QED
    BY <1>0, <1>6, <2>1 DEF Write, device, Asked
<1>7. ASSUME NEW p \in Proc, NEW pos, Seek(p, pos) PROVE Asked'
  BY <1>0, <1>7 DEF Seek, device, call, Asked
<1>8. ASSUME NEW p \in Proc, LoadQuantum(p) PROVE Asked'
  BY <1>0, <1>8 DEF LoadQuantum, device, Asked
<1>9. ASSUME NEW p \in Proc, LoadQset(p) PROVE Asked'
  BY <1>0, <1>9 DEF LoadQset, device, Asked
<1>10. ASSUME NEW p \in Proc, Interrupted(p) \/ Return(p) \/ Release(p) PROVE Asked'
  BY <1>0, <1>10 DEF Interrupted, Return, Release, device, call, Asked
<1>11. ASSUME NEW p \in Proc, ReadFind(p) PROVE Asked'
  <2>1. CASE pc' = [pc EXCEPT ![p] = "r_copy"]
    <3>1. /\ pc[p] = "r_down" /\ f_pos[p] < size /\ UNCHANGED <<size, f_pos>>
          /\ count' = [count EXCEPT ![p] = Least(count[p], size - f_pos[p])]
      BY <1>0, <1>11, <2>1 DEF ReadFind
    <3>2. count[p] >= 1 /\ count[p] \in Nat /\ f_pos[p] \in Nat
      BY <1>0, <3>1 DEF Asked
    <3>3. /\ Least(count[p], size - f_pos[p]) >= 1 /\ f_pos[p] + Least(count[p], size - f_pos[p]) <= size
      BY <1>0, <3>1, <3>2 DEF Least
    <3>4. QED
      BY <1>0, <2>1, <3>1, <3>3 DEF Asked
  <2>2. CASE pc' \in {[pc EXCEPT ![p] = "done"], [pc EXCEPT ![p] = "wild"]}
    BY <1>0, <1>11, <2>2 DEF ReadFind, Asked
  <2>3. QED
    BY <1>11, <2>1, <2>2 DEF ReadFind
<1>12. ASSUME NEW p \in Proc, WriteFind(p) PROVE Asked'
  <2>1. /\ pc[p] = "w_down" /\ UNCHANGED <<size, f_pos, count>>
        /\ \E l \in {"done", "wild", "w_copy"} : pc' = [pc EXCEPT ![p] = l]
    BY <1>12 DEF WriteFind, call
  <2>2. QED
    BY <1>0, <2>1 DEF Asked
<1>13. ASSUME NEW p \in Proc, ReadCopy(p) \/ CopyFault(p) PROVE Asked'
  BY <1>0, <1>13 DEF ReadCopy, CopyFault, RunsWild, device, call, Asked
<1>14. ASSUME NEW p \in Proc, WriteCopy(p) PROVE Asked'
  <2>1. /\ pc[p] = "w_copy" /\ \E l \in {"done", "wild"} : pc' = [pc EXCEPT ![p] = l]
        /\ \A q \in Proc \ {p} : f_pos'[q] = f_pos[q] /\ count'[q] = count[q]
    BY <1>0, <1>14 DEF WriteCopy, RunsWild, call
  <2>2. \A q \in Proc \ {p} : pc[q] # "r_copy" /\ pc'[q] = pc[q]
    BY <1>0, <2>1 DEF SemaphoreDiscipline
  <2>3. QED
    BY <1>0, <2>1, <2>2 DEF Asked
<1>15. QED
  BY <1>1, <1>2, <1>3, <1>4, <1>5, <1>6, <1>7, <1>8, <1>9, <1>10, <1>11, <1>12, <1>13, <1>14
     DEF FixedNext, FileOps, Steps

-----------------------------------------------------------------------------
(* Every step is one of the file's, or none of its concern.                *)
LEMMA BytesBefore ==
    ASSUME FixedInv
    PROVE  /\ Contents \in Seq(Bytes \cup {Hole}) /\ Len(Contents) = size /\ size \in Nat
           /\ \A i \in 1 .. size : i - 1 \in Nat /\ Contents[i] = ByteOf(data, i - 1, quantum, qset)
<1>1. quantum \in Nat \ {0} /\ qset \in Nat \ {0} /\ data \in Seq(Arrays(quantum, qset)) /\ size \in Nat
  BY StoreAssumption DEF FixedInv, Settled, Shaped
<1>2. LET b == BytesOf(data, size, quantum, qset)
      IN  /\ b \in Seq(Bytes \cup {Hole}) /\ Len(b) = size
          /\ \A i \in 1 .. size : i - 1 \in Nat /\ b[i] = ByteOf(data, i - 1, quantum, qset)
  BY <1>1, BytesInSeq, Zenon
<1>3. QED
  BY <1>1, <1>2, ContentsNow, Zenon

LEMMA BytesAfter ==
    ASSUME FixedInv, Kept', UNCHANGED <<quantum, qset>>
    PROVE  /\ Contents' \in Seq(Bytes \cup {Hole}) /\ Len(Contents') = size' /\ size' \in Nat
           /\ \A i \in 1 .. size' : i - 1 \in Nat /\ Contents'[i] = ByteOf(data', i - 1, quantum, qset)
<1>1. quantum \in Nat \ {0} /\ qset \in Nat \ {0} /\ data' \in Seq(Arrays(quantum, qset)) /\ size' \in Nat
  BY StoreAssumption DEF FixedInv, Settled, Kept, Shaped
<1>2. LET b == BytesOf(data', size', quantum, qset)
      IN  /\ b \in Seq(Bytes \cup {Hole}) /\ Len(b) = size'
          /\ \A i \in 1 .. size' : i - 1 \in Nat /\ b[i] = ByteOf(data', i - 1, quantum, qset)
  BY <1>1, BytesInSeq, Zenon
<1>3. QED
  BY <1>1, <1>2, ContentsThen, Zenon

LEMMA QuietMaps ==
    ASSUME FixedInv, NEW p \in Proc, Quiet(p)
    PROVE  File!Caller(p)
<1>1. UNCHANGED device
  BY DEF Quiet, Open, OpenInterrupted, Release, FileOps, Read, Write, Seek, LoadQuantum, LoadQset, Interrupted, Return
<1>2. Contents' = Contents
  BY <1>1, ContentsNow, ContentsThen DEF device
<1>3. PICK l \in Location, fl \in Flags \cup {""}, fp \in Nat, b \in Seq(Bytes), c \in Nat : Becomes(p, l, fl, fp, b, c)
  BY QuietBecomes DEF Quietly
<1>4. f_pos \in [Proc -> Nat] /\ buf \in [Proc -> Seq(Bytes)] /\ count \in [Proc -> Nat]
  BY DEF FixedInv, Shaped
<1>5. QED
  BY <1>2, <1>3, <1>4 DEF File!Caller, Becomes, Bytes

LEMMA TrimMaps ==
    ASSUME FixedInv, NEW p \in Proc, OpenTrim(p)
    PROVE  File!Truncate
<1>1. size' = 0 /\ UNCHANGED <<f_pos, buf, count>>
  BY DEF OpenTrim, Trim, call
<1>2. Contents' = <<>>
  BY <1>1 DEF Contents
<1>3. QED
  BY <1>1, <1>2 DEF File!Truncate

LEMMA ReadFindMaps ==
    ASSUME FixedInv, NEW p \in Proc, ReadFind(p)
    PROVE  File!Caller(p)
<1>1. /\ UNCHANGED <<size, quantum, qset, f_pos, buf>> /\ size \in Nat
      /\ count' = count \/ \E c : count' = [count EXCEPT ![p] = c]
      /\ data' \in {data, Followed(item(p))} \cup Shortened(item(p))
  BY DEF ReadFind, FixedInv, Shaped
<1>2. SameBlocks(data, data')
  <2>1. SameBlocks(data, data) /\ item(p) \in Nat
    BY Place DEF SameBlocks
  <2>2. QED
    BY <1>1, <2>1, FollowedSame
<1>3. Contents' = Contents
  <2>1. \A i \in 1 .. size : i - 1 \in Nat
    BY <1>1
  <2>2. \A i \in 1 .. size : ByteOf(data', i - 1, quantum, qset) = ByteOf(data, i - 1, quantum, qset)
    BY <1>2, <2>1, FindBytes
  <2>3. BytesOf(data', size, quantum, qset) = BytesOf(data, size, quantum, qset)
    BY <2>2 DEF BytesOf
  <2>4. QED
    BY <1>1, <2>3, ContentsNow, ContentsThen
<1>4. f_pos \in [Proc -> Nat] /\ buf \in [Proc -> Seq(Bytes)] /\ count \in [Proc -> Nat]
  BY DEF FixedInv, Shaped
<1>5. QED
  BY <1>1, <1>3, <1>4 DEF File!Caller, Bytes

LEMMA WriteFindMaps ==
    ASSUME FixedInv, NEW p \in Proc, WriteFind(p)
    PROVE  File!FailedWrite(p)
<1> DEFINE g == Followed(item(p))  w == WithItem(p, g)  v == WithQuantum(p, w)
<1>1. /\ UNCHANGED <<size, quantum, qset, f_pos, buf, count>>
      /\ item(p) \in Nat /\ itemsize(p) # 0
  BY Place DEF WriteFind, call
<1>2. Kept'
  BY FindKeeps
<1>3. data' \in {g, w, v} \cup Shortened(item(p))
  <2>1. ~GoesWild(p, g)
    BY <1>1, Grow, Reach
  <2>2. QED
    BY <1>1, <2>1, Zenon DEF WriteFind
<1>4. SameBlocks(data, g) /\ \A m \in Shortened(item(p)) : SameBlocks(data, m)
  BY <1>1, FollowedSame
<1>5. MoreBlocks(g, w) /\ MoreBlocks(g, v)
  BY <1>1, Grow, FilledMore
<1> HIDE DEF g, w, v
<1>6. MoreBlocks(data, data')
  <2>1. \A m : SameBlocks(data, m) => MoreBlocks(data, m)
    BY Zenon DEF SameBlocks, MoreBlocks
  <2>2. \A m : MoreBlocks(g, m) => MoreBlocks(data, m)
    BY <1>4 DEF SameBlocks, MoreBlocks
  <2>3. QED
    BY <1>3, <1>4, <1>5, <2>1, <2>2
<1>7. \A i \in 1 .. size : Contents[i] = Hole \/ Contents'[i] = Contents[i]
  BY <1>1, <1>2, <1>6, BytesBefore, BytesAfter, FindBytes
<1>8. Len(Contents') = Len(Contents) /\ DOMAIN Contents = 1 .. size
  BY <1>1, <1>2, BytesBefore, BytesAfter, LenProperties
<1>9. 0 \in 0 .. Len(buf[p]) /\ f_pos[p] \in Nat
  <2>1. Len(buf[p]) \in Nat
    BY LenProperties DEF FixedInv, Shaped
  <2>2. 0 \in 0 .. Len(buf[p])
    BY <2>1
  <2>3. QED
    BY <2>2, PlaceOf
<1>10. f_pos[p] + 1 .. f_pos[p] + 0 = {}
  BY <1>9
<1>11. QED
  BY <1>1, <1>7, <1>8, <1>9, <1>10 DEF File!FailedWrite, File!Untouched

(* What a copy sees is what the file has there.                            *)
LEMMA CopiedBytes ==
    ASSUME FixedInv, NEW p \in Proc, pc[p] \in {"r_copy", "w_copy"}, NEW t \in Nat, q_pos(p) + t < quantum
    PROVE  ByteOf(data, f_pos[p] + t, quantum, qset) = Quantum(p)[(q_pos(p) + t) + 1]
<1> DEFINE f == f_pos[p]  x == f + t
<1>1. /\ quantum \in Nat \ {0} /\ qset \in Nat \ {0} /\ f \in Nat
      /\ item(p) = Item(f, quantum, qset) /\ s_pos(p) = Slot(f, quantum, qset) /\ q_pos(p) = Offset(f, quantum)
  BY PlaceOf
<1>2. Block(data, item(p), s_pos(p)) = Quantum(p) /\ Quantum(p) # <<>>
  BY CopiedBlock
<1>3. x = f + t
  OBVIOUS
<1> HIDE DEF f, x
<1>4. /\ Item(x, quantum, qset) = item(p) /\ Slot(x, quantum, qset) = s_pos(p)
      /\ Offset(x, quantum) = q_pos(p) + t
  BY <1>1, <1>3, SamePlace
<1>5. ByteOf(data, x, quantum, qset) =
          IF Block(data, item(p), s_pos(p)) = <<>> THEN Hole
          ELSE Block(data, item(p), s_pos(p))[Offset(x, quantum) + 1]
  BY <1>4, Zenon DEF ByteOf
<1>6. QED
  BY <1>2, <1>4, <1>5, Zenon DEF f, x

LEMMA ReadCopyMaps ==
    ASSUME FileInv, NEW p \in Proc, ReadCopy(p)
    PROVE  File!Read(p)
<1> DEFINE n == Transfer(p)  f == f_pos[p]
           seen == SubSeq(Quantum(p), q_pos(p) + 1, q_pos(p) + n)
           taken == SubSeq(Contents, f + 1, f + n)
<1>1. /\ FixedInv /\ pc[p] = "r_copy" /\ count[p] >= 1 /\ f + count[p] <= size
      /\ count[p] \in Nat /\ f \in Nat /\ size \in Nat
  BY DEF FileInv, Asked, ReadCopy, FixedInv, Shaped
<1>2. /\ ~Astray(p) /\ Quantum(p) \in Seq(Bytes) /\ Len(Quantum(p)) = quantum /\ quantum \in Nat
      /\ n \in Nat /\ n <= count[p] /\ q_pos(p) \in Nat /\ q_pos(p) + n <= quantum
  BY <1>1, CopyInside, Place
<1>3. n >= 1
  <2>1. my_quantum[p] = quantum /\ q_pos(p) \in 0 .. quantum - 1 /\ quantum \in Nat
    BY <1>1, Place
  <2>2. QED
    BY <1>1, <2>1 DEF Transfer, Least
<1>4. /\ buf' = [buf EXCEPT ![p] = seen] /\ f_pos' = [f_pos EXCEPT ![p] = f_pos[p] + n]
      /\ count' = [count EXCEPT ![p] = n] /\ UNCHANGED device
  BY <1>2 DEF ReadCopy
<1>5. Contents' = Contents
  BY <1>4, ContentsNow, ContentsThen DEF device
<1>6. /\ Contents \in Seq(Bytes \cup {Hole}) /\ Len(Contents) = size
      /\ \A i \in 1 .. size : i - 1 \in Nat /\ Contents[i] = ByteOf(data, i - 1, quantum, qset)
  BY <1>1, BytesBefore
<1> HIDE DEF n, f
<1>7. n \in 1 .. size - f
  BY <1>1, <1>2, <1>3
<1>8. /\ seen \in Seq(Bytes) /\ Len(seen) = n
      /\ \A i \in 1 .. n : seen[i] = Quantum(p)[q_pos(p) + i]
  <2>1. \A i \in q_pos(p) + 1 .. q_pos(p) + n : Quantum(p)[i] \in Bytes
    BY <1>2, ElementOfSeq
  <2>2. q_pos(p) + 1 \in Int /\ q_pos(p) + n \in Int
    BY <1>2
  <2>3. /\ seen \in Seq(Bytes)
        /\ Len(seen) = IF q_pos(p) + 1 <= q_pos(p) + n THEN (q_pos(p) + n) - (q_pos(p) + 1) + 1 ELSE 0
        /\ \A i \in 1 .. (q_pos(p) + n) - (q_pos(p) + 1) + 1 : seen[i] = Quantum(p)[(q_pos(p) + 1) + i - 1]
    BY <2>1, <2>2, SubSeqProperties
  <2>4. \A i \in 1 .. n : (q_pos(p) + 1) + i - 1 = q_pos(p) + i
    BY <1>2
  <2>5. (q_pos(p) + n) - (q_pos(p) + 1) + 1 = n
    BY <1>2
  <2>6. q_pos(p) + 1 <= q_pos(p) + n
    BY <1>2, <1>3
  <2> HIDE DEF seen
  <2>7. Len(seen) = n /\ \A i \in 1 .. n : seen[i] = Quantum(p)[(q_pos(p) + 1) + i - 1]
    BY <2>3, <2>5, <2>6, Zenon
  <2>8. \A i \in 1 .. n : seen[i] = Quantum(p)[q_pos(p) + i]
    BY <2>4, <2>7, Zenon
  <2>9. QED
    BY <2>3, <2>7, <2>8
<1>9. /\ taken \in Seq(Bytes \cup {Hole}) /\ Len(taken) = n
      /\ \A i \in 1 .. n : taken[i] = Contents[f + i]
  <2>1. \A i \in f + 1 .. f + n : Contents[i] \in Bytes \cup {Hole}
    <3>1. \A i \in f + 1 .. f + n : i \in 1 .. Len(Contents)
      BY <1>1, <1>6, <1>7
    <3>2. QED
      BY <1>6, <3>1, ElementOfSeq
  <2>2. f + 1 \in Int /\ f + n \in Int
    BY <1>1, <1>2
  <2>3. /\ taken \in Seq(Bytes \cup {Hole})
        /\ Len(taken) = IF f + 1 <= f + n THEN (f + n) - (f + 1) + 1 ELSE 0
        /\ \A i \in 1 .. (f + n) - (f + 1) + 1 : taken[i] = Contents[(f + 1) + i - 1]
    BY <2>1, <2>2, SubSeqProperties
  <2>4. \A i \in 1 .. n : (f + 1) + i - 1 = f + i
    BY <1>1, <1>2
  <2>5. (f + n) - (f + 1) + 1 = n
    BY <1>1, <1>2
  <2>6. f + 1 <= f + n
    BY <1>1, <1>2, <1>3
  <2> HIDE DEF taken
  <2>7. Len(taken) = n /\ \A i \in 1 .. n : taken[i] = Contents[(f + 1) + i - 1]
    BY <2>3, <2>5, <2>6, Zenon
  <2>8. \A i \in 1 .. n : taken[i] = Contents[f + i]
    BY <2>4, <2>7, Zenon
  <2>9. QED
    BY <2>3, <2>7, <2>8
<1>10. ASSUME NEW i \in 1 .. n
       PROVE  taken[i] = seen[i]
  <2> DEFINE t == i - 1
  <2>1. t \in Nat /\ q_pos(p) + t < quantum /\ (q_pos(p) + t) + 1 = q_pos(p) + i /\ f + t = (f + i) - 1
        /\ f + i \in 1 .. size
    BY <1>1, <1>2, <1>7
  <2> HIDE DEF t
  <2>2. ByteOf(data, f + t, quantum, qset) = Quantum(p)[(q_pos(p) + t) + 1]
    BY <1>1, <2>1, CopiedBytes DEF f
  <2>3. Contents[f + i] = ByteOf(data, (f + i) - 1, quantum, qset)
    BY <1>6, <2>1
  <2>4. QED
    BY <1>8, <1>9, <2>1, <2>2, <2>3
<1> HIDE DEF seen, taken
<1>11. \A i \in 1 .. n : taken[i] # Hole
  <2>1. \A i \in 1 .. n : seen[i] \in Bytes
    BY <1>8, ElementOfSeq
  <2>2. QED
    BY <1>10, <2>1, StoreAssumption DEF Bytes
<1>12. taken = seen
  BY <1>8, <1>9, <1>10, SeqEqual
<1>13. Contents \in Seq(Bytes \cup {Hole}) /\ n \in 1 .. Len(Contents) - f
  BY <1>6, <1>7
<1>14. QED
  BY <1>2, <1>4, <1>5, <1>11, <1>12, <1>13 DEF File!Read, taken, f, n

(* What the file looks like once k bytes are in it.                        *)
LEMMA StoredContents ==
    ASSUME FixedInv, NEW p \in Proc, pc[p] = "w_copy", NEW k \in 0 .. Transfer(p),
           data' = Stored(p, k), Kept', UNCHANGED <<quantum, qset>>, size' >= size
    PROVE  /\ \A i \in 1 .. size' : i \in f_pos[p] + 1 .. f_pos[p] + k => Contents'[i] = buf[p][i - f_pos[p]]
           /\ \A i \in 1 .. size : i \notin f_pos[p] + 1 .. f_pos[p] + k => Contents'[i] = Contents[i]
<1> DEFINE f == f_pos[p]
<1>1. f \in Nat /\ size \in Nat /\ size' \in Nat /\ k \in Nat
  BY PlaceOf, CopyInside, BytesAfter
<1>2. \A i \in 1 .. size : i - 1 \in Nat /\ Contents[i] = ByteOf(data, i - 1, quantum, qset)
  BY BytesBefore
<1>3. \A i \in 1 .. size' : i - 1 \in Nat /\ Contents'[i] = ByteOf(data', i - 1, quantum, qset)
  BY BytesAfter
<1>4. \A x \in Nat : ByteOf(data', x, quantum, qset) =
          IF x \in f .. f + k - 1 THEN buf[p][x - f + 1] ELSE ByteOf(data, x, quantum, qset)
  BY StoredBytes
<1> HIDE DEF f
<1>5. \A i \in Nat : /\ i - 1 \in f .. f + k - 1 <=> i \in f + 1 .. f + k
                     /\ (i - 1) - f + 1 = i - f
  BY <1>1
<1>6. ASSUME NEW i \in 1 .. size', i \in f + 1 .. f + k
      PROVE  Contents'[i] = buf[p][i - f]
  <2>1. i \in Nat /\ i - 1 \in Nat
    BY <1>1
  <2>2. i - 1 \in f .. f + k - 1 /\ (i - 1) - f + 1 = i - f
    BY <1>5, <1>6, <2>1
  <2>3. QED
    BY <1>3, <1>4, <2>1, <2>2
<1>7. ASSUME NEW i \in 1 .. size, i \notin f + 1 .. f + k
      PROVE  Contents'[i] = Contents[i]
  <2>1. i \in Nat /\ i - 1 \in Nat /\ i \in 1 .. size'
    BY <1>1
  <2>2. i - 1 \notin f .. f + k - 1
    BY <1>5, <1>7, <2>1
  <2>3. QED
    BY <1>2, <1>3, <1>4, <2>1, <2>2
<1>8. QED
  BY <1>6, <1>7 DEF f

LEMMA WriteCopyMaps ==
    ASSUME FileInv, NEW p \in Proc, WriteCopy(p)
    PROVE  File!Write(p)
<1> DEFINE n == Transfer(p)  f == f_pos[p]
<1>1. /\ FixedInv /\ pc[p] = "w_copy" /\ count[p] >= 1 /\ count[p] = Len(buf[p])
      /\ count[p] \in Nat /\ f \in Nat /\ size \in Nat
  BY DEF FileInv, Asked, WriteCopy, FixedInv, Shaped, Sound
<1>2. ~Astray(p) /\ n \in Nat /\ n <= count[p]
  BY <1>1, CopyInside
<1>3. n >= 1
  <2>1. my_quantum[p] = quantum /\ q_pos(p) \in 0 .. quantum - 1 /\ quantum \in Nat
    BY <1>1, Place
  <2>2. QED
    BY <1>1, <2>1 DEF Transfer, Least
<1>4. /\ data' = Stored(p, n) /\ f_pos' = [f_pos EXCEPT ![p] = f_pos[p] + n]
      /\ count' = [count EXCEPT ![p] = n] /\ UNCHANGED <<quantum, qset, buf>>
      /\ size' = IF size < f + n THEN f + n ELSE size
  BY <1>2 DEF WriteCopy
<1>5. Kept'
  BY <1>1, CopyKeeps
<1> HIDE DEF n, f
<1>6. size' >= size /\ f + n <= size' /\ f + n \in Nat /\ n \in 0 .. n
      /\ size' = IF size > f + n THEN size ELSE f + n
  BY <1>1, <1>2, <1>4
<1>7. /\ \A i \in 1 .. size' : i \in f + 1 .. f + n => Contents'[i] = buf[p][i - f]
      /\ \A i \in 1 .. size : i \notin f + 1 .. f + n => Contents'[i] = Contents[i]
  BY <1>1, <1>4, <1>5, <1>6, StoredContents DEF n, f
<1>8. Len(Contents) = size /\ DOMAIN Contents = 1 .. size /\ Len(Contents') = size'
  BY <1>1, <1>4, <1>5, BytesBefore, BytesAfter, LenProperties
<1>9. \A i \in f + 1 .. f + n : i \in 1 .. size'
  BY <1>1, <1>2, <1>6
<1>10. n \in 1 .. Len(buf[p])
  BY <1>1, <1>2, <1>3
<1>11. \A i \in f + 1 .. f + n : Contents'[i] = buf[p][i - f]
  BY <1>7, <1>9
<1>12. \A i \in DOMAIN Contents \ (f + 1 .. f + n) : Contents'[i] = Contents[i]
  BY <1>7, <1>8
<1>13. Len(Contents') = IF Len(Contents) > f + n THEN Len(Contents) ELSE f + n
  BY <1>6, <1>8
<1>14. QED
  BY <1>4, <1>10, <1>11, <1>12, <1>13 DEF File!Write, File!Untouched, f, n

LEMMA CopyFaultMaps ==
    ASSUME FixedInv, NEW p \in Proc, CopyFault(p)
    PROVE  File!FailedWrite(p) \/ UNCHANGED File!vars
<1> DEFINE f == f_pos[p]
<1>1. UNCHANGED <<quantum, qset, size, f_pos, buf, count>>
  BY DEF CopyFault, call
<1>2. CASE data' = data
  <2>1. Contents' = Contents
    BY <1>1, <1>2, ContentsNow, ContentsThen
  <2>2. QED
    BY <1>1, <2>1 DEF File!vars
<1>3. CASE pc[p] = "w_copy" /\ \E k \in 0 .. Transfer(p) - 1 : data' = Stored(p, k)
  <2>1. PICK k \in 0 .. Transfer(p) - 1 : data' = Stored(p, k)
    BY <1>3
  <2>2. /\ Transfer(p) \in Nat /\ Transfer(p) <= count[p] /\ count[p] = Len(buf[p])
        /\ count[p] \in Nat /\ f \in Nat /\ size \in Nat
    BY <1>3, CopyInside DEF FixedInv, Shaped, Sound
  <2>3. k \in 0 .. Transfer(p) /\ k \in 0 .. Len(buf[p])
    BY <2>2
  <2>4. Kept' /\ size' >= size /\ size' = size
    BY <1>1, <2>2, CopyKeeps
  <2> HIDE DEF f
  <2>5. /\ \A i \in 1 .. size' : i \in f + 1 .. f + k => Contents'[i] = buf[p][i - f]
        /\ \A i \in 1 .. size : i \notin f + 1 .. f + k => Contents'[i] = Contents[i]
    BY <1>1, <1>3, <2>1, <2>3, <2>4, StoredContents DEF f
  <2>6. Len(Contents) = size /\ DOMAIN Contents = 1 .. size /\ Len(Contents') = size
    BY <1>1, <2>4, BytesBefore, BytesAfter, LenProperties
  <2>7. \A i \in (f + 1 .. f + k) \cap DOMAIN Contents : Contents'[i] = buf[p][i - f]
    BY <2>4, <2>5, <2>6
  <2>8. \A i \in DOMAIN Contents \ (f + 1 .. f + k) : Contents'[i] = Contents[i]
    BY <2>5, <2>6
  <2>9. QED
    BY <1>1, <2>3, <2>6, <2>7, <2>8 DEF File!FailedWrite, File!Untouched, f
<1>4. QED
  BY <1>2, <1>3 DEF CopyFault

LEMMA FileMaps ==
    ASSUME FileInv, [FixedNext]_vars
    PROVE  File!Next \/ UNCHANGED File!vars
<1>1. FixedInv
  BY DEF FileInv
<1>2. CASE UNCHANGED vars
  <2>1. UNCHANGED <<data, size, quantum, qset, f_pos, buf, count>>
    BY <1>2 DEF vars, device, call
  <2>2. Contents' = Contents
    BY <2>1, ContentsNow, ContentsThen
  <2>3. QED
    BY <2>1, <2>2 DEF File!vars
<1>3. ASSUME NEW p \in Proc, Quiet(p) \/ ReadFind(p)
      PROVE  File!Next
  <2>1. File!Caller(p)
    BY <1>1, <1>3, QuietMaps, ReadFindMaps
  <2>2. QED
    BY <2>1 DEF File!Next
<1>4. ASSUME NEW p \in Proc, OpenTrim(p)
      PROVE  File!Next
  BY <1>1, <1>4, TrimMaps DEF File!Next
<1>5. ASSUME NEW p \in Proc, WriteFind(p)
      PROVE  File!Next
  BY <1>1, <1>5, WriteFindMaps DEF File!Next
<1>6. ASSUME NEW p \in Proc, ReadCopy(p)
      PROVE  File!Next
  BY <1>6, ReadCopyMaps DEF File!Next
<1>7. ASSUME NEW p \in Proc, WriteCopy(p)
      PROVE  File!Next
  BY <1>7, WriteCopyMaps DEF File!Next
<1>8. ASSUME NEW p \in Proc, CopyFault(p)
      PROVE  File!Next \/ UNCHANGED File!vars
  BY <1>1, <1>8, CopyFaultMaps DEF File!Next
<1>9. QED
  BY <1>2, <1>3, <1>4, <1>5, <1>6, <1>7, <1>8 DEF FixedNext, Steps, Quiet

(* Reads, writes and seeks of any number of processes, interrupted, short  *)
(* of memory or with bad addresses, see one file with holes: the bytes a   *)
(* read returns are the ones last written there, through whatever items    *)
(* and quanta they went.                                                   *)
THEOREM DeviceIsAFile == FixedSpec => IsSparseFile
<1>1. Init => Asked /\ File!Init
  <2> SUFFICES ASSUME Init PROVE Asked /\ File!Init
    OBVIOUS
  <2>1. Asked
    BY DEF Init, Asked
  <2>2. Contents = <<>>
    <3>1. size = 0
      BY DEF Init
    <3>2. QED
      BY <3>1 DEF Contents
  <2>3. File!Init
    BY <2>2 DEF Init, File!Init
  <2>4. QED
    BY <2>1, <2>3
<1>2. FixedInv /\ Asked /\ [FixedNext]_vars => Asked'
  BY StepAsked
<1>3. FixedInv /\ Asked /\ [FixedNext]_vars => [File!Next]_(File!vars)
  BY FileMaps DEF FileInv
<1>4. QED
  BY <1>1, <1>2, <1>3, FixedInvHolds, PTL DEF FixedSpec, IsSparseFile, File!Spec
=============================================================================
