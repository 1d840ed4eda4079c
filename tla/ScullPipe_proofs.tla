--------------------------- MODULE ScullPipe_proofs ---------------------------
(***************************************************************************)
(* Proofs about ScullPipe, for any set of files, any buffer sizes and any  *)
(* data: type correctness, the semaphore's discipline, the window of every *)
(* copy, that no wake-up is lost, and that the pipe is a BoundedFifo.      *)
(***************************************************************************)
EXTENDS ScullPipe, SequenceTheorems, TLAPS

(* rp and wp stay in the buffer; one of them is at its end only while the  *)
(* process that advanced it still holds the semaphore.                     *)
Pointers ==
    /\ buffersize = 0 => \A f \in File : pc[f] = "closed"
    /\ rp <= buffersize /\ wp <= buffersize
    /\ rp = buffersize /\ buffersize # 0 => \E f \in File : pc[f] \in {"r_wrap", "oops"}
    /\ wp = buffersize /\ buffersize # 0 => \E f \in File : pc[f] \in {"w_wrap", "oops"}

(* The tests made before a copy still hold when it is made, and what it    *)
(* may take of the caller's buffer is there.                               *)
Tested ==
    \A f \in File :
        /\ pc[f] = "r_copy" => rp # wp
        /\ pc[f] = "w_copy" => spacefree # 0
        /\ pc[f] \in {"w_down", "w_queue", "w_test", "w_sleep", "w_finish", "w_copy"} =>
               count[f] = Len(ubuf[f])
        /\ pc[f] \in {"r_down", "r_queue", "r_test", "r_sleep", "r_copy",
                      "w_down", "w_queue", "w_test", "w_sleep", "w_finish", "w_copy"} =>
               count[f] >= 1

IInv == TypeOK /\ SemaphoreDiscipline /\ Pointers /\ Tested

-----------------------------------------------------------------------------
LEMMA ModOnce ==
    ASSUME NEW m \in Nat, NEW x \in Nat
    PROVE  /\ x < m => x % m = x
           /\ m # 0 /\ m <= x /\ x < m + m => x % m = x - m
  BY SMT

(* The room spacefree() computes, without the modulus.                     *)
LEMMA SpaceFree ==
    ASSUME buffersize \in Nat, rp \in Nat, wp \in Nat, rp < buffersize, wp < buffersize
    PROVE  spacefree = IF wp >= rp THEN buffersize - (wp - rp) - 1 ELSE rp - wp - 1
<1>1. CASE rp = wp
  BY <1>1 DEF spacefree
<1>2. CASE rp < wp
  <2> DEFINE x == rp + buffersize - wp
  <2>1. x \in Nat /\ x < buffersize
    BY <1>2
  <2>2. x % buffersize = x
    BY <2>1, ModOnce
  <2>3. QED
    BY <1>2, <2>1, <2>2 DEF spacefree
<1>3. CASE rp > wp
  <2> DEFINE x == rp + buffersize - wp
  <2>1. x \in Nat /\ buffersize # 0 /\ buffersize <= x /\ x < buffersize + buffersize
    BY <1>3
  <2>2. x % buffersize = x - buffersize
    BY <2>1, ModOnce
  <2>3. QED
    BY <1>3, <2>1, <2>2 DEF spacefree
<1>4. QED
  BY <1>1, <1>2, <1>3

(* The distance from rp to wp, around the end of the buffer.               *)
LEMMA Distance ==
    ASSUME NEW b \in Nat, NEW r \in Nat, NEW w \in Nat, r <= b, w < b
    PROVE  (w - r + b) % b = IF w >= r THEN w - r ELSE w - r + b
<1> DEFINE x == w - r + b
<1>1. CASE w >= r
  <2>1. x \in Nat /\ b # 0 /\ b <= x /\ x < b + b
    BY <1>1
  <2>2. x % b = x - b
    BY <2>1, ModOnce
  <2>3. QED
    BY <1>1, <2>1, <2>2
<1>2. CASE w < r
  <2>1. x \in Nat /\ x < b
    BY <1>2
  <2>2. x % b = x
    BY <2>1, ModOnce
  <2>3. QED
    BY <1>2, <2>1, <2>2
<1>3. QED
  BY <1>1, <1>2

LEMMA FilledBytes ==
    ASSUME buffersize \in Nat, rp \in Nat, wp \in Nat, rp <= buffersize, wp < buffersize
    PROVE  Filled = IF wp >= rp THEN wp - rp ELSE wp - rp + buffersize
  BY Distance DEF Filled

(* Whoever holds the semaphore, outside a wrap, finds both pointers short  *)
(* of the end of the buffer; so does whoever finds it free.                *)
LEMMA PointersAtRest ==
    ASSUME IInv, NEW f \in File, pc[f] # "closed",
           sem = NoFile \/ (sem = f /\ pc[f] \in {"r_copy", "w_copy"})
    PROVE  /\ buffersize \in Nat \ {0} /\ buffersize <= MaxSize
           /\ rp \in Nat /\ rp < buffersize
           /\ wp \in Nat /\ wp < buffersize
<1>1. \A g \in File : pc[g] \notin {"r_wrap", "w_wrap", "oops"}
  BY PipeAssumption DEF IInv, SemaphoreDiscipline, Holding
<1>2. /\ buffersize \in Nat \ {0} /\ buffersize <= MaxSize
      /\ rp \in Nat /\ wp \in Nat
  BY PipeAssumption DEF IInv, TypeOK, Pointers
<1>3. QED
  BY <1>1, <1>2 DEF IInv, Pointers

LEMMA ReadWindow ==
    ASSUME IInv, NEW f \in File, pc[f] = "r_copy"
    PROVE  /\ Readable \in Nat \ {0}
           /\ rp + Readable <= buffersize
           /\ Readable <= Filled
<1>1. /\ buffersize \in Nat \ {0} /\ buffersize <= MaxSize
      /\ rp \in Nat /\ rp < buffersize
      /\ wp \in Nat /\ wp < buffersize
      /\ rp # wp
  BY PointersAtRest DEF IInv, SemaphoreDiscipline, Holding, Tested
<1>2. Filled = IF wp >= rp THEN wp - rp ELSE wp - rp + buffersize
  BY <1>1, FilledBytes
<1>3. QED
  BY <1>1, <1>2 DEF Readable

LEMMA WriteWindow ==
    ASSUME IInv, NEW f \in File, pc[f] = "w_copy"
    PROVE  /\ Writable \in Nat \ {0}
           /\ wp + Writable <= buffersize
           /\ Filled + Writable < buffersize
<1>1. /\ buffersize \in Nat \ {0} /\ buffersize <= MaxSize
      /\ rp \in Nat /\ rp < buffersize
      /\ wp \in Nat /\ wp < buffersize
      /\ spacefree # 0
  BY PointersAtRest DEF IInv, SemaphoreDiscipline, Holding, Tested
<1>2. /\ Filled = IF wp >= rp THEN wp - rp ELSE wp - rp + buffersize
      /\ spacefree = IF wp >= rp THEN buffersize - (wp - rp) - 1 ELSE rp - wp - 1
  BY <1>1, FilledBytes, SpaceFree
<1>3. QED
  BY <1>1, <1>2 DEF Writable, Least

(* A copy from the caller's buffer leaves data, and only data, behind.     *)
LEMMA StoredType ==
    ASSUME IInv, NEW f \in File, pc[f] = "w_copy", NEW n \in Nat, n <= count[f]
    PROVE  Stored(f, n) \in [0 .. MaxSize - 1 -> Data]
<1>1. count[f] = Len(ubuf[f]) /\ ubuf[f] \in Seq(Data) /\ wp \in Nat
  BY PipeAssumption DEF IInv, Tested, TypeOK
<1>2. \A i \in wp .. wp + n - 1 : ubuf[f][i - wp + 1] \in Data
  <2> SUFFICES ASSUME NEW i \in wp .. wp + n - 1 PROVE ubuf[f][i - wp + 1] \in Data
    OBVIOUS
  <2>1. i - wp + 1 \in 1 .. Len(ubuf[f])
    BY <1>1
  <2>2. QED
    BY <1>1, <2>1
<1>3. QED
  BY <1>2 DEF Stored, IInv, TypeOK

-----------------------------------------------------------------------------
LEMMA InitIInv == Init => IInv
<1> SUFFICES ASSUME Init PROVE IInv
  OBVIOUS
<1>1. TypeOK
  BY PipeAssumption DEF Init, TypeOK, Data, Location
<1>2. SemaphoreDiscipline /\ Pointers /\ Tested
  BY PipeAssumption DEF Init, SemaphoreDiscipline, Pointers, Tested, Holding
<1>3. QED
  BY <1>1, <1>2 DEF IInv

(* What a step does to its caller's own variables is well typed.           *)
CallOK ==
    /\ pc \in [File -> Location] /\ pending \subseteq File
    /\ f_mode \in [File -> Modes \cup {{}}]
    /\ count \in [File -> 0 .. MaxCount] /\ ubuf \in [File -> Seq(Data)]

LEMMA ReturnCallOK ==
    ASSUME CallOK, NEW f \in File, Return(f, {})
    PROVE  CallOK'
<1>1. <<>> \in Seq(Data) /\ 0 \in 0 .. MaxCount
  BY PipeAssumption
<1>2. QED
  BY <1>1 DEF CallOK, Return, GoTo, Location

LEMMA GoToCallOK ==
    ASSUME CallOK, NEW f \in File, NEW l \in Location, GoTo(f, l), UNCHANGED <<pending, call>>
    PROVE  CallOK'
  BY DEF CallOK, GoTo, call

LEMMA StepIInv == IInv /\ [Next]_vars => IInv'
<1> SUFFICES ASSUME IInv, [Next]_vars PROVE IInv'
  OBVIOUS
<1> USE PipeAssumption DEF device, waiting
<1>0. /\ TypeOK /\ SemaphoreDiscipline /\ Pointers /\ Tested
      /\ <<>> \in Seq(Data) /\ 0 \in 0 .. MaxCount
  BY DEF IInv
<1>1. ASSUME NEW f \in File, Interrupted(f) PROVE IInv'
  <2>1. TypeOK'
    BY <1>0, <1>1 DEF Interrupted, TypeOK, Location, GoTo, Return, call
  <2>2. SemaphoreDiscipline'
    BY <1>0, <1>1 DEF Interrupted, TypeOK, SemaphoreDiscipline, Holding, GoTo, Return, call
  <2>3. Pointers'
    BY <1>0, <1>1 DEF Interrupted, TypeOK, SemaphoreDiscipline, Holding, Pointers, WrapsToNull, GoTo, Return, call
  <2>4. Tested'
    BY <1>0, <1>1 DEF Interrupted, TypeOK, SemaphoreDiscipline, Holding, Tested, spacefree, GoTo, Return, call
  <2>5. QED
    BY <2>1, <2>2, <2>3, <2>4 DEF IInv
<1>2. ASSUME NEW f \in File, Close(f) PROVE IInv'
  <2>1. TypeOK'
    BY <1>0, <1>2 DEF Close, TypeOK, Location, GoTo, Return, call
  <2>2. SemaphoreDiscipline'
    BY <1>0, <1>2 DEF Close, TypeOK, SemaphoreDiscipline, Holding, GoTo, Return, call
  <2>3. Pointers'
    BY <1>0, <1>2 DEF Close, TypeOK, SemaphoreDiscipline, Holding, Pointers, WrapsToNull, GoTo, Return, call
  <2>4. Tested'
    BY <1>0, <1>2 DEF Close, TypeOK, SemaphoreDiscipline, Holding, Tested, spacefree, GoTo, Return, call
  <2>5. QED
    BY <2>1, <2>2, <2>3, <2>4 DEF IInv
<1>3. ASSUME NEW f \in File, Release(f) PROVE IInv'
  <2>1. TypeOK'
    BY <1>0, <1>3 DEF Release, TypeOK, Location, GoTo, Return, call
  <2>2. SemaphoreDiscipline'
    BY <1>0, <1>3 DEF Release, TypeOK, SemaphoreDiscipline, Holding, GoTo, Return, call
  <2>3. Pointers'
    BY <1>0, <1>3 DEF Release, TypeOK, SemaphoreDiscipline, Holding, Pointers, WrapsToNull, GoTo, Return, call
  <2>4. Tested'
    BY <1>0, <1>3 DEF Release, TypeOK, SemaphoreDiscipline, Holding, Tested, spacefree, GoTo, Return, call
  <2>5. QED
    BY <2>1, <2>2, <2>3, <2>4 DEF IInv
<1>4. ASSUME NEW f \in File, ReadDown(f) PROVE IInv'
  <2>1. TypeOK'
    <3>1. \/ Return(f, {})
          \/ GoTo(f, "r_copy") /\ UNCHANGED <<pending, call>>
          \/ GoTo(f, "r_queue") /\ UNCHANGED <<pending, call>>
      BY <1>4 DEF ReadDown
    <3>2. CallOK'
      BY <1>0, <3>1, ReturnCallOK, GoToCallOK DEF CallOK, TypeOK, Location
    <3>3. QED
      BY <1>0, <1>4, <3>2 DEF ReadDown, TypeOK, CallOK
  <2>2. SemaphoreDiscipline'
    BY <1>0, <1>4 DEF ReadDown, TypeOK, SemaphoreDiscipline, Holding, GoTo, Return, call
  <2>3. Pointers'
    BY <1>0, <1>4 DEF ReadDown, TypeOK, SemaphoreDiscipline, Holding, Pointers, WrapsToNull, GoTo, Return, call
  <2>4. Tested'
    BY <1>0, <1>4 DEF ReadDown, TypeOK, SemaphoreDiscipline, Holding, Tested, spacefree, GoTo, Return, call
  <2>5. QED
    BY <2>1, <2>2, <2>3, <2>4 DEF IInv
<1>5. ASSUME NEW f \in File, ReadQueue(f) PROVE IInv'
  <2>1. TypeOK'
    BY <1>0, <1>5 DEF ReadQueue, TypeOK, Location, GoTo, Return, call
  <2>2. SemaphoreDiscipline'
    BY <1>0, <1>5 DEF ReadQueue, TypeOK, SemaphoreDiscipline, Holding, GoTo, Return, call
  <2>3. Pointers'
    BY <1>0, <1>5 DEF ReadQueue, TypeOK, SemaphoreDiscipline, Holding, Pointers, WrapsToNull, GoTo, Return, call
  <2>4. Tested'
    BY <1>0, <1>5 DEF ReadQueue, TypeOK, SemaphoreDiscipline, Holding, Tested, spacefree, GoTo, Return, call
  <2>5. QED
    BY <2>1, <2>2, <2>3, <2>4 DEF IInv
<1>6. ASSUME NEW f \in File, ReadTest(f) PROVE IInv'
  <2>1. TypeOK'
    <3>1. \/ Return(f, {})
          \/ GoTo(f, "r_down") /\ UNCHANGED <<pending, call>>
          \/ GoTo(f, "r_sleep") /\ UNCHANGED <<pending, call>>
      BY <1>6 DEF ReadTest
    <3>2. CallOK'
      BY <1>0, <3>1, ReturnCallOK, GoToCallOK DEF CallOK, TypeOK, Location
    <3>3. QED
      BY <1>0, <1>6, <3>2 DEF ReadTest, TypeOK, CallOK
  <2>2. SemaphoreDiscipline'
    BY <1>0, <1>6 DEF ReadTest, TypeOK, SemaphoreDiscipline, Holding, GoTo, Return, call
  <2>3. Pointers'
    BY <1>0, <1>6 DEF ReadTest, TypeOK, SemaphoreDiscipline, Holding, Pointers, WrapsToNull, GoTo, Return, call
  <2>4. Tested'
    BY <1>0, <1>6 DEF ReadTest, TypeOK, SemaphoreDiscipline, Holding, Tested, spacefree, GoTo, Return, call
  <2>5. QED
    BY <2>1, <2>2, <2>3, <2>4 DEF IInv
<1>7. ASSUME NEW f \in File, ReadSleep(f) PROVE IInv'
  <2>1. TypeOK'
    BY <1>0, <1>7 DEF ReadSleep, TypeOK, Location, GoTo, Return, call
  <2>2. SemaphoreDiscipline'
    BY <1>0, <1>7 DEF ReadSleep, TypeOK, SemaphoreDiscipline, Holding, GoTo, Return, call
  <2>3. Pointers'
    BY <1>0, <1>7 DEF ReadSleep, TypeOK, SemaphoreDiscipline, Holding, Pointers, WrapsToNull, GoTo, Return, call
  <2>4. Tested'
    BY <1>0, <1>7 DEF ReadSleep, TypeOK, SemaphoreDiscipline, Holding, Tested, spacefree, GoTo, Return, call
  <2>5. QED
    BY <2>1, <2>2, <2>3, <2>4 DEF IInv
<1>8. ASSUME NEW f \in File, ReadWrap(f) PROVE IInv'
  <2>1. TypeOK'
    BY <1>0, <1>8 DEF ReadWrap, TypeOK, Location, GoTo, Return, call
  <2>2. SemaphoreDiscipline'
    BY <1>0, <1>8 DEF ReadWrap, TypeOK, SemaphoreDiscipline, Holding, GoTo, Return, call
  <2>3. Pointers'
    BY <1>0, <1>8 DEF ReadWrap, TypeOK, SemaphoreDiscipline, Holding, Pointers, WrapsToNull, GoTo, Return, call
  <2>4. Tested'
    BY <1>0, <1>8 DEF ReadWrap, TypeOK, SemaphoreDiscipline, Holding, Tested, spacefree, GoTo, Return, call
  <2>5. QED
    BY <2>1, <2>2, <2>3, <2>4 DEF IInv
<1>9. ASSUME NEW f \in File, ReadWake(f) PROVE IInv'
  <2>1. TypeOK'
    BY <1>0, <1>9 DEF ReadWake, TypeOK, Location, GoTo, Return, call
  <2>2. SemaphoreDiscipline'
    BY <1>0, <1>9 DEF ReadWake, TypeOK, SemaphoreDiscipline, Holding, GoTo, Return, call
  <2>3. Pointers'
    BY <1>0, <1>9 DEF ReadWake, TypeOK, SemaphoreDiscipline, Holding, Pointers, WrapsToNull, GoTo, Return, call
  <2>4. Tested'
    BY <1>0, <1>9 DEF ReadWake, TypeOK, SemaphoreDiscipline, Holding, Tested, spacefree, GoTo, Return, call
  <2>5. QED
    BY <2>1, <2>2, <2>3, <2>4 DEF IInv
<1>10. ASSUME NEW f \in File, WriteDown(f) PROVE IInv'
  <2>1. TypeOK'
    <3>1. \/ Return(f, {})
          \/ GoTo(f, "w_copy") /\ UNCHANGED <<pending, call>>
          \/ GoTo(f, "w_queue") /\ UNCHANGED <<pending, call>>
      BY <1>10 DEF WriteDown
    <3>2. CallOK'
      BY <1>0, <3>1, ReturnCallOK, GoToCallOK DEF CallOK, TypeOK, Location
    <3>3. QED
      BY <1>0, <1>10, <3>2 DEF WriteDown, TypeOK, CallOK
  <2>2. SemaphoreDiscipline'
    BY <1>0, <1>10 DEF WriteDown, TypeOK, SemaphoreDiscipline, Holding, GoTo, Return, call
  <2>3. Pointers'
    BY <1>0, <1>10 DEF WriteDown, TypeOK, SemaphoreDiscipline, Holding, Pointers, WrapsToNull, GoTo, Return, call
  <2>4. Tested'
    BY <1>0, <1>10 DEF WriteDown, TypeOK, SemaphoreDiscipline, Holding, Tested, spacefree, GoTo, Return, call
  <2>5. QED
    BY <2>1, <2>2, <2>3, <2>4 DEF IInv
<1>11. ASSUME NEW f \in File, WriteQueue(f) PROVE IInv'
  <2>1. TypeOK'
    BY <1>0, <1>11 DEF WriteQueue, TypeOK, Location, GoTo, Return, call
  <2>2. SemaphoreDiscipline'
    BY <1>0, <1>11 DEF WriteQueue, TypeOK, SemaphoreDiscipline, Holding, GoTo, Return, call
  <2>3. Pointers'
    BY <1>0, <1>11 DEF WriteQueue, TypeOK, SemaphoreDiscipline, Holding, Pointers, WrapsToNull, GoTo, Return, call
  <2>4. Tested'
    BY <1>0, <1>11 DEF WriteQueue, TypeOK, SemaphoreDiscipline, Holding, Tested, spacefree, GoTo, Return, call
  <2>5. QED
    BY <2>1, <2>2, <2>3, <2>4 DEF IInv
<1>12. ASSUME NEW f \in File, WriteTest(f) PROVE IInv'
  <2>1. TypeOK'
    BY <1>0, <1>12 DEF WriteTest, TypeOK, Location, GoTo, Return, call
  <2>2. SemaphoreDiscipline'
    BY <1>0, <1>12 DEF WriteTest, TypeOK, SemaphoreDiscipline, Holding, GoTo, Return, call
  <2>3. Pointers'
    BY <1>0, <1>12 DEF WriteTest, TypeOK, SemaphoreDiscipline, Holding, Pointers, WrapsToNull, GoTo, Return, call
  <2>4. Tested'
    BY <1>0, <1>12 DEF WriteTest, TypeOK, SemaphoreDiscipline, Holding, Tested, spacefree, GoTo, Return, call
  <2>5. QED
    BY <2>1, <2>2, <2>3, <2>4 DEF IInv
<1>13. ASSUME NEW f \in File, WriteSleep(f) PROVE IInv'
  <2>1. TypeOK'
    BY <1>0, <1>13 DEF WriteSleep, TypeOK, Location, GoTo, Return, call
  <2>2. SemaphoreDiscipline'
    BY <1>0, <1>13 DEF WriteSleep, TypeOK, SemaphoreDiscipline, Holding, GoTo, Return, call
  <2>3. Pointers'
    BY <1>0, <1>13 DEF WriteSleep, TypeOK, SemaphoreDiscipline, Holding, Pointers, WrapsToNull, GoTo, Return, call
  <2>4. Tested'
    BY <1>0, <1>13 DEF WriteSleep, TypeOK, SemaphoreDiscipline, Holding, Tested, spacefree, GoTo, Return, call
  <2>5. QED
    BY <2>1, <2>2, <2>3, <2>4 DEF IInv
<1>14. ASSUME NEW f \in File, WriteFinish(f) PROVE IInv'
  <2>1. TypeOK'
    <3>1. \/ Return(f, {})
          \/ GoTo(f, "w_down") /\ UNCHANGED <<pending, call>>
      BY <1>14 DEF WriteFinish
    <3>2. CallOK'
      BY <1>0, <3>1, ReturnCallOK, GoToCallOK DEF CallOK, TypeOK, Location
    <3>3. QED
      BY <1>0, <1>14, <3>2 DEF WriteFinish, TypeOK, CallOK
  <2>2. SemaphoreDiscipline'
    BY <1>0, <1>14 DEF WriteFinish, TypeOK, SemaphoreDiscipline, Holding, GoTo, Return, call
  <2>3. Pointers'
    BY <1>0, <1>14 DEF WriteFinish, TypeOK, SemaphoreDiscipline, Holding, Pointers, WrapsToNull, GoTo, Return, call
  <2>4. Tested'
    BY <1>0, <1>14 DEF WriteFinish, TypeOK, SemaphoreDiscipline, Holding, Tested, spacefree, GoTo, Return, call
  <2>5. QED
    BY <2>1, <2>2, <2>3, <2>4 DEF IInv
<1>15. ASSUME NEW f \in File, WriteWrap(f) PROVE IInv'
  <2>1. TypeOK'
    BY <1>0, <1>15 DEF WriteWrap, TypeOK, Location, GoTo, Return, call
  <2>2. SemaphoreDiscipline'
    BY <1>0, <1>15 DEF WriteWrap, TypeOK, SemaphoreDiscipline, Holding, GoTo, Return, call
  <2>3. Pointers'
    BY <1>0, <1>15 DEF WriteWrap, TypeOK, SemaphoreDiscipline, Holding, Pointers, WrapsToNull, GoTo, Return, call
  <2>4. Tested'
    BY <1>0, <1>15 DEF WriteWrap, TypeOK, SemaphoreDiscipline, Holding, Tested, spacefree, GoTo, Return, call
  <2>5. QED
    BY <2>1, <2>2, <2>3, <2>4 DEF IInv
<1>16. ASSUME NEW f \in File, WriteWake(f) PROVE IInv'
  <2>1. TypeOK'
    BY <1>0, <1>16 DEF WriteWake, TypeOK, Location, GoTo, Return, call
  <2>2. SemaphoreDiscipline'
    BY <1>0, <1>16 DEF WriteWake, TypeOK, SemaphoreDiscipline, Holding, GoTo, Return, call
  <2>3. Pointers'
    BY <1>0, <1>16 DEF WriteWake, TypeOK, SemaphoreDiscipline, Holding, Pointers, WrapsToNull, GoTo, Return, call
  <2>4. Tested'
    BY <1>0, <1>16 DEF WriteWake, TypeOK, SemaphoreDiscipline, Holding, Tested, spacefree, GoTo, Return, call
  <2>5. QED
    BY <2>1, <2>2, <2>3, <2>4 DEF IInv
<1>17. ASSUME NEW f \in File, Poll(f) PROVE IInv'
  <2>1. TypeOK'
    BY <1>0, <1>17 DEF Poll, TypeOK, Location, GoTo, Return, call
  <2>2. SemaphoreDiscipline'
    BY <1>0, <1>17 DEF Poll, TypeOK, SemaphoreDiscipline, Holding, GoTo, Return, call
  <2>3. Pointers'
    BY <1>0, <1>17 DEF Poll, TypeOK, SemaphoreDiscipline, Holding, Pointers, WrapsToNull, GoTo, Return, call
  <2>4. Tested'
    BY <1>0, <1>17 DEF Poll, TypeOK, SemaphoreDiscipline, Holding, Tested, spacefree, GoTo, Return, call
  <2>5. QED
    BY <2>1, <2>2, <2>3, <2>4 DEF IInv
<1>18. ASSUME NEW f \in File, PollMask(f) PROVE IInv'
  <2>1. TypeOK'
    <3>1. \/ Return(f, {})
          \/ GoTo(f, "p_sleep") /\ UNCHANGED <<pending, call>>
      BY <1>18 DEF PollMask
    <3>2. CallOK'
      BY <1>0, <3>1, ReturnCallOK, GoToCallOK DEF CallOK, TypeOK, Location
    <3>3. QED
      BY <1>0, <1>18, <3>2 DEF PollMask, TypeOK, CallOK
  <2>2. SemaphoreDiscipline'
    BY <1>0, <1>18 DEF PollMask, TypeOK, SemaphoreDiscipline, Holding, GoTo, Return, call
  <2>3. Pointers'
    BY <1>0, <1>18 DEF PollMask, TypeOK, SemaphoreDiscipline, Holding, Pointers, WrapsToNull, GoTo, Return, call
  <2>4. Tested'
    BY <1>0, <1>18 DEF PollMask, TypeOK, SemaphoreDiscipline, Holding, Tested, spacefree, GoTo, Return, call
  <2>5. QED
    BY <2>1, <2>2, <2>3, <2>4 DEF IInv
<1>19. ASSUME NEW f \in File, PollSleep(f) PROVE IInv'
  <2>1. TypeOK'
    <3>1. \/ Return(f, {})
          \/ GoTo(f, "p_down") /\ UNCHANGED <<pending, call>>
      BY <1>19 DEF PollSleep
    <3>2. CallOK'
      BY <1>0, <3>1, ReturnCallOK, GoToCallOK DEF CallOK, TypeOK, Location
    <3>3. QED
      BY <1>0, <1>19, <3>2 DEF PollSleep, TypeOK, CallOK
  <2>2. SemaphoreDiscipline'
    BY <1>0, <1>19 DEF PollSleep, TypeOK, SemaphoreDiscipline, Holding, GoTo, Return, call
  <2>3. Pointers'
    BY <1>0, <1>19 DEF PollSleep, TypeOK, SemaphoreDiscipline, Holding, Pointers, WrapsToNull, GoTo, Return, call
  <2>4. Tested'
    BY <1>0, <1>19 DEF PollSleep, TypeOK, SemaphoreDiscipline, Holding, Tested, spacefree, GoTo, Return, call
  <2>5. QED
    BY <2>1, <2>2, <2>3, <2>4 DEF IInv
<1>20. ASSUME NEW f \in File, Fasync(f) PROVE IInv'
  <2>1. TypeOK'
    BY <1>0, <1>20 DEF Fasync, TypeOK, Location, GoTo, Return, call
  <2>2. SemaphoreDiscipline'
    BY <1>0, <1>20 DEF Fasync, TypeOK, SemaphoreDiscipline, Holding, GoTo, Return, call
  <2>3. Pointers'
    BY <1>0, <1>20 DEF Fasync, TypeOK, SemaphoreDiscipline, Holding, Pointers, WrapsToNull, GoTo, Return, call
  <2>4. Tested'
    BY <1>0, <1>20 DEF Fasync, TypeOK, SemaphoreDiscipline, Holding, Tested, spacefree, GoTo, Return, call
  <2>5. QED
    BY <2>1, <2>2, <2>3, <2>4 DEF IInv
<1>21. ASSUME NEW f \in File, Signal(f) PROVE IInv'
  <2>1. TypeOK'
    BY <1>0, <1>21 DEF Signal, TypeOK, Location, GoTo, Return, call
  <2>2. SemaphoreDiscipline'
    BY <1>0, <1>21 DEF Signal, TypeOK, SemaphoreDiscipline, Holding, GoTo, Return, call
  <2>3. Pointers'
    BY <1>0, <1>21 DEF Signal, TypeOK, SemaphoreDiscipline, Holding, Pointers, WrapsToNull, GoTo, Return, call
  <2>4. Tested'
    BY <1>0, <1>21 DEF Signal, TypeOK, SemaphoreDiscipline, Holding, Tested, spacefree, GoTo, Return, call
  <2>5. QED
    BY <2>1, <2>2, <2>3, <2>4 DEF IInv
<1>22. ASSUME NEW f \in File, Oops(f) PROVE IInv'
  <2>1. TypeOK'
    BY <1>0, <1>22 DEF Oops, TypeOK, Location, GoTo, Return, call
  <2>2. SemaphoreDiscipline'
    BY <1>0, <1>22 DEF Oops, TypeOK, SemaphoreDiscipline, Holding, GoTo, Return, call
  <2>3. Pointers'
    BY <1>0, <1>22 DEF Oops, TypeOK, SemaphoreDiscipline, Holding, Pointers, WrapsToNull, GoTo, Return, call
  <2>4. Tested'
    BY <1>0, <1>22 DEF Oops, TypeOK, SemaphoreDiscipline, Holding, Tested, spacefree, GoTo, Return, call
  <2>5. QED
    BY <2>1, <2>2, <2>3, <2>4 DEF IInv
<1>23. ASSUME NEW f \in File, NEW m \in Modes, Open(f, m) PROVE IInv'
  <2>1. TypeOK'
    BY <1>0, <1>23 DEF Open, TypeOK, Location, GoTo, Return, call
  <2>2. SemaphoreDiscipline'
    BY <1>0, <1>23 DEF Open, TypeOK, SemaphoreDiscipline, Holding, GoTo, Return, call
  <2>3. Pointers'
    BY <1>0, <1>23 DEF Open, TypeOK, SemaphoreDiscipline, Holding, Pointers, WrapsToNull, GoTo, Return, call
  <2>4. Tested'
    BY <1>0, <1>23 DEF Open, TypeOK, SemaphoreDiscipline, Holding, Tested, spacefree, GoTo, Return, call
  <2>5. QED
    BY <2>1, <2>2, <2>3, <2>4 DEF IInv
<1>24. ASSUME NEW f \in File, NEW n \in 1 .. MaxCount, Read(f, n) PROVE IInv'
  <2>1. TypeOK'
    BY <1>0, <1>24 DEF Read, TypeOK, Location, GoTo, Return, call
  <2>2. SemaphoreDiscipline'
    BY <1>0, <1>24 DEF Read, TypeOK, SemaphoreDiscipline, Holding, GoTo, Return, call
  <2>3. Pointers'
    BY <1>0, <1>24 DEF Read, TypeOK, SemaphoreDiscipline, Holding, Pointers, WrapsToNull, GoTo, Return, call
  <2>4. Tested'
    BY <1>0, <1>24 DEF Read, TypeOK, SemaphoreDiscipline, Holding, Tested, spacefree, GoTo, Return, call
  <2>5. QED
    BY <2>1, <2>2, <2>3, <2>4 DEF IInv
<1>25. ASSUME NEW f \in File, NEW s \in Messages, Write(f, s) PROVE IInv'
  <2>1. TypeOK'
    <3>1. s \in Seq(Data) /\ Len(s) \in 0 .. MaxCount
      BY DEF Data
    <3>2. QED
      BY <1>0, <1>25, <3>1 DEF Write, TypeOK, Location, GoTo, call
  <2>2. SemaphoreDiscipline'
    BY <1>0, <1>25 DEF Write, TypeOK, SemaphoreDiscipline, Holding, GoTo, Return, call
  <2>3. Pointers'
    BY <1>0, <1>25 DEF Write, TypeOK, SemaphoreDiscipline, Holding, Pointers, WrapsToNull, GoTo, Return, call
  <2>4. Tested'
    BY <1>0, <1>25 DEF Write, TypeOK, SemaphoreDiscipline, Holding, Tested, spacefree, GoTo, Return, call
  <2>5. QED
    BY <2>1, <2>2, <2>3, <2>4 DEF IInv
<1>26. ASSUME NEW f \in File, NEW n \in Sizes, SetSize(f, n) PROVE IInv'
  <2>1. TypeOK'
    BY <1>0, <1>26 DEF SetSize, TypeOK, Location, GoTo, Return, call
  <2>2. SemaphoreDiscipline'
    BY <1>0, <1>26 DEF SetSize, TypeOK, SemaphoreDiscipline, Holding, GoTo, Return, call
  <2>3. Pointers'
    BY <1>0, <1>26 DEF SetSize, TypeOK, SemaphoreDiscipline, Holding, Pointers, WrapsToNull, GoTo, Return, call
  <2>4. Tested'
    BY <1>0, <1>26 DEF SetSize, TypeOK, SemaphoreDiscipline, Holding, Tested, spacefree, GoTo, Return, call
  <2>5. QED
    BY <2>1, <2>2, <2>3, <2>4 DEF IInv
<1>27. ASSUME Clobber PROVE IInv'
  <2>1. TypeOK'
    BY <1>0, <1>27 DEF Clobber, TypeOK, Data, call
  <2>2. SemaphoreDiscipline'
    BY <1>0, <1>27 DEF Clobber, TypeOK, SemaphoreDiscipline, Holding, GoTo, Return, call
  <2>3. Pointers'
    BY <1>0, <1>27 DEF Clobber, TypeOK, SemaphoreDiscipline, Holding, Pointers, WrapsToNull, GoTo, Return, call
  <2>4. Tested'
    BY <1>0, <1>27 DEF Clobber, TypeOK, SemaphoreDiscipline, Holding, Tested, spacefree, GoTo, Return, call
  <2>5. QED
    BY <2>1, <2>2, <2>3, <2>4 DEF IInv
<1>28. CASE UNCHANGED vars
  <2>1. TypeOK'
    BY <1>0, <1>28 DEF vars, TypeOK, Location, GoTo, Return, call
  <2>2. SemaphoreDiscipline'
    BY <1>0, <1>28 DEF vars, TypeOK, SemaphoreDiscipline, Holding, GoTo, Return, call
  <2>3. Pointers'
    BY <1>0, <1>28 DEF vars, TypeOK, SemaphoreDiscipline, Holding, Pointers, WrapsToNull, GoTo, Return, call
  <2>4. Tested'
    BY <1>0, <1>28 DEF vars, TypeOK, SemaphoreDiscipline, Holding, Tested, spacefree, GoTo, Return, call
  <2>5. QED
    BY <2>1, <2>2, <2>3, <2>4 DEF IInv
<1>29. ASSUME NEW f \in File, ReadCopy(f) PROVE IInv'
  <2> DEFINE n == Least(count[f], Readable)
  <2>1. /\ pc[f] = "r_copy"
        /\ count' = [count EXCEPT ![f] = n]
        /\ ubuf' = [ubuf EXCEPT ![f] = [i \in 1 .. n |-> cell[rp + i - 1]]]
        /\ rp' = rp + n /\ wp' = wp
        /\ pc' = [pc EXCEPT ![f] = "r_wrap"]
    BY <1>29 DEF ReadCopy, GoTo
  <2>2. /\ buffersize \in Nat \ {0} /\ buffersize <= MaxSize
        /\ rp \in Nat /\ rp < buffersize
        /\ wp \in Nat /\ wp < buffersize
    BY <2>1, PointersAtRest DEF IInv, SemaphoreDiscipline, Holding
  <2>3. Readable \in Nat \ {0} /\ rp + Readable <= buffersize
    BY <2>1, ReadWindow
  <2>4. n \in 0 .. MaxCount /\ n <= Readable /\ rp + n <= buffersize
    BY <1>0, <2>2, <2>3 DEF TypeOK, Least
  <2>5. TypeOK'
    <3> DEFINE taken == [i \in 1 .. n |-> cell[rp + i - 1]]
    <3> HIDE DEF n
    <3>1. taken \in Seq(Data)
      <4>1. \A i \in 1 .. n : rp + i - 1 \in 0 .. MaxSize - 1
        BY <2>2, <2>4
      <4>2. \A i \in 1 .. n : cell[rp + i - 1] \in Data
        BY <1>0, <4>1 DEF TypeOK
      <4>3. QED
        BY <2>4, <4>2
    <3>2. rp + n \in 0 .. MaxSize
      BY <2>2, <2>4
    <3> HIDE DEF taken
    <3>3. /\ ubuf' \in [File -> Seq(Data)] /\ count' \in [File -> 0 .. MaxCount]
          /\ pc' \in [File -> Location]
      BY <1>0, <2>1, <2>4, <3>1 DEF TypeOK, Location, taken
    <3>4. QED
      BY <1>0, <1>29, <2>1, <3>2, <3>3 DEF ReadCopy, TypeOK
  <2>6. SemaphoreDiscipline'
    BY <1>0, <1>29 DEF ReadCopy, TypeOK, SemaphoreDiscipline, Holding, GoTo
  <2>7. Pointers'
    <3>1. pc'[f] = "r_wrap"
      BY <1>0, <2>1 DEF TypeOK
    <3>2. QED
      BY <1>29, <2>2, <2>4, <2>1, <3>1 DEF ReadCopy, Pointers
  <2>8. Tested'
    BY <1>0, <1>29 DEF ReadCopy, TypeOK, SemaphoreDiscipline, Holding, Tested, GoTo
  <2>9. QED
    BY <2>5, <2>6, <2>7, <2>8 DEF IInv
<1>30. ASSUME NEW f \in File, WriteCopy(f) PROVE IInv'
  <2> DEFINE n == Least(count[f], Writable)
  <2>1. /\ pc[f] = "w_copy"
        /\ count' = [count EXCEPT ![f] = n]
        /\ cell' = Stored(f, n)
        /\ wp' = wp + n /\ rp' = rp
        /\ pc' = [pc EXCEPT ![f] = "w_wrap"]
    BY <1>30 DEF WriteCopy, GoTo
  <2>2. /\ buffersize \in Nat \ {0} /\ buffersize <= MaxSize
        /\ rp \in Nat /\ rp < buffersize
        /\ wp \in Nat /\ wp < buffersize
    BY <2>1, PointersAtRest DEF IInv, SemaphoreDiscipline, Holding
  <2>3. Writable \in Nat \ {0} /\ wp + Writable <= buffersize
    BY <2>1, WriteWindow
  <2>4. n \in 0 .. MaxCount /\ n <= count[f] /\ n <= Writable /\ wp + n <= buffersize
    BY <1>0, <2>2, <2>3 DEF TypeOK, Least
  <2>5. TypeOK'
    <3>1. cell' \in [0 .. MaxSize - 1 -> Data]
      <4>1. Stored(f, n) \in [0 .. MaxSize - 1 -> Data]
        BY <2>1, <2>4, StoredType
      <4>2. QED
        BY <2>1, <4>1
    <3>2. wp + n \in 0 .. MaxSize
      BY <2>2, <2>4
    <3>3. QED
      BY <1>0, <2>1, <2>4, <3>1, <3>2, <1>30 DEF WriteCopy, TypeOK, Location, GoTo
  <2>6. SemaphoreDiscipline'
    BY <1>0, <1>30 DEF WriteCopy, TypeOK, SemaphoreDiscipline, Holding, GoTo
  <2>7. Pointers'
    <3>1. pc'[f] = "w_wrap"
      BY <1>0, <2>1 DEF TypeOK
    <3>2. QED
      BY <1>30, <2>2, <2>4, <2>1, <3>1 DEF WriteCopy, Pointers
  <2>8. Tested'
    BY <1>0, <1>30 DEF WriteCopy, TypeOK, SemaphoreDiscipline, Holding, Tested, GoTo
  <2>9. QED
    BY <2>5, <2>6, <2>7, <2>8 DEF IInv
<1>31. ASSUME NEW f \in File, CopyFault(f) PROVE IInv'
  <2>1. cell' \in [0 .. MaxSize - 1 -> Data]
    <3>1. CASE pc[f] = "w_copy"
      <4>1. PICK k \in 0 .. Least(count[f], Writable) - 1 : cell' = Stored(f, k)
        BY <1>31, <3>1 DEF CopyFault
      <4>2. Writable \in Nat
        BY <3>1, WriteWindow
      <4>3. k \in Nat /\ k <= count[f]
        BY <1>0, <4>2 DEF Least, TypeOK
      <4>4. QED
        BY <3>1, <4>1, <4>3, StoredType
    <3>2. CASE pc[f] # "w_copy"
      BY <1>0, <1>31, <3>2 DEF CopyFault, TypeOK
    <3>3. QED
      BY <3>1, <3>2
  <2>2. TypeOK'
    BY <1>0, <1>31, <2>1 DEF CopyFault, TypeOK, Location, GoTo, Return
  <2>3. SemaphoreDiscipline'
    BY <1>0, <1>31 DEF CopyFault, TypeOK, SemaphoreDiscipline, Holding, GoTo, Return
  <2>4. Pointers'
    BY <1>0, <1>31 DEF CopyFault, TypeOK, SemaphoreDiscipline, Holding, Pointers, GoTo, Return
  <2>5. Tested'
    BY <1>0, <1>31 DEF CopyFault, TypeOK, SemaphoreDiscipline, Holding, Tested, spacefree, GoTo, Return
  <2>6. QED
    BY <2>2, <2>3, <2>4, <2>5 DEF IInv
<1>32. QED
  BY <1>1, <1>2, <1>3, <1>4, <1>5, <1>6, <1>7, <1>8, <1>9, <1>10, <1>11, <1>12, <1>13, <1>14, <1>15, <1>16,
     <1>17, <1>18, <1>19, <1>20, <1>21, <1>22, <1>23, <1>24, <1>25, <1>26, <1>27, <1>28, <1>29, <1>30, <1>31
     DEF Next, Calls, Steps, Opens

LEMMA Invariance == Spec => []IInv
  BY InitIInv, StepIInv, PTL DEF Spec

(* Every reachable state of the pipe is well typed: in particular rp and   *)
(* wp never leave the largest buffer, and count never grows in a call.     *)
THEOREM TypeCorrect == Spec => []TypeOK
<1>1. IInv => TypeOK
  BY DEF IInv
<1>2. QED
  BY <1>1, Invariance, PTL

(* dev->sem is held exactly by the process between a down and its up, on   *)
(* every path of open, release, read, write and poll.                      *)
THEOREM MutualExclusion == Spec => []SemaphoreDiscipline
<1>1. IInv => SemaphoreDiscipline
  BY DEF IInv
<1>2. QED
  BY <1>1, Invariance, PTL

(* Every copy_to_user and copy_from_user of scull_p_read and scull_p_write *)
(* stays between dev->buffer and dev->end, and no write makes the full     *)
(* pipe look empty.                                                        *)
THEOREM CopyWindow == Spec => []CopiesInsideBuffer
<1>1. IInv => CopiesInsideBuffer
  <2> SUFFICES ASSUME IInv, NEW f \in File
      PROVE  /\ pc[f] = "r_copy" =>
                    LET n == Least(count[f], Readable) IN
                    n \in 1 .. Filled /\ rp + n <= buffersize
             /\ pc[f] = "w_copy" =>
                    LET n == Least(count[f], Writable) IN
                    n >= 1 /\ wp + n <= buffersize /\ Filled + n < buffersize
    BY DEF CopiesInsideBuffer
  <2>1. count[f] \in Nat
    BY PipeAssumption DEF IInv, TypeOK
  <2>2. CASE pc[f] = "r_copy"
    <3>1. count[f] >= 1
      BY <2>2 DEF IInv, Tested
    <3>2. /\ Readable \in Nat \ {0} /\ rp + Readable <= buffersize /\ Readable <= Filled
          /\ buffersize \in Nat /\ rp \in Nat /\ Filled \in Int
      BY <2>2, ReadWindow, PointersAtRest, FilledBytes DEF IInv, SemaphoreDiscipline, Holding
    <3>3. QED
      BY <2>1, <2>2, <3>1, <3>2 DEF Least
  <2>3. CASE pc[f] = "w_copy"
    <3>1. count[f] >= 1
      BY <2>3 DEF IInv, Tested
    <3>2. /\ Writable \in Nat \ {0} /\ wp + Writable <= buffersize /\ Filled + Writable < buffersize
          /\ buffersize \in Nat /\ wp \in Nat /\ Filled \in Int
      BY <2>3, WriteWindow, PointersAtRest, FilledBytes DEF IInv, SemaphoreDiscipline, Holding
    <3>3. QED
      BY <2>1, <2>3, <3>1, <3>2 DEF Least
  <2>4. QED
    BY <2>2, <2>3
<1>2. QED
  BY <1>1, Invariance, PTL

-----------------------------------------------------------------------------
Coming == {"w_wrap", "w_wake", "oops"}

(* A step that leaves the pipe alone, puts nobody to sleep for data and    *)
(* takes no writer off its way to the wake-up loses no wake-up.            *)
LEMMA Calm ==
    ASSUME NoLostWakeup, UNCHANGED <<rp, wp, buffersize>>,
           \A h \in File : SleepsForData(h)' => SleepsForData(h),
           \A g \in File : pc[g] \in Coming => pc'[g] \in Coming
    PROVE  NoLostWakeup'
  BY DEF NoLostWakeup, Filled, Coming

LEMMA NoDistance ==
    ASSUME NEW b \in Nat, NEW p \in Nat
    PROVE  b # 0 => (p - p + b) % b = 0
<1>1. p - p + b = b /\ (b # 0 => b % b = b - b)
  BY ModOnce
<1>2. QED
  BY <1>1

LEMMA EmptyPipe == buffersize' \in Nat /\ rp' \in Nat /\ wp' = rp' => ~(Filled' > 0)
<1> SUFFICES ASSUME buffersize' \in Nat, rp' \in Nat, wp' = rp' PROVE ~(Filled' > 0)
  OBVIOUS
<1>1. buffersize' # 0 => (wp' - rp' + buffersize') % buffersize' = 0
  BY NoDistance
<1>2. Filled' = 0
  BY <1>1 DEF Filled
<1>3. QED
  BY <1>2

LEMMA StepWake == IInv /\ NoLostWakeup /\ [Next]_vars => NoLostWakeup'
<1> SUFFICES ASSUME IInv, NoLostWakeup, [Next]_vars PROVE NoLostWakeup'
  OBVIOUS
<1> USE PipeAssumption DEF device, waiting, call
<1>0. TypeOK /\ SemaphoreDiscipline /\ Pointers
  BY DEF IInv
<1>1. ASSUME NEW f \in File, Interrupted(f) PROVE NoLostWakeup'
  BY <1>0, <1>1, Calm DEF Interrupted, TypeOK, SleepsForData, Coming, GoTo, Return
<1>2. ASSUME NEW f \in File, Close(f) PROVE NoLostWakeup'
  BY <1>0, <1>2, Calm DEF Close, TypeOK, SleepsForData, Coming, GoTo, Return
<1>3. ASSUME NEW f \in File, Release(f) PROVE NoLostWakeup'
  BY <1>0, <1>3, Calm DEF Release, TypeOK, SleepsForData, Coming, GoTo, Return
<1>4. ASSUME NEW f \in File, ReadDown(f) PROVE NoLostWakeup'
  BY <1>0, <1>4, Calm DEF ReadDown, TypeOK, SleepsForData, Coming, GoTo, Return
<1>5. ASSUME NEW f \in File, ReadQueue(f) PROVE NoLostWakeup'
  BY <1>0, <1>5, Calm DEF ReadQueue, TypeOK, SleepsForData, Coming, GoTo, Return
<1>6. ASSUME NEW f \in File, ReadSleep(f) PROVE NoLostWakeup'
  BY <1>0, <1>6, Calm DEF ReadSleep, TypeOK, SleepsForData, Coming, GoTo, Return
<1>7. ASSUME NEW f \in File, ReadWake(f) PROVE NoLostWakeup'
  BY <1>0, <1>7, Calm DEF ReadWake, TypeOK, SleepsForData, Coming, GoTo, Return
<1>8. ASSUME NEW f \in File, WriteDown(f) PROVE NoLostWakeup'
  BY <1>0, <1>8, Calm DEF WriteDown, TypeOK, SleepsForData, Coming, GoTo, Return
<1>9. ASSUME NEW f \in File, WriteQueue(f) PROVE NoLostWakeup'
  BY <1>0, <1>9, Calm DEF WriteQueue, TypeOK, SleepsForData, Coming, GoTo, Return
<1>10. ASSUME NEW f \in File, WriteTest(f) PROVE NoLostWakeup'
  BY <1>0, <1>10, Calm DEF WriteTest, TypeOK, SleepsForData, Coming, GoTo, Return
<1>11. ASSUME NEW f \in File, WriteSleep(f) PROVE NoLostWakeup'
  BY <1>0, <1>11, Calm DEF WriteSleep, TypeOK, SleepsForData, Coming, GoTo, Return
<1>12. ASSUME NEW f \in File, WriteFinish(f) PROVE NoLostWakeup'
  BY <1>0, <1>12, Calm DEF WriteFinish, TypeOK, SleepsForData, Coming, GoTo, Return
<1>13. ASSUME NEW f \in File, Poll(f) PROVE NoLostWakeup'
  BY <1>0, <1>13, Calm DEF Poll, TypeOK, SleepsForData, Coming, GoTo, Return
<1>14. ASSUME NEW f \in File, PollSleep(f) PROVE NoLostWakeup'
  BY <1>0, <1>14, Calm DEF PollSleep, TypeOK, SleepsForData, Coming, GoTo, Return
<1>15. ASSUME NEW f \in File, Fasync(f) PROVE NoLostWakeup'
  BY <1>0, <1>15, Calm DEF Fasync, TypeOK, SleepsForData, Coming, GoTo, Return
<1>16. ASSUME NEW f \in File, Signal(f) PROVE NoLostWakeup'
  BY <1>0, <1>16, Calm DEF Signal, TypeOK, SleepsForData, Coming, GoTo, Return
<1>17. ASSUME NEW f \in File, CopyFault(f) PROVE NoLostWakeup'
  BY <1>0, <1>17, Calm DEF CopyFault, TypeOK, SleepsForData, Coming, GoTo, Return
<1>18. ASSUME NEW f \in File, NEW n \in 1 .. MaxCount, Read(f, n) PROVE NoLostWakeup'
  BY <1>0, <1>18, Calm DEF Read, TypeOK, SleepsForData, Coming, GoTo, Return
<1>19. ASSUME NEW f \in File, NEW s \in Messages, Write(f, s) PROVE NoLostWakeup'
  BY <1>0, <1>19, Calm DEF Write, TypeOK, SleepsForData, Coming, GoTo, Return
<1>20. ASSUME NEW f \in File, NEW n \in Sizes, SetSize(f, n) PROVE NoLostWakeup'
  BY <1>0, <1>20, Calm DEF SetSize, TypeOK, SleepsForData, Coming, GoTo, Return
<1>21. ASSUME Clobber PROVE NoLostWakeup'
  BY <1>0, <1>21, Calm DEF Clobber, TypeOK, SleepsForData, Coming, GoTo, Return
<1>22. CASE UNCHANGED vars
  BY <1>0, <1>22, Calm DEF vars, SleepsForData, Coming
<1>23. ASSUME NEW f \in File, ReadTest(f) PROVE NoLostWakeup'
  <2>1. CASE rp = wp
    BY <1>0, <1>23, <2>1, EmptyPipe DEF ReadTest, NoLostWakeup, TypeOK
  <2>2. CASE rp # wp
    BY <1>0, <1>23, <2>2, Calm DEF ReadTest, TypeOK, SleepsForData, Coming, GoTo
  <2>3. QED
    BY <2>1, <2>2
<1>24. ASSUME NEW f \in File, PollMask(f) PROVE NoLostWakeup'
  <2>1. CASE rp = wp
    BY <1>0, <1>24, <2>1, EmptyPipe DEF PollMask, NoLostWakeup, TypeOK
  <2>2. CASE rp # wp
    BY <1>0, <1>24, <2>2, Calm DEF PollMask, Ready, TypeOK, SleepsForData, Coming, GoTo, Return
  <2>3. QED
    BY <2>1, <2>2
<1>25. ASSUME NEW f \in File, WriteWake(f) PROVE NoLostWakeup'
  BY <1>25 DEF WriteWake, NoLostWakeup, SleepsForData
<1>26. ASSUME NEW f \in File, WriteCopy(f) PROVE NoLostWakeup'
  BY <1>0, <1>26 DEF WriteCopy, NoLostWakeup, GoTo, TypeOK
<1>27. ASSUME NEW f \in File, WriteWrap(f) PROVE NoLostWakeup'
  BY <1>0, <1>27 DEF WriteWrap, NoLostWakeup, GoTo, TypeOK
<1>28. ASSUME NEW f \in File, Oops(f) PROVE NoLostWakeup'
  BY <1>0, <1>28 DEF Oops, NoLostWakeup, GoTo, TypeOK
<1>29. ASSUME NEW f \in File, NEW m \in Modes, Open(f, m) PROVE NoLostWakeup'
  BY <1>0, <1>29, EmptyPipe DEF Open, NoLostWakeup, TypeOK
<1>30. ASSUME NEW f \in File, ReadCopy(f) PROVE NoLostWakeup'
  <2>1. Filled > 0
    BY <1>30, ReadWindow, PointersAtRest, FilledBytes DEF ReadCopy, IInv, SemaphoreDiscipline, Holding
  <2>2. \A h \in File : SleepsForData(h)' => SleepsForData(h)
    BY <1>0, <1>30 DEF ReadCopy, SleepsForData, GoTo, TypeOK
  <2>3. QED
    BY <1>0, <1>30, <2>1, <2>2 DEF ReadCopy, NoLostWakeup, GoTo, TypeOK
<1>31. ASSUME NEW f \in File, ReadWrap(f) PROVE NoLostWakeup'
  <2>1. /\ buffersize \in Nat \ {0} /\ rp \in Nat /\ wp \in Nat
        /\ rp <= buffersize /\ wp < buffersize
    BY <1>0, <1>31 DEF ReadWrap, TypeOK, Pointers, SemaphoreDiscipline, Holding
  <2>2. Filled' = Filled
    BY <1>31, <2>1, Distance DEF ReadWrap, Filled
  <2>3. \A h \in File : SleepsForData(h)' => SleepsForData(h)
    BY <1>0, <1>31 DEF ReadWrap, SleepsForData, GoTo, TypeOK
  <2>4. QED
    BY <1>0, <1>31, <2>2, <2>3 DEF ReadWrap, NoLostWakeup, GoTo, TypeOK
<1>32. QED
  BY <1>1, <1>2, <1>3, <1>4, <1>5, <1>6, <1>7, <1>8, <1>9, <1>10, <1>11, <1>12, <1>13, <1>14, <1>15, <1>16, <1>17, <1>18, <1>19, <1>20, <1>21, <1>22, <1>23, <1>24, <1>25, <1>26, <1>27, <1>28, <1>29, <1>30, <1>31
     DEF Next, Calls, Steps, Opens

(* The lost wake-up test made without the semaphore: whatever the processes *)
(* do, none sleeps for data beside a pipe that holds some with no writer    *)
(* left to wake it.                                                         *)
THEOREM NoWakeupIsLost == Spec => []NoLostWakeup
<1>1. Init => NoLostWakeup
  BY DEF Init, NoLostWakeup, SleepsForData
<1>2. QED
  BY <1>1, Invariance, StepWake, PTL DEF Spec

-----------------------------------------------------------------------------
(* The bytes of a ring of b places from r to w, without remainders.  One   *)
(* pointer may be at the end, as between an advance and its wrap.          *)
Ring(r, w, b) ==
    /\ b \in Nat \ {0} /\ b <= MaxSize
    /\ r \in 0 .. b /\ w \in 0 .. b
    /\ r = b => w < b
    /\ w = b => r # 0

Dist(r, w, b) == IF w >= r THEN w - r ELSE w - r + b
Spot(k, b) == IF k < b THEN k ELSE k - b
BytesOf(r, w, b, c) == [i \in 1 .. Dist(r, w, b) |-> c[Spot(r + i - 1, b)]]
Cells == [0 .. MaxSize - 1 -> Data]

LEMMA BytesInRing ==
    ASSUME NEW r, NEW w, NEW b, NEW c, Ring(r, w, b)
    PROVE  /\ (w - r + b) % b = Dist(r, w, b)
           /\ [i \in 1 .. (IF b = 0 THEN 0 ELSE (w - r + b) % b) |-> c[(r + i - 1) % b]] = BytesOf(r, w, b, c)
<1>1. b \in Nat /\ b # 0 /\ r \in Nat /\ w \in Nat /\ r <= b /\ w <= b
  BY DEF Ring
<1>2. (w - r + b) % b = Dist(r, w, b) /\ Dist(r, w, b) \in 0 .. b - 1
  <2>1. CASE w < b
    BY <1>1, <2>1, Distance DEF Dist
  <2>2. CASE w = b
    <3>1. w - r + b \in Nat /\ b <= w - r + b /\ w - r + b < b + b /\ w - r = (w - r + b) - b
      BY <1>1, <2>2 DEF Ring
    <3>2. (w - r + b) % b = w - r
      BY <1>1, <3>1, ModOnce
    <3>3. QED
      BY <1>1, <2>2, <3>1, <3>2 DEF Dist, Ring
  <2>3. QED
    BY <1>1, <2>1, <2>2
<1>3. ASSUME NEW i \in 1 .. Dist(r, w, b)
      PROVE  (r + i - 1) % b = Spot(r + i - 1, b)
  <2> DEFINE x == r + i - 1
  <2>1. x \in Nat /\ x < b + b
    BY <1>1, <1>2
  <2> HIDE DEF x
  <2>2. /\ x < b => x % b = x
        /\ b <= x => x % b = x - b
    BY <1>1, <2>1, ModOnce
  <2>3. x % b = Spot(x, b)
    BY <1>1, <2>1, <2>2 DEF Spot
  <2>4. QED
    BY <2>3 DEF x
<1>4. QED
  BY <1>1, <1>2, <1>3 DEF BytesOf

LEMMA Sequence ==
    ASSUME NEW r, NEW w, NEW b, NEW c \in Cells, Ring(r, w, b)
    PROVE  /\ BytesOf(r, w, b, c) \in Seq(Data) /\ Len(BytesOf(r, w, b, c)) = Dist(r, w, b)
           /\ Dist(r, w, b) \in 0 .. b - 1
           /\ \A i \in 1 .. Dist(r, w, b) : /\ Spot(r + i - 1, b) \in 0 .. b - 1
                                            /\ BytesOf(r, w, b, c)[i] = c[Spot(r + i - 1, b)]
<1>1. b \in Nat /\ b # 0 /\ r \in Nat /\ w \in Nat /\ r <= b /\ w <= b /\ b <= MaxSize /\ MaxSize \in Nat
  BY PipeAssumption DEF Ring
<1>2. Dist(r, w, b) \in 0 .. b - 1 /\ Dist(r, w, b) \in Nat
  BY <1>1 DEF Dist, Ring
<1>3. \A i \in 1 .. Dist(r, w, b) : Spot(r + i - 1, b) \in 0 .. b - 1 /\ Spot(r + i - 1, b) \in 0 .. MaxSize - 1
  BY <1>1, <1>2 DEF Spot
<1>4. \A i \in 1 .. Dist(r, w, b) : c[Spot(r + i - 1, b)] \in Data
  BY <1>3 DEF Cells
<1>5. QED
  BY <1>2, <1>3, <1>4 DEF BytesOf

(* The cells d are c with the first n bytes of u stored from w on.         *)
Stores(c, d, w, n, u) ==
    \A i \in 0 .. MaxSize - 1 : d[i] = IF i \in w .. w + n - 1 THEN u[i - w + 1] ELSE c[i]

(* What is stored behind the bytes does not change them.                   *)
LEMMA Untouched ==
    ASSUME NEW r, NEW w, NEW b, NEW c \in Cells, NEW d \in Cells, NEW n \in Nat, NEW u,
           Ring(r, w, b), r < b, w < b, w + n <= b, Dist(r, w, b) + n < b, Stores(c, d, w, n, u)
    PROVE  \A i \in 1 .. Dist(r, w, b) : d[Spot(r + i - 1, b)] = c[Spot(r + i - 1, b)]
<1> SUFFICES ASSUME NEW i \in 1 .. Dist(r, w, b)
             PROVE  d[Spot(r + i - 1, b)] = c[Spot(r + i - 1, b)]
  OBVIOUS
<1>1. /\ b \in Nat /\ b # 0 /\ r \in Nat /\ w \in Nat /\ b <= MaxSize /\ MaxSize \in Nat
      /\ Dist(r, w, b) \in Nat
  BY PipeAssumption DEF Ring, Dist
<1>2. Spot(r + i - 1, b) \in 0 .. MaxSize - 1 /\ Spot(r + i - 1, b) \notin w .. w + n - 1
  BY <1>1 DEF Spot, Dist
<1>3. QED
  BY <1>2 DEF Stores

(* Storing n bytes of u at w stays clear of the bytes from r on, ...       *)
Fits(r, w, b, n, u) ==
    /\ Ring(r, w, b) /\ r < b /\ w < b
    /\ n \in Nat \ {0} /\ w + n <= b /\ Dist(r, w, b) + n < b
    /\ u \in Seq(Data) /\ n <= Len(u)

(* ... and puts them behind those.                                         *)
Extended(r, w, b, n, u, c, d) ==
    /\ Ring(r, w + n, b)
    /\ BytesOf(r, w + n, b, d) = BytesOf(r, w, b, c) \o SubSeq(u, 1, n)

LEMMA Appended ==
    ASSUME NEW r, NEW w, NEW b, NEW c \in Cells, NEW d \in Cells, NEW n, NEW u,
           Fits(r, w, b, n, u), Stores(c, d, w, n, u)
    PROVE  Extended(r, w, b, n, u, c, d)
<1> USE DEF Fits
<1> DEFINE m == Dist(r, w, b)
           s == BytesOf(r, w, b, c)
           t == BytesOf(r, w + n, b, d)
           v == SubSeq(u, 1, n)
<1>1. /\ b \in Nat /\ b # 0 /\ r \in Nat /\ w \in Nat /\ b <= MaxSize /\ MaxSize \in Nat /\ n \in Nat
      /\ m \in Nat
  BY PipeAssumption DEF Ring, Dist
<1>2. Ring(r, w + n, b) /\ Dist(r, w + n, b) = m + n
  BY <1>1 DEF Ring, Dist
<1>3. /\ s \in Seq(Data) /\ Len(s) = m
      /\ \A i \in 1 .. m : s[i] = c[Spot(r + i - 1, b)]
  BY Sequence
<1>4. /\ t \in Seq(Data) /\ Len(t) = m + n
      /\ \A i \in 1 .. m + n : t[i] = d[Spot(r + i - 1, b)]
  BY <1>2, Sequence
<1>5. v \in Seq(Data) /\ Len(v) = n /\ \A i \in 1 .. n : v[i] = u[i]
  <2>1. 1 \in 1 .. Len(u) + 1 /\ n \in 1 - 1 .. Len(u)
    BY <1>1
  <2>2. QED
    BY <1>1, <2>1, SubSeqProperties
<1>6. \A i \in 1 .. m : d[Spot(r + i - 1, b)] = c[Spot(r + i - 1, b)]
  BY <1>1, Untouched
<1>7. \A i \in 1 .. n : /\ Spot(r + (m + i) - 1, b) = w + i - 1
                        /\ w + i - 1 \in 0 .. MaxSize - 1 /\ w + i - 1 \in w .. w + n - 1
                        /\ (w + i - 1) - w + 1 = i
  BY <1>1 DEF Spot, Dist
<1>8. \A i \in 1 .. n : d[w + i - 1] = u[i]
  BY <1>7 DEF Stores
<1> HIDE DEF m, s, t, v
<1>9. s \o v \in Seq(Data) /\ Len(s \o v) = m + n
  BY <1>1, <1>3, <1>5
<1>10. \A i \in 1 .. m + n : t[i] = (s \o v)[i]
  <2> SUFFICES ASSUME NEW i \in 1 .. m + n PROVE t[i] = (s \o v)[i]
    OBVIOUS
  <2>1. CASE i <= m
    <3>1. (s \o v)[i] = s[i] /\ i \in 1 .. m
      BY <1>1, <1>3, <1>5, <2>1
    <3>2. QED
      BY <1>3, <1>4, <1>6, <3>1 DEF m
  <2>2. CASE i > m
    <3>1. (s \o v)[i] = v[i - m] /\ i - m \in 1 .. n /\ m + (i - m) = i
      BY <1>1, <1>3, <1>5, <2>2
    <3>2. Spot(r + i - 1, b) = w + (i - m) - 1
      BY <1>7, <3>1
    <3>3. d[w + (i - m) - 1] = u[i - m] /\ v[i - m] = u[i - m]
      BY <1>5, <1>8, <3>1
    <3>4. QED
      BY <1>4, <3>1, <3>2, <3>3
  <2>3. i <= m \/ i > m
    BY <1>1
  <2>4. QED
    BY <2>1, <2>2, <2>3, Zenon
<1>11. t = s \o v
  BY <1>4, <1>9, <1>10, SeqEqual
<1>12. QED
  BY <1>2, <1>11 DEF s, t, v, Extended

(* A read takes the oldest bytes of the pipe.                              *)
LEMMA Removed ==
    ASSUME NEW r, NEW w, NEW b, NEW c \in Cells, NEW n \in Nat \ {0},
           Ring(r, w, b), r < b, w < b, n <= Dist(r, w, b), r + n <= b
    PROVE  /\ Ring(r + n, w, b)
           /\ [i \in 1 .. n |-> c[r + i - 1]] = SubSeq(BytesOf(r, w, b, c), 1, n)
           /\ BytesOf(r + n, w, b, c) = SubSeq(BytesOf(r, w, b, c), n + 1, Len(BytesOf(r, w, b, c)))
<1> DEFINE m == Dist(r, w, b)
           s == BytesOf(r, w, b, c)
           t == BytesOf(r + n, w, b, c)
           v == SubSeq(s, 1, n)
           x == SubSeq(s, n + 1, Len(s))
           g == [i \in 1 .. n |-> c[r + i - 1]]
<1>1. /\ b \in Nat /\ b # 0 /\ r \in Nat /\ w \in Nat /\ b <= MaxSize /\ MaxSize \in Nat /\ n \in Nat
      /\ m \in Nat /\ n <= m
  BY PipeAssumption DEF Ring, Dist
<1>2. Ring(r + n, w, b) /\ Dist(r + n, w, b) = m - n
  BY <1>1 DEF Ring, Dist
<1>3. /\ s \in Seq(Data) /\ Len(s) = m
      /\ \A i \in 1 .. m : s[i] = c[Spot(r + i - 1, b)]
  BY Sequence
<1>4. /\ t \in Seq(Data) /\ Len(t) = m - n
      /\ \A i \in 1 .. m - n : t[i] = c[Spot((r + n) + i - 1, b)]
  BY <1>2, Sequence
<1>5. \A i \in 1 .. n : Spot(r + i - 1, b) = r + i - 1
  BY <1>1 DEF Spot
<1>6. \A i \in 1 .. m - n : (r + n) + i - 1 = r + (n + i) - 1 /\ n + i \in 1 .. m
  BY <1>1
<1>7. \A i \in 1 .. n : r + i - 1 \in 0 .. MaxSize - 1
  BY <1>1
<1>8. g \in Seq(Data) /\ Len(g) = n /\ \A i \in 1 .. n : g[i] = c[r + i - 1]
  BY <1>1, <1>7 DEF Cells
<1> HIDE DEF m, s, t, g
<1>9. v \in Seq(Data) /\ Len(v) = n /\ \A i \in 1 .. n : v[i] = s[i]
  <2>1. \A i \in 1 .. n : s[i] \in Data
    BY <1>1, <1>3
  <2>2. \A i \in 1 .. n - 1 + 1 : v[i] = s[1 + i - 1]
    BY <1>1, <2>1, SubSeqProperties
  <2>3. v \in Seq(Data) /\ Len(v) = IF 1 <= n THEN n - 1 + 1 ELSE 0
    BY <1>1, <2>1, SubSeqProperties
  <2>4. QED
    BY <1>1, <2>2, <2>3
<1>10. x \in Seq(Data) /\ Len(x) = m - n /\ \A i \in 1 .. m - n : x[i] = s[n + i]
  <2>1. \A i \in n + 1 .. m : s[i] \in Data
    BY <1>1, <1>3
  <2>2. \A i \in 1 .. m - (n + 1) + 1 : x[i] = s[(n + 1) + i - 1]
    BY <1>1, <1>3, <2>1, SubSeqProperties
  <2>3. x \in Seq(Data) /\ Len(x) = IF n + 1 <= m THEN m - (n + 1) + 1 ELSE 0
    BY <1>1, <1>3, <2>1, SubSeqProperties
  <2>4. \A i \in 1 .. m - n : i \in 1 .. m - (n + 1) + 1 /\ (n + 1) + i - 1 = n + i
    BY <1>1
  <2>5. QED
    BY <1>1, <2>2, <2>3, <2>4
<1> HIDE DEF v, x
<1>11. g = v
  <2>1. \A i \in 1 .. n : g[i] = v[i]
    BY <1>1, <1>3, <1>5, <1>8, <1>9
  <2>2. QED
    BY <1>8, <1>9, <2>1, SeqEqual
<1>12. t = x
  <2>1. \A i \in 1 .. m - n : t[i] = x[i]
    BY <1>3, <1>4, <1>6, <1>10
  <2>2. QED
    BY <1>4, <1>10, <2>1, SeqEqual
<1>13. QED
  BY <1>2, <1>11, <1>12 DEF g, v, t, x, s

(* A wrap moves a pointer and no bytes.                                    *)
LEMMA ReadWrapped ==
    ASSUME NEW w, NEW b, NEW c, Ring(b, w, b)
    PROVE  Ring(0, w, b) /\ BytesOf(0, w, b, c) = BytesOf(b, w, b, c)
<1>1. b \in Nat /\ b # 0 /\ w \in Nat /\ w < b
  BY DEF Ring
<1>2. Ring(0, w, b) /\ Dist(0, w, b) = w /\ Dist(b, w, b) = w
  BY <1>1 DEF Ring, Dist
<1>3. \A i \in 1 .. w : Spot(0 + i - 1, b) = Spot(b + i - 1, b)
  BY <1>1 DEF Spot
<1>4. QED
  BY <1>2, <1>3 DEF BytesOf

LEMMA WriteWrapped ==
    ASSUME NEW r, NEW b, NEW c, Ring(r, b, b)
    PROVE  Ring(r, 0, b) /\ BytesOf(r, 0, b, c) = BytesOf(r, b, b, c)
<1>1. b \in Nat /\ b # 0 /\ r \in Nat /\ r < b /\ r # 0
  BY DEF Ring
<1>2. Ring(r, 0, b) /\ Dist(r, 0, b) = Dist(r, b, b)
  BY <1>1 DEF Ring, Dist
<1>3. QED
  BY <1>2 DEF BytesOf

-----------------------------------------------------------------------------
(* What a caller's buffer holds outside a call, and that a write which has *)
(* reached the end left a byte free at the start.                          *)
Idle == {"closed", "idle", "c_down"}

Clean ==
    /\ \A f \in File : pc[f] \in Idle => ubuf[f] = <<>>
    /\ \A f \in File : pc[f] = "w_wrap" /\ wp = buffersize => rp # 0

FInv == IInv /\ Clean

LEMMA StepClean == IInv /\ Clean /\ [Next]_vars => Clean'
<1> SUFFICES ASSUME IInv, Clean, [Next]_vars PROVE Clean'
  OBVIOUS
<1> USE PipeAssumption DEF device, waiting, call
<1>0. TypeOK /\ SemaphoreDiscipline
  BY DEF IInv
<1>1. ASSUME NEW f \in File, Close(f) PROVE Clean'
  BY <1>0, <1>1 DEF Close, TypeOK, Clean, Idle, GoTo, Return
<1>2. ASSUME NEW f \in File, ReadQueue(f) PROVE Clean'
  BY <1>0, <1>2 DEF ReadQueue, TypeOK, Clean, Idle, GoTo, Return
<1>3. ASSUME NEW f \in File, ReadSleep(f) PROVE Clean'
  BY <1>0, <1>3 DEF ReadSleep, TypeOK, Clean, Idle, GoTo, Return
<1>4. ASSUME NEW f \in File, WriteQueue(f) PROVE Clean'
  BY <1>0, <1>4 DEF WriteQueue, TypeOK, Clean, Idle, GoTo, Return
<1>5. ASSUME NEW f \in File, WriteTest(f) PROVE Clean'
  BY <1>0, <1>5 DEF WriteTest, TypeOK, Clean, Idle, GoTo, Return
<1>6. ASSUME NEW f \in File, WriteSleep(f) PROVE Clean'
  BY <1>0, <1>6 DEF WriteSleep, TypeOK, Clean, Idle, GoTo, Return
<1>7. ASSUME NEW f \in File, Poll(f) PROVE Clean'
  BY <1>0, <1>7 DEF Poll, TypeOK, Clean, Idle, GoTo, Return
<1>8. ASSUME NEW f \in File, Fasync(f) PROVE Clean'
  BY <1>0, <1>8 DEF Fasync, TypeOK, Clean, Idle, GoTo, Return
<1>9. ASSUME NEW f \in File, Signal(f) PROVE Clean'
  BY <1>0, <1>9 DEF Signal, TypeOK, Clean, Idle, GoTo, Return
<1>10. ASSUME NEW f \in File, Oops(f) PROVE Clean'
  BY <1>0, <1>10 DEF Oops, TypeOK, Clean, Idle, GoTo, Return
<1>11. ASSUME NEW f \in File, Interrupted(f) PROVE Clean'
  BY <1>0, <1>11 DEF Interrupted, TypeOK, Clean, Idle, GoTo, Return
<1>12. ASSUME NEW f \in File, Release(f) PROVE Clean'
  BY <1>0, <1>12 DEF Release, TypeOK, Clean, Idle, GoTo, Return
<1>13. ASSUME NEW f \in File, ReadTest(f) PROVE Clean'
  BY <1>0, <1>13 DEF ReadTest, TypeOK, Clean, Idle, GoTo, Return
<1>14. ASSUME NEW f \in File, ReadWake(f) PROVE Clean'
  BY <1>0, <1>14 DEF ReadWake, TypeOK, Clean, Idle, GoTo, Return
<1>15. ASSUME NEW f \in File, WriteFinish(f) PROVE Clean'
  BY <1>0, <1>15 DEF WriteFinish, TypeOK, Clean, Idle, GoTo, Return
<1>16. ASSUME NEW f \in File, WriteWake(f) PROVE Clean'
  BY <1>0, <1>16 DEF WriteWake, TypeOK, Clean, Idle, GoTo, Return
<1>17. ASSUME NEW f \in File, PollMask(f) PROVE Clean'
  BY <1>0, <1>17 DEF PollMask, TypeOK, Clean, Idle, GoTo, Return
<1>18. ASSUME NEW f \in File, PollSleep(f) PROVE Clean'
  BY <1>0, <1>18 DEF PollSleep, TypeOK, Clean, Idle, GoTo, Return
<1>19. ASSUME NEW f \in File, ReadDown(f) PROVE Clean'
  BY <1>0, <1>19 DEF ReadDown, TypeOK, Clean, Idle, GoTo, Return
<1>20. ASSUME NEW f \in File, WriteDown(f) PROVE Clean'
  BY <1>0, <1>20 DEF WriteDown, TypeOK, Clean, Idle, GoTo, Return
<1>21. ASSUME NEW f \in File, CopyFault(f) PROVE Clean'
  BY <1>0, <1>21 DEF CopyFault, TypeOK, Clean, Idle, GoTo, Return
<1>22. ASSUME NEW f \in File, NEW n \in 1 .. MaxCount, Read(f, n) PROVE Clean'
  BY <1>0, <1>22 DEF Read, TypeOK, Clean, Idle, GoTo
<1>23. ASSUME NEW f \in File, NEW s \in Messages, Write(f, s) PROVE Clean'
  BY <1>0, <1>23 DEF Write, TypeOK, Clean, Idle, GoTo
<1>24. ASSUME NEW f \in File, NEW n \in Sizes, SetSize(f, n) PROVE Clean'
  BY <1>0, <1>24 DEF SetSize, TypeOK, Clean, Idle, GoTo
<1>25. ASSUME Clobber PROVE Clean'
  BY <1>25 DEF Clobber, Clean
<1>26. CASE UNCHANGED vars
  BY <1>26 DEF vars, Clean
<1>27. ASSUME NEW f \in File, ReadCopy(f) PROVE Clean'
  BY <1>0, <1>27 DEF ReadCopy, TypeOK, SemaphoreDiscipline, Holding, Clean, Idle, GoTo
<1>28. ASSUME NEW f \in File, ReadWrap(f) PROVE Clean'
  BY <1>0, <1>28 DEF ReadWrap, TypeOK, SemaphoreDiscipline, Holding, Clean, Idle, GoTo
<1>29. ASSUME NEW f \in File, WriteWrap(f) PROVE Clean'
  BY <1>0, <1>29 DEF WriteWrap, TypeOK, SemaphoreDiscipline, Holding, Clean, Idle, GoTo
<1>30. ASSUME NEW f \in File, NEW m \in Modes, Open(f, m) PROVE Clean'
  BY <1>0, <1>30 DEF Open, TypeOK, SemaphoreDiscipline, Holding, Clean, Idle, GoTo
<1>31. ASSUME NEW f \in File, WriteCopy(f) PROVE Clean'
  <2>1. /\ pc[f] = "w_copy" /\ sem = f
        /\ wp' = wp + Least(count[f], Writable)
        /\ pc' = [pc EXCEPT ![f] = "w_wrap"]
        /\ UNCHANGED <<rp, buffersize, ubuf>>
    BY <1>0, <1>31 DEF WriteCopy, GoTo, SemaphoreDiscipline, Holding
  <2>2. /\ Writable \in Nat \ {0} /\ Filled + Writable < buffersize
        /\ buffersize \in Nat /\ rp \in Nat /\ wp \in Nat /\ rp < buffersize /\ wp < buffersize
    BY <2>1, WriteWindow, PointersAtRest
  <2>3. rp = 0 => Filled = wp
    BY <2>2, FilledBytes
  <2>4. Least(count[f], Writable) <= Writable /\ Least(count[f], Writable) \in Int
    BY <1>0, <2>2 DEF Least, TypeOK
  <2>5. wp' = buffersize' => rp' # 0
    BY <2>1, <2>2, <2>3, <2>4
  <2>6. QED
    BY <1>0, <2>1, <2>5 DEF TypeOK, SemaphoreDiscipline, Holding, Clean, Idle
<1>32. QED
  BY <1>1, <1>2, <1>3, <1>4, <1>5, <1>6, <1>7, <1>8, <1>9, <1>10, <1>11, <1>12, <1>13, <1>14, <1>15, <1>16,
     <1>17, <1>18, <1>19, <1>20, <1>21, <1>22, <1>23, <1>24, <1>25, <1>26, <1>27, <1>28, <1>29, <1>30, <1>31
     DEF Next, Calls, Steps, Opens

-----------------------------------------------------------------------------
(* Steps that leave the pipe alone and end or begin a call, and the rest.  *)
Still == UNCHANGED <<rp, wp, buffersize, buffer, cell>>
Same == Still /\ UNCHANGED <<ubuf, count>>
Ends(f) == ubuf' = [ubuf EXCEPT ![f] = <<>>] /\ count' = [count EXCEPT ![f] = 0]

LEMMA Sorts ==
    ASSUME [Next]_vars
    PROVE  \/ Same
           \/ \E f \in File : Still /\ Ends(f)
           \/ \E f \in File : \/ \E n \in 1 .. MaxCount : Read(f, n)
                              \/ \E t \in Messages : Write(f, t)
                              \/ \E m \in Modes : Open(f, m)
                              \/ Release(f) \/ ReadCopy(f) \/ ReadWrap(f) \/ WriteCopy(f) \/ WriteWrap(f)
                              \/ CopyFault(f)
           \/ Clobber
<1> USE DEF Still, Same, Ends, device, call, Return
<1>1. ASSUME NEW f \in File, Close(f) PROVE Same
  BY <1>1 DEF Close
<1>2. ASSUME NEW f \in File, ReadQueue(f) PROVE Same
  BY <1>2 DEF ReadQueue
<1>3. ASSUME NEW f \in File, ReadSleep(f) PROVE Same
  BY <1>3 DEF ReadSleep
<1>4. ASSUME NEW f \in File, WriteQueue(f) PROVE Same
  BY <1>4 DEF WriteQueue
<1>5. ASSUME NEW f \in File, WriteTest(f) PROVE Same
  BY <1>5 DEF WriteTest
<1>6. ASSUME NEW f \in File, WriteSleep(f) PROVE Same
  BY <1>6 DEF WriteSleep
<1>7. ASSUME NEW f \in File, Poll(f) PROVE Same
  BY <1>7 DEF Poll
<1>8. ASSUME NEW f \in File, Fasync(f) PROVE Same
  BY <1>8 DEF Fasync
<1>9. ASSUME NEW f \in File, Signal(f) PROVE Same
  BY <1>9 DEF Signal
<1>10. ASSUME NEW f \in File, Oops(f) PROVE Same
  BY <1>10 DEF Oops
<1>11. ASSUME NEW f \in File, NEW n \in Sizes, SetSize(f, n) PROVE Same
  BY <1>11 DEF SetSize
<1>12. CASE UNCHANGED vars
  BY <1>12 DEF vars
<1>13. ASSUME NEW f \in File, Interrupted(f) PROVE Same \/ (Still /\ Ends(f))
  BY <1>13 DEF Interrupted
<1>14. ASSUME NEW f \in File, ReadTest(f) PROVE Same \/ (Still /\ Ends(f))
  BY <1>14 DEF ReadTest
<1>15. ASSUME NEW f \in File, ReadWake(f) PROVE Same \/ (Still /\ Ends(f))
  BY <1>15 DEF ReadWake
<1>16. ASSUME NEW f \in File, WriteFinish(f) PROVE Same \/ (Still /\ Ends(f))
  BY <1>16 DEF WriteFinish
<1>17. ASSUME NEW f \in File, WriteWake(f) PROVE Same \/ (Still /\ Ends(f))
  BY <1>17 DEF WriteWake
<1>18. ASSUME NEW f \in File, PollMask(f) PROVE Same \/ (Still /\ Ends(f))
  BY <1>18 DEF PollMask
<1>19. ASSUME NEW f \in File, PollSleep(f) PROVE Same \/ (Still /\ Ends(f))
  BY <1>19 DEF PollSleep
<1>20. ASSUME NEW f \in File, ReadDown(f) PROVE Same \/ (Still /\ Ends(f))
  BY <1>20 DEF ReadDown
<1>21. ASSUME NEW f \in File, WriteDown(f) PROVE Same \/ (Still /\ Ends(f))
  BY <1>21 DEF WriteDown
<1>22. QED
  BY <1>1, <1>2, <1>3, <1>4, <1>5, <1>6, <1>7, <1>8, <1>9, <1>10, <1>11, <1>12, <1>13, <1>14,
     <1>15, <1>16, <1>17, <1>18, <1>19, <1>20, <1>21
     DEF Next, Calls, Steps, Opens

Mapped == Fifo!Next \/ UNCHANGED Fifo!vars

(* A step that leaves the bytes alone is the caller's own affair.          *)
LEMMA CallerStep ==
    ASSUME FInv, NEW f \in File, NEW n, NEW u \in Seq(Byte),
           Contents' = Contents, UNCHANGED <<buffersize, buffer>>,
           ubuf' = [ubuf EXCEPT ![f] = u], count' = [count EXCEPT ![f] = n]
    PROVE  Fifo!Caller(f)
<1>1. ubuf'[f] = u /\ \A g \in File \ {f} : ubuf'[g] = ubuf[g] /\ count'[g] = count[g]
  BY DEF FInv, IInv, TypeOK
<1>2. (buffersize <= buffer)' = (buffersize <= buffer)
  OBVIOUS
<1>3. QED
  BY <1>1, <1>2 DEF Fifo!Caller

LEMMA CallsMap ==
    ASSUME FInv, NEW f \in File, (Still /\ Ends(f)) \/ (\E n \in 1 .. MaxCount : Read(f, n))
                                 \/ (\E t \in Messages : Write(f, t))
    PROVE  Fifo!Caller(f)
<1>1. Still
  BY DEF Read, Write, Still, device
<1>2. Contents' = Contents
  BY <1>1 DEF Still, Contents, Filled
<1>3. CASE Ends(f)
  <2>1. <<>> \in Seq(Byte)
    OBVIOUS
  <2>2. QED
    BY <1>1, <1>2, <1>3, <2>1, CallerStep DEF Ends, Still
<1>4. ASSUME NEW n \in 1 .. MaxCount, Read(f, n)
      PROVE  Fifo!Caller(f)
  <2>1. ubuf[f] = <<>> /\ <<>> \in Seq(Byte)
    BY <1>4 DEF Read, FInv, Clean, Idle
  <2>2. ubuf' = [ubuf EXCEPT ![f] = <<>>] /\ count' = [count EXCEPT ![f] = n]
    BY <1>4, <2>1 DEF Read, FInv, IInv, TypeOK
  <2>3. QED
    BY <1>1, <1>2, <2>1, <2>2, CallerStep DEF Still
<1>5. ASSUME NEW t \in Messages, Write(f, t)
      PROVE  Fifo!Caller(f)
  BY <1>1, <1>2, <1>5, CallerStep, PipeAssumption DEF Write, Still
<1>6. QED
  BY <1>3, <1>4, <1>5

LEMMA OpenMaps ==
    ASSUME FInv, NEW f \in File, NEW m \in Modes, Open(f, m)
    PROVE  Fifo!Reset
<1>1. /\ rp' = 0 /\ wp' = 0 /\ buffersize' \in Sizes /\ UNCHANGED <<ubuf, count>>
  BY DEF Open, FInv, IInv, TypeOK
<1>2. buffersize' \in Nat \ {0}
  BY <1>1, PipeAssumption
<1>3. Filled' = 0
  BY <1>1, <1>2, NoDistance DEF Filled
<1>4. Contents' = <<>>
  BY <1>3 DEF Contents
<1>5. QED
  BY <1>1, <1>4 DEF Fifo!Reset

LEMMA ReleaseMaps ==
    ASSUME FInv, NEW f \in File, Release(f)
    PROVE  Mapped
<1>1. /\ pc[f] = "c_down" /\ UNCHANGED <<rp, wp, buffersize, cell, ubuf, count>>
      /\ buffer' = 0 \/ buffer' = buffer
  BY DEF Release
<1>2. Contents' = Contents
  BY <1>1 DEF Contents, Filled
<1>3. buffersize \in Nat \ {0}
  BY <1>1, PipeAssumption DEF FInv, IInv, TypeOK, Pointers
<1>4. CASE buffer' = buffer
  BY <1>1, <1>2, <1>4 DEF Mapped, Fifo!vars
<1>5. CASE buffer' = 0
  <2>1. (buffersize <= buffer)' = FALSE
    BY <1>1, <1>3, <1>5
  <2>2. QED
    BY <1>1, <1>2, <2>1 DEF Mapped, Fifo!Next, Fifo!Drop
<1>6. QED
  BY <1>1, <1>4, <1>5

LEMMA ClobberMaps ==
    ASSUME FInv, Clobber
    PROVE  Mapped
<1>1. /\ cell' = [i \in DOMAIN cell |-> IF i < buffer THEN cell[i] ELSE Junk]
      /\ UNCHANGED <<rp, wp, buffersize, buffer, ubuf, count>>
  BY DEF Clobber, call
<1>2. /\ DOMAIN cell = 0 .. MaxSize - 1 /\ buffersize \in Nat /\ buffer \in Nat /\ buffersize <= MaxSize
      /\ MaxSize \in Nat /\ rp \in Nat /\ wp \in Nat
  BY PipeAssumption DEF FInv, IInv, TypeOK
<1>3. Filled' = Filled
  BY <1>1 DEF Filled
<1>4. \A i \in 1 .. Filled : (rp + i - 1) % buffersize \in 0 .. buffersize - 1
  BY <1>2 DEF Filled
<1>5. \A i \in 1 .. Filled : /\ (rp + i - 1) % buffersize \in DOMAIN cell
                             /\ (rp + i - 1) % buffersize < buffersize
  BY <1>2, <1>4
<1>6. (buffersize <= buffer)' = (buffersize <= buffer)
  BY <1>1
<1>7. CASE buffersize <= buffer
  <2>1. \A i \in 1 .. Filled : (rp + i - 1) % buffersize < buffer
    BY <1>2, <1>4, <1>7
  <2>2. \A i \in 1 .. Filled : cell'[(rp + i - 1) % buffersize] = cell[(rp + i - 1) % buffersize]
    BY <1>1, <1>5, <2>1
  <2>3. Contents' = Contents
    BY <1>1, <1>3, <2>2 DEF Contents
  <2>4. QED
    BY <1>1, <1>6, <2>3 DEF Mapped, Fifo!vars
<1>8. CASE ~(buffersize <= buffer)
  <2>1. DOMAIN Contents' = 1 .. Filled /\ DOMAIN Contents = 1 .. Filled
    BY <1>3 DEF Contents
  <2>2. \A i \in 1 .. Filled : cell'[(rp + i - 1) % buffersize] \in {cell[(rp + i - 1) % buffersize], Junk}
    BY <1>1, <1>5
  <2>3. \A i \in 1 .. Filled : Contents'[i] \in {Contents[i], Junk}
    BY <1>1, <1>3, <2>2 DEF Contents
  <2>4. Fifo!Spoil
    BY <1>1, <1>6, <1>8, <2>1, <2>3 DEF Fifo!Spoil
  <2>5. QED
    BY <2>4 DEF Mapped, Fifo!Next
<1>9. QED
  BY <1>7, <1>8

LEMMA ContentsNow ==
    ASSUME Ring(rp, wp, buffersize)
    PROVE  Contents = BytesOf(rp, wp, buffersize, cell) /\ Filled = Dist(rp, wp, buffersize)
<1>1. buffersize # 0
  BY DEF Ring
<1>2. (wp - rp + buffersize) % buffersize = Dist(rp, wp, buffersize)
  BY BytesInRing
<1>3. [i \in 1 .. (IF buffersize = 0 THEN 0 ELSE (wp - rp + buffersize) % buffersize) |->
          cell[(rp + i - 1) % buffersize]] = BytesOf(rp, wp, buffersize, cell)
  BY BytesInRing
<1>4. QED
  BY <1>1, <1>2, <1>3, Zenon DEF Contents, Filled

LEMMA ContentsThen ==
    ASSUME Ring(rp', wp', buffersize')
    PROVE  Contents' = BytesOf(rp', wp', buffersize', cell')
<1>1. [i \in 1 .. (IF buffersize' = 0 THEN 0 ELSE (wp' - rp' + buffersize') % buffersize') |->
          cell'[(rp' + i - 1) % buffersize']] = BytesOf(rp', wp', buffersize', cell')
  BY BytesInRing
<1>2. QED
  BY <1>1, Zenon DEF Contents, Filled

(* Before a copy both pointers are short of the end of the buffer.         *)
LEMMA AtRest ==
    ASSUME FInv, NEW f \in File, pc[f] \in {"r_copy", "w_copy"}
    PROVE  /\ Ring(rp, wp, buffersize) /\ rp < buffersize /\ wp < buffersize
           /\ buffersize \in Nat /\ rp \in Nat /\ wp \in Nat
           /\ cell \in Cells
<1>1. /\ buffersize \in Nat \ {0} /\ buffersize <= MaxSize
      /\ rp \in Nat /\ rp < buffersize
      /\ wp \in Nat /\ wp < buffersize
  BY PointersAtRest DEF FInv, IInv, SemaphoreDiscipline, Holding
<1>2. QED
  BY <1>1 DEF FInv, IInv, TypeOK, Cells, Ring

LEMMA ReadCopyMaps ==
    ASSUME FInv, NEW f \in File, ReadCopy(f)
    PROVE  Fifo!Take(f)
<1> DEFINE n == Least(count[f], Readable)
           got == [i \in 1 .. n |-> cell[rp + i - 1]]
           s == BytesOf(rp, wp, buffersize, cell)
<1>1. /\ pc[f] = "r_copy" /\ rp' = rp + n
      /\ count' = [count EXCEPT ![f] = n] /\ ubuf' = [ubuf EXCEPT ![f] = got]
      /\ UNCHANGED <<wp, buffersize, buffer, cell>>
  BY DEF ReadCopy
<1>2. /\ Ring(rp, wp, buffersize) /\ rp < buffersize /\ wp < buffersize /\ cell \in Cells
      /\ buffersize \in Nat /\ rp \in Nat
  BY <1>1, AtRest
<1>3. Contents = s /\ Filled = Dist(rp, wp, buffersize)
  BY <1>2, ContentsNow
<1>4. count[f] \in Nat \ {0}
  BY <1>1, PipeAssumption DEF FInv, IInv, Tested, TypeOK
<1>5. Readable \in Nat \ {0} /\ rp + Readable <= buffersize /\ Readable <= Filled
  BY <1>1, ReadWindow DEF FInv
<1>6. Len(s) = Dist(rp, wp, buffersize) /\ Dist(rp, wp, buffersize) \in Nat
  BY <1>2, Sequence
<1>7. /\ n \in Nat \ {0} /\ n <= count[f] /\ n <= Dist(rp, wp, buffersize) /\ rp + n <= buffersize
  BY <1>2, <1>3, <1>4, <1>5, <1>6 DEF Least
<1> HIDE DEF n
<1>8. /\ Ring(rp + n, wp, buffersize)
      /\ got = SubSeq(s, 1, n)
      /\ BytesOf(rp + n, wp, buffersize, cell) = SubSeq(s, n + 1, Len(s))
  BY <1>2, <1>7, Removed
<1> HIDE DEF got, s
<1>9. Contents' = SubSeq(s, n + 1, Len(s))
  BY <1>1, <1>8, ContentsThen
<1>10. n \in 1 .. Len(s)
  BY <1>6, <1>7
<1>11. (buffersize <= buffer)' = (buffersize <= buffer)
  BY <1>1
<1>12. QED
  BY <1>1, <1>3, <1>7, <1>8, <1>9, <1>10, <1>11 DEF Fifo!Take

LEMMA ReadWrapMaps ==
    ASSUME FInv, NEW f \in File, ReadWrap(f)
    PROVE  Mapped
<1>1. /\ pc[f] = "r_wrap" /\ rp' = IF rp = buffersize THEN 0 ELSE rp
      /\ UNCHANGED <<wp, buffersize, buffer, cell, ubuf, count>>
  BY DEF ReadWrap, call
<1>2. /\ buffersize \in Nat \ {0} /\ buffersize <= MaxSize
      /\ rp \in Nat /\ wp \in Nat /\ rp <= buffersize /\ wp < buffersize
  BY <1>1, PipeAssumption DEF FInv, IInv, TypeOK, Pointers, SemaphoreDiscipline, Holding
<1>3. Contents' = Contents
  <2>1. CASE rp = buffersize
    <3>1. Ring(rp, wp, buffersize)
      BY <1>2, <2>1 DEF Ring
    <3>2. Ring(0, wp, buffersize) /\ BytesOf(0, wp, buffersize, cell) = BytesOf(buffersize, wp, buffersize, cell)
      BY <2>1, <3>1, ReadWrapped
    <3>3. QED
      BY <1>1, <2>1, <3>1, <3>2, ContentsNow, ContentsThen
  <2>2. CASE rp # buffersize
    BY <1>1, <2>2 DEF Contents, Filled
  <2>3. QED
    BY <2>1, <2>2
<1>4. QED
  BY <1>1, <1>3 DEF Mapped, Fifo!vars

LEMMA WriteWrapMaps ==
    ASSUME FInv, NEW f \in File, WriteWrap(f)
    PROVE  Mapped
<1>1. /\ pc[f] = "w_wrap" /\ wp' = IF wp = buffersize THEN 0 ELSE wp
      /\ UNCHANGED <<rp, buffersize, buffer, cell, ubuf, count>>
  BY DEF WriteWrap, call
<1>2. /\ buffersize \in Nat \ {0} /\ buffersize <= MaxSize
      /\ rp \in Nat /\ wp \in Nat /\ rp < buffersize /\ wp <= buffersize
  BY <1>1, PipeAssumption DEF FInv, IInv, TypeOK, Pointers, SemaphoreDiscipline, Holding
<1>3. Contents' = Contents
  <2>1. CASE wp = buffersize
    <3>1. Ring(rp, wp, buffersize)
      BY <1>1, <1>2, <2>1 DEF Ring, FInv, Clean
    <3>2. Ring(rp, 0, buffersize) /\ BytesOf(rp, 0, buffersize, cell) = BytesOf(rp, buffersize, buffersize, cell)
      BY <2>1, <3>1, WriteWrapped
    <3>3. QED
      BY <1>1, <2>1, <3>1, <3>2, ContentsNow, ContentsThen
  <2>2. CASE wp # buffersize
    BY <1>1, <2>2 DEF Contents, Filled
  <2>3. QED
    BY <2>1, <2>2
<1>4. QED
  BY <1>1, <1>3 DEF Mapped, Fifo!vars

(* The cells after a copy from the caller's buffer.                        *)
LEMMA StoredCells ==
    ASSUME FInv, NEW f \in File, pc[f] = "w_copy", NEW n \in Nat, n <= count[f], cell' = Stored(f, n)
    PROVE  cell' \in Cells /\ Stores(cell, cell', wp, n, ubuf[f])
<1>1. cell' \in Cells
  BY StoredType DEF FInv, Cells
<1>2. DOMAIN cell = 0 .. MaxSize - 1
  BY DEF FInv, IInv, TypeOK
<1>3. QED
  BY <1>1, <1>2 DEF Stored, Stores

LEMMA WriteCopyMaps ==
    ASSUME FInv, NEW f \in File, WriteCopy(f)
    PROVE  Fifo!Put(f)
<1> DEFINE n == Least(count[f], Writable)
           s == BytesOf(rp, wp, buffersize, cell)
<1>1. /\ pc[f] = "w_copy" /\ wp' = wp + n /\ cell' = Stored(f, n)
      /\ count' = [count EXCEPT ![f] = n]
      /\ UNCHANGED <<rp, buffersize, buffer, ubuf>>
  BY DEF WriteCopy
<1>2. /\ Ring(rp, wp, buffersize) /\ rp < buffersize /\ wp < buffersize /\ cell \in Cells
      /\ buffersize \in Nat /\ wp \in Nat
  BY <1>1, AtRest
<1>3. Contents = s /\ Filled = Dist(rp, wp, buffersize)
  BY <1>2, ContentsNow
<1>4. count[f] \in Nat \ {0} /\ count[f] = Len(ubuf[f]) /\ ubuf[f] \in Seq(Data)
  BY <1>1, PipeAssumption DEF FInv, IInv, Tested, TypeOK
<1>5. Writable \in Nat \ {0} /\ wp + Writable <= buffersize /\ Filled + Writable < buffersize
  BY <1>1, WriteWindow DEF FInv
<1>6. Len(s) = Dist(rp, wp, buffersize) /\ Dist(rp, wp, buffersize) \in Nat
  BY <1>2, Sequence
<1>7. /\ n \in Nat \ {0} /\ n <= count[f] /\ n <= Len(ubuf[f])
      /\ Dist(rp, wp, buffersize) + n < buffersize /\ wp + n <= buffersize
  BY <1>2, <1>3, <1>4, <1>5, <1>6 DEF Least
<1> HIDE DEF n
<1>8. cell' \in Cells /\ Stores(cell, cell', wp, n, ubuf[f])
  BY <1>1, <1>7, StoredCells
<1>9. /\ Ring(rp, wp + n, buffersize)
      /\ BytesOf(rp, wp + n, buffersize, cell') = s \o SubSeq(ubuf[f], 1, n)
  <2>1. Fits(rp, wp, buffersize, n, ubuf[f])
    BY <1>2, <1>4, <1>7 DEF Fits
  <2>2. Extended(rp, wp, buffersize, n, ubuf[f], cell, cell')
    BY <1>2, <1>8, <2>1, Appended
  <2>3. QED
    BY <2>2 DEF Extended
<1> HIDE DEF s
<1>10. Contents' = s \o SubSeq(ubuf[f], 1, n)
  BY <1>1, <1>9, ContentsThen
<1>11. n \in 1 .. Len(ubuf[f]) /\ Len(s) + n < buffersize
  BY <1>4, <1>6, <1>7
<1>12. (buffersize <= buffer)' = (buffersize <= buffer)
  BY <1>1
<1>13. QED
  BY <1>1, <1>3, <1>10, <1>11, <1>12 DEF Fifo!Put

(* A copy that fails moves no pointer, and what it may have stored lies    *)
(* behind the bytes in the pipe.                                           *)
LEMMA CopyFaultMaps ==
    ASSUME FInv, NEW f \in File, CopyFault(f)
    PROVE  Fifo!Caller(f)
<1>1. /\ pc[f] \in {"r_copy", "w_copy"} /\ UNCHANGED <<rp, wp, buffersize, buffer>>
      /\ ubuf' = [ubuf EXCEPT ![f] = <<>>] /\ count' = [count EXCEPT ![f] = 0]
      /\ \/ UNCHANGED cell
         \/ pc[f] = "w_copy" /\ \E k \in 0 .. Least(count[f], Writable) - 1 : cell' = Stored(f, k)
  BY DEF CopyFault, Return
<1>2. /\ Ring(rp, wp, buffersize) /\ rp < buffersize /\ wp < buffersize /\ cell \in Cells
      /\ buffersize \in Nat /\ wp \in Nat
  BY <1>1, AtRest
<1>3. Contents' = Contents
  <2>1. CASE UNCHANGED cell
    BY <1>1, <2>1 DEF Contents, Filled
  <2>2. ASSUME pc[f] = "w_copy", NEW k \in 0 .. Least(count[f], Writable) - 1, cell' = Stored(f, k)
        PROVE  Contents' = Contents
    <3>1. Writable \in Nat \ {0} /\ wp + Writable <= buffersize /\ Filled + Writable < buffersize
      BY <2>2, WriteWindow DEF FInv
    <3>2. Filled = Dist(rp, wp, buffersize) /\ Dist(rp, wp, buffersize) \in Nat
      BY <1>2, ContentsNow, Sequence
    <3>3. count[f] \in Nat
      BY PipeAssumption DEF FInv, IInv, TypeOK
    <3>4. k \in Nat /\ k <= count[f] /\ wp + k <= buffersize /\ Dist(rp, wp, buffersize) + k < buffersize
      BY <1>2, <3>1, <3>2, <3>3 DEF Least
    <3>5. cell' \in Cells /\ Stores(cell, cell', wp, k, ubuf[f])
      BY <2>2, <3>4, StoredCells
    <3>6. \A i \in 1 .. Dist(rp, wp, buffersize) :
              cell'[Spot(rp + i - 1, buffersize)] = cell[Spot(rp + i - 1, buffersize)]
      BY <1>2, <3>4, <3>5, Untouched
    <3>7. BytesOf(rp, wp, buffersize, cell') = BytesOf(rp, wp, buffersize, cell)
      BY <3>6 DEF BytesOf
    <3>8. QED
      BY <1>1, <1>2, <3>7, ContentsNow, ContentsThen
  <2>3. QED
    BY <1>1, <2>1, <2>2
<1>4. <<>> \in Seq(Byte)
  OBVIOUS
<1>5. QED
  BY <1>1, <1>3, <1>4, CallerStep

LEMMA StepMaps == FInv /\ [Next]_vars => Mapped
<1> SUFFICES ASSUME FInv, [Next]_vars PROVE Mapped
  OBVIOUS
<1>1. CASE Same
  <2>1. Contents' = Contents
    BY <1>1 DEF Same, Still, Contents, Filled
  <2>2. QED
    BY <1>1, <2>1 DEF Same, Still, Mapped, Fifo!vars
<1>2. ASSUME NEW f \in File, Fifo!Caller(f) \/ Fifo!Put(f) \/ Fifo!Take(f) \/ Fifo!Reset
      PROVE  Mapped
  BY <1>2 DEF Mapped, Fifo!Next
<1>3. ASSUME NEW f \in File, (Still /\ Ends(f)) \/ (\E n \in 1 .. MaxCount : Read(f, n))
                             \/ (\E t \in Messages : Write(f, t))
      PROVE  Mapped
  BY <1>2, <1>3, CallsMap
<1>4. ASSUME NEW f \in File, \E m \in Modes : Open(f, m)
      PROVE  Mapped
  BY <1>2, <1>4, OpenMaps
<1>5. ASSUME NEW f \in File, ReadCopy(f) \/ WriteCopy(f) \/ CopyFault(f)
      PROVE  Mapped
  BY <1>2, <1>5, ReadCopyMaps, WriteCopyMaps, CopyFaultMaps
<1>6. ASSUME NEW f \in File, ReadWrap(f) \/ WriteWrap(f) \/ Release(f)
      PROVE  Mapped
  BY <1>6, ReadWrapMaps, WriteWrapMaps, ReleaseMaps
<1>7. CASE Clobber
  BY <1>7, ClobberMaps
<1>8. QED
  BY <1>1, <1>3, <1>4, <1>5, <1>6, <1>7, Sorts, Zenon

LEMMA InitMaps == Init => Clean /\ Fifo!Init
<1> SUFFICES ASSUME Init PROVE Clean /\ Fifo!Init
  OBVIOUS
<1>1. Clean
  BY DEF Init, Clean, Idle
<1>2. Filled = 0
  BY DEF Init, Filled
<1>3. Contents = <<>>
  BY <1>2 DEF Contents
<1>4. buffersize = 0 /\ ubuf \in [File -> {<<>>}] /\ count \in [File -> {0}]
  BY DEF Init
<1>5. (buffersize <= buffer) \in BOOLEAN
  BY DEF Init
<1>6. QED
  BY <1>1, <1>3, <1>4, <1>5 DEF Fifo!Init

(* The pipe is a bounded fifo for any number of processes, any sizes and   *)
(* any data: a read returns the oldest bytes of the acknowledged writes,   *)
(* once and in order, whatever wraps, fails or is interrupted meanwhile;   *)
(* an open empties the pipe, and bytes are lost only when the memory the   *)
(* buffer stands in is no longer its own.                                  *)
THEOREM PipeIsAFifo == Spec => IsBoundedFifo
<1>1. FInv /\ [Next]_vars => [Fifo!Next]_(Fifo!vars)
  BY StepMaps DEF Mapped
<1>2. Init => FInv
  BY InitIInv, InitMaps DEF FInv
<1>3. FInv /\ [Next]_vars => FInv'
  BY StepIInv, StepClean DEF FInv
<1>4. QED
  BY <1>1, <1>2, <1>3, InitMaps, PTL DEF Spec, IsBoundedFifo, Fifo!Spec
=============================================================================
