--------------------------- MODULE ShortPrint_proofs ---------------------------
(***************************************************************************)
(* Proofs about the output ring of shortprint, for any number of writers,  *)
(* any size of the ring and of the writes, whatever interrupts are missed: *)
(* the ring is sound, output goes on, it is a PrintQueue, and a close that *)
(* no signal cuts short is the last of its process's output.               *)
(***************************************************************************)
EXTENDS ShortPrint, SequenceTheorems, TLAPS

(* The bytes in line, without the remainder that InLine is written with.   *)
Filled == IF out_tail <= out_head THEN out_head - out_tail ELSE out_head - out_tail + PAGE_SIZE

(* What a process at l may rely on with x bytes left and space y, while    *)
(* the tail moves: it never passes a head that it was behind, and the room *)
(* found for a chunk only grows.                                           *)
Holds(l, x, y) ==
    /\ l \in {"w_behind", "w_qbehind"} => out_tail <= out_head
    /\ l \in {"w_down"} \cup (Writing \ {"w_start"}) => x > 0
    /\ l = "w_copy" => y > 0 /\ out_head + y <= PAGE_SIZE /\ Filled + y < PAGE_SIZE

PrintInv ==
    /\ TypeOK /\ SemaphoreDiscipline /\ NeverStalls
    /\ \A p \in Proc : Holds(pc[p], left[p], space[p])

-----------------------------------------------------------------------------
LEMMA RingArithmetic ==
    ASSUME NEW h \in 0 .. PAGE_SIZE - 1, NEW t \in 0 .. PAGE_SIZE - 1
    PROVE  (h - t + PAGE_SIZE) % PAGE_SIZE = IF t <= h THEN h - t ELSE h - t + PAGE_SIZE
<1>1. PAGE_SIZE \in Nat \ {0}
  BY ShortPrintAssumption
<1>2. \A a \in 0 .. PAGE_SIZE - 1 : a % PAGE_SIZE = a /\ (a + PAGE_SIZE) % PAGE_SIZE = a
  BY <1>1
<1>3. CASE t <= h
  BY <1>1, <1>2, <1>3
<1>4. CASE h < t
  BY <1>1, <1>2, <1>4
<1>5. QED
  BY <1>3, <1>4

(* A process goes from one place to another and takes or gives back the    *)
(* semaphore; the ring and the engine stay.                                *)
LEMMA Moves ==
    ASSUME PrintInv, NEW p \in Proc, NEW l \in Location, NEW x \in 0 .. MaxCount, NEW y \in Int,
           pc[p] # "w_start",
           pc' = [pc EXCEPT ![p] = l], left' = [left EXCEPT ![p] = x], space' = [space EXCEPT ![p] = y],
           Holds(l, x, y),
           \/ l \in Writing /\ out_sem' = p /\ (pc[p] \in Writing \/ out_sem = NoProc)
           \/ l \notin Writing /\ out_sem' = IF pc[p] \in Writing THEN NoProc ELSE out_sem,
           UNCHANGED <<cell, out_head, out_tail, engine, device, oops>>
    PROVE  PrintInv'
<1>1. \A q \in Proc \ {p} : pc'[q] = pc[q] /\ left'[q] = left[q] /\ space'[q] = space[q]
  BY DEF PrintInv, TypeOK
<1>2. pc'[p] = l /\ left'[p] = x /\ space'[p] = y
  BY DEF PrintInv, TypeOK
<1>3. TypeOK'
  BY DEF PrintInv, TypeOK, engine, device
<1>4. SemaphoreDiscipline'
  BY <1>1, <1>2, ShortPrintAssumption DEF PrintInv, TypeOK, SemaphoreDiscipline
<1>5. \A q \in Proc : Holds(pc[q], left[q], space[q])'
  BY <1>1, <1>2 DEF PrintInv, Holds, Filled
<1>6. NeverStalls'
  BY <1>1 DEF PrintInv, NeverStalls, engine
<1>7. QED
  BY <1>3, <1>4, <1>5, <1>6 DEF PrintInv

(* The calls up to the copy, and the end of those that copy nothing more.  *)
LEMMA CallStep ==
    ASSUME PrintInv, NEW p \in Proc,
           \/ Open(p) \/ Release(p) \/ ReleaseTest(p) \/ ReleaseInterrupted(p)
           \/ \E n \in 1 .. MaxCount : Write(p, n)
           \/ WriteDown(p) \/ WriteDownInterrupted(p)
           \/ CompareHeadTail(p) \/ PrepareToWait(p)
           \/ WriteInterrupted(p) \/ WriteFault(p)
    PROVE  PrintInv'
<1> USE DEF GoTo
<1>1. /\ UNCHANGED <<cell, out_head, out_tail, engine, device, oops>>
      /\ left[p] \in 0 .. MaxCount /\ space[p] \in Int /\ 0 \in 0 .. MaxCount /\ 0 \in Int
      /\ left = [left EXCEPT ![p] = left[p]] /\ space = [space EXCEPT ![p] = space[p]]
      /\ out_head \in Int /\ out_tail \in Int
      /\ Holds(pc[p], left[p], space[p])
      /\ out_sem = p <=> pc[p] \in Writing
  BY ShortPrintAssumption
     DEF PrintInv, TypeOK, SemaphoreDiscipline, output, Open, Release, ReleaseTest, ReleaseInterrupted,
         Write, WriteDown, WriteDownInterrupted, CompareHeadTail, PrepareToWait, WriteInterrupted, WriteFault
<1>2. CASE Open(p) \/ Release(p) \/ ReleaseTest(p) \/ ReleaseInterrupted(p)
  <2>1. PICK l \in {"idle", "closed", "x_test", "x_queued", "x_asleep"} : pc' = [pc EXCEPT ![p] = l]
    BY <1>2 DEF Open, Release, ReleaseTest, ReleaseInterrupted
  <2>2. pc[p] \notin Writing /\ UNCHANGED <<out_sem, left, space>>
    BY <1>2 DEF Open, Release, ReleaseTest, ReleaseInterrupted, Writing, output
  <2>3. l \in Location /\ l \notin Writing /\ Holds(l, left[p], space[p])
    BY DEF Location, Writing, Holds
  <2>4. QED
    BY <1>1, <2>1, <2>2, <2>3, Moves DEF Writing
<1>3. ASSUME NEW n \in 1 .. MaxCount, Write(p, n)
      PROVE  PrintInv'
  <2>1. /\ pc[p] = "idle" /\ pc' = [pc EXCEPT ![p] = "w_down"] /\ left' = [left EXCEPT ![p] = n]
        /\ UNCHANGED <<out_sem, space>>
    BY <1>3 DEF Write, output
  <2>2. "w_down" \in Location \ Writing /\ Holds("w_down", n, space[p]) /\ n \in 0 .. MaxCount
    BY ShortPrintAssumption DEF Location, Writing, Holds
  <2>3. QED
    BY <1>1, <2>1, <2>2, Moves DEF Writing
<1>4. CASE WriteDown(p)
  <2>1. /\ pc[p] = "w_down" /\ out_sem = NoProc /\ out_sem' = p /\ pc' = [pc EXCEPT ![p] = "w_space"]
        /\ UNCHANGED <<left, space>>
    BY <1>4 DEF WriteDown
  <2>2. "w_space" \in Location /\ "w_space" \in Writing /\ Holds("w_space", left[p], space[p])
    BY <1>1, <2>1 DEF Location, Writing, Holds
  <2>3. QED
    BY <1>1, <2>1, <2>2, Moves
<1>5. CASE WriteDownInterrupted(p)
  <2>1. /\ pc[p] = "w_down" /\ pc' = [pc EXCEPT ![p] = "idle"] /\ left' = [left EXCEPT ![p] = 0]
        /\ UNCHANGED <<out_sem, space>>
    BY <1>5 DEF WriteDownInterrupted, output
  <2>2. "idle" \in Location \ Writing /\ Holds("idle", 0, space[p])
    BY DEF Location, Writing, Holds
  <2>3. QED
    BY <1>1, <2>1, <2>2, Moves DEF Writing
<1>6. CASE WriteInterrupted(p) \/ WriteFault(p)
  <2>1. /\ pc[p] \in {"w_queued", "w_asleep", "w_copy"} /\ pc' = [pc EXCEPT ![p] = "idle"]
        /\ left' = [left EXCEPT ![p] = 0] /\ space' = [space EXCEPT ![p] = 0] /\ out_sem' = NoProc
    BY <1>6 DEF WriteInterrupted, WriteFault, WriteUp
  <2>2. "idle" \in Location \ Writing /\ Holds("idle", 0, 0) /\ pc[p] \in Writing
    BY <2>1 DEF Location, Writing, Holds
  <2>3. QED
    BY <1>1, <2>1, <2>2, Moves
<1>7. CASE CompareHeadTail(p) \/ PrepareToWait(p)
  <2>1. PICK l \in {"w_behind", "w_qbehind", "w_ahead", "w_qahead", "w_queued"} :
            /\ pc' = [pc EXCEPT ![p] = l]
            /\ l \in {"w_behind", "w_qbehind"} => out_tail <= out_head
    BY <1>1, <1>7 DEF CompareHeadTail, PrepareToWait
  <2>2. pc[p] \in {"w_space", "w_queued", "w_wait"} /\ UNCHANGED <<out_sem, left, space>>
    BY <1>7 DEF CompareHeadTail, PrepareToWait, output
  <2>3. l \in Location /\ l \in Writing /\ pc[p] \in Writing \ {"w_start"}
    BY <2>2 DEF Location, Writing
  <2>4. Holds(l, left[p], space[p])
    BY <1>1, <2>1, <2>3 DEF Holds
  <2>5. QED
    BY <1>1, <2>1, <2>2, <2>3, <2>4, Moves
<1>8. QED
  BY <1>2, <1>3, <1>4, <1>5, <1>6, <1>7

(* The space a writer computes from a tail that moved after the comparison *)
(* is still no more than there is.                                         *)
LEMMA ComputeStep ==
    ASSUME PrintInv, NEW p \in Proc, ComputeSpace(p)
    PROVE  PrintInv'
<1> DEFINE y == out_space(p)
<1>1. /\ UNCHANGED <<cell, out_head, out_tail, out_sem, engine, device, oops, left>>
      /\ space' = [space EXCEPT ![p] = y]
      /\ pc[p] \in {"w_behind", "w_ahead", "w_qbehind", "w_qahead"}
  BY DEF ComputeSpace, output
<1>2. PICK l \in {"w_copy", "w_wait", "w_asleep"} : pc' = [pc EXCEPT ![p] = l] /\ (l = "w_copy" => y > 0)
  BY DEF ComputeSpace, GoTo
<1>3. /\ out_head \in 0 .. PAGE_SIZE - 1 /\ out_tail \in 0 .. PAGE_SIZE - 1 /\ PAGE_SIZE \in Nat
      /\ left[p] \in 0 .. MaxCount /\ left = [left EXCEPT ![p] = left[p]]
      /\ Holds(pc[p], left[p], space[p]) /\ (out_sem = p <=> pc[p] \in Writing)
  BY ShortPrintAssumption DEF PrintInv, TypeOK, SemaphoreDiscipline
<1>4. y \in Int
  BY <1>3 DEF out_space, SpaceToTheEnd
<1>5. l \in Location /\ l \in Writing /\ pc[p] \in Writing \ {"w_start"}
  BY <1>1 DEF Location, Writing
<1>6. left[p] > 0
  BY <1>3, <1>5 DEF Holds
<1>7. y > 0 => out_head + y <= PAGE_SIZE /\ Filled + y < PAGE_SIZE
  <2>1. CASE pc[p] \in {"w_behind", "w_qbehind"}
    <3>1. out_tail <= out_head /\ y = IF out_tail = 0 THEN PAGE_SIZE - out_head - 1 ELSE PAGE_SIZE - out_head
      <4>1. out_tail <= out_head
        BY <1>3, <2>1 DEF Holds
      <4>2. y = SpaceToTheEnd
        BY <2>1 DEF out_space
      <4>3. QED
        BY <4>1, <4>2 DEF SpaceToTheEnd
    <3>2. QED
      BY <1>3, <3>1 DEF Filled
  <2>2. CASE pc[p] \in {"w_ahead", "w_qahead"}
    <3>1. y = out_tail - out_head - 1
      BY <2>2 DEF out_space
    <3>2. QED
      BY <1>3, <3>1 DEF Filled
  <2>3. QED
    BY <1>1, <2>1, <2>2
<1> HIDE DEF y
<1>8. Holds(l, left[p], y)
  BY <1>2, <1>6, <1>7 DEF Holds
<1>9. QED
  BY <1>1, <1>2, <1>3, <1>4, <1>5, <1>8, Moves

(* A copy moves the head by no more than there is room for.                *)
LEMMA CopyStep ==
    ASSUME PrintInv, NEW p \in Proc, WriteCopy(p)
    PROVE  PrintInv'
<1> DEFINE c == Chunk(p)
<1>1. /\ pc[p] = "w_copy" /\ pc' = [pc EXCEPT ![p] = "w_start"] /\ left' = [left EXCEPT ![p] = left[p] - c]
      /\ cell' = [i \in DOMAIN cell |-> IF i \in out_head .. out_head + c - 1 THEN p ELSE cell[i]]
      /\ out_head' = incr_out_bp(out_head, c)
      /\ UNCHANGED <<out_tail, out_sem, engine, device, space, oops>>
  BY DEF WriteCopy, GoTo
<1>2. /\ out_head \in 0 .. PAGE_SIZE - 1 /\ out_tail \in 0 .. PAGE_SIZE - 1 /\ PAGE_SIZE \in Nat \ {0}
      /\ left[p] \in 0 .. MaxCount /\ space[p] \in Int /\ MaxCount \in Nat
      /\ Holds("w_copy", left[p], space[p]) /\ out_sem = p
  BY <1>1, ShortPrintAssumption DEF PrintInv, TypeOK, SemaphoreDiscipline, Writing
<1>3. left[p] > 0 /\ space[p] > 0 /\ out_head + space[p] <= PAGE_SIZE
  BY <1>2 DEF Holds, Writing
<1>4. c \in 1 .. left[p] /\ c <= space[p]
  BY <1>2, <1>3 DEF Chunk
<1> HIDE DEF c
<1>5. out_head' \in 0 .. PAGE_SIZE - 1 /\ left[p] - c \in 0 .. MaxCount
  BY <1>1, <1>2, <1>3, <1>4 DEF incr_out_bp
<1>6. cell' \in [0 .. PAGE_SIZE - 1 -> Proc \cup {NoProc}]
  BY <1>1 DEF PrintInv, TypeOK
<1>7. "w_start" \in Location /\ "w_start" \in Writing
  BY DEF Location, Writing
<1>8. TypeOK'
  BY <1>1, <1>5, <1>6, <1>7 DEF PrintInv, TypeOK, engine, device
<1>9. \A q \in Proc \ {p} : pc'[q] = pc[q] /\ left'[q] = left[q] /\ pc[q] \notin Writing
  BY <1>1, <1>2 DEF PrintInv, TypeOK, SemaphoreDiscipline
<1>10. pc'[p] = "w_start"
  BY <1>1 DEF PrintInv, TypeOK
<1>11. SemaphoreDiscipline'
  BY <1>1, <1>2, <1>7, <1>9, <1>10 DEF SemaphoreDiscipline
<1>12. \A q \in Proc : Holds(pc[q], left[q], space[q])'
  BY <1>1, <1>9, <1>10 DEF PrintInv, Holds, Writing
<1>13. NeverStalls'
  BY <1>1, <1>10 DEF PrintInv, NeverStalls, engine
<1>14. QED
  BY <1>8, <1>11, <1>12, <1>13 DEF PrintInv

(* Output is started under the lock if it is not active.                   *)
LEMMA StartStep ==
    ASSUME PrintInv, NEW p \in Proc, WriteStart(p)
    PROVE  PrintInv'
<1> USE DEF GoTo
<1>1. /\ pc[p] = "w_start" /\ UNCHANGED <<cell, out_head, out_tail, timeout, work, device>>
      /\ active' = TRUE /\ queued' \in BOOLEAN /\ timer' \in BOOLEAN /\ oops' \in BOOLEAN
      /\ IF active THEN queued' = queued /\ timer' = timer ELSE queued' = TRUE
  BY DEF WriteStart, StartOutput, AddTimer, PrintInv, TypeOK
<1>2. left[p] \in Nat /\ out_sem = p /\ MaxCount \in Nat
  BY <1>1, ShortPrintAssumption DEF PrintInv, TypeOK, SemaphoreDiscipline, Writing
<1>3. PICK l \in {"w_space", "idle"} :
          /\ pc' = [pc EXCEPT ![p] = l]
          /\ l = "w_space" => left[p] > 0 /\ UNCHANGED <<out_sem, left, space>>
          /\ l = "idle" => /\ out_sem' = NoProc
                           /\ left' = [left EXCEPT ![p] = 0] /\ space' = [space EXCEPT ![p] = 0]
  BY DEF WriteStart, WriteUp
<1>4. \A q \in Proc \ {p} : pc'[q] = pc[q] /\ left'[q] = left[q] /\ space'[q] = space[q] /\ pc[q] \notin Writing
  BY <1>2, <1>3 DEF PrintInv, TypeOK, SemaphoreDiscipline
<1>5. pc'[p] = l
  BY <1>3 DEF PrintInv, TypeOK
<1>6. TypeOK'
  <2>1. left' \in [Proc -> 0 .. MaxCount] /\ space' \in [Proc -> Int]
    BY <1>2, <1>3 DEF PrintInv, TypeOK
  <2>2. pc' \in [Proc -> Location] /\ out_sem' \in Proc \cup {NoProc}
    BY <1>3 DEF PrintInv, TypeOK, Location
  <2>3. QED
    BY <1>1, <2>1, <2>2 DEF PrintInv, TypeOK, device
<1>7. SemaphoreDiscipline'
  BY <1>2, <1>3, <1>4, <1>5, ShortPrintAssumption DEF SemaphoreDiscipline, Writing
<1>8. \A q \in Proc : Holds(pc[q], left[q], space[q])'
  BY <1>1, <1>3, <1>4, <1>5 DEF PrintInv, Holds, Writing, Filled
<1>9. NeverStalls'
  BY <1>1 DEF PrintInv, NeverStalls
<1>10. QED
  BY <1>6, <1>7, <1>8, <1>9 DEF PrintInv

-----------------------------------------------------------------------------
(* A wake-up takes a process back to a test, with what it holds.           *)
LEMMA WakeStep ==
    ASSUME PrintInv, NEW w \in {WakeWriters, WakeClosers, pc}, pc' = w
    PROVE  /\ pc' \in [Proc -> Location]
           /\ \A p \in Proc :
                  /\ pc'[p] \in Writing <=> pc[p] \in Writing
                  /\ pc'[p] = "w_start" <=> pc[p] = "w_start"
                  /\ pc'[p] = "w_copy" <=> pc[p] = "w_copy"
                  /\ pc'[p] = "w_down" <=> pc[p] = "w_down"
                  /\ pc'[p] \in {"w_behind", "w_qbehind"} <=> pc[p] \in {"w_behind", "w_qbehind"}
<1>1. CASE w = WakeWriters
  BY <1>1 DEF WakeWriters, PrintInv, TypeOK, Location, Writing
<1>2. CASE w = WakeClosers
  BY <1>2 DEF WakeClosers, PrintInv, TypeOK, Location, Writing
<1>3. CASE w = pc
  BY <1>3 DEF PrintInv, TypeOK
<1>4. QED
  BY <1>1, <1>2, <1>3

(* The work item takes the byte at the tail, or ends the output.           *)
LEMMA WorkStep ==
    ASSUME PrintInv, WorkLocked
    PROVE  PrintInv'
<1>1. /\ UNCHANGED <<out_head, out_sem, timeout, queued, irq, space, left, oops>> /\ work' = "record"
      /\ pc' \in {WakeWriters, WakeClosers, pc}
      /\ timer' \in BOOLEAN /\ active' \in BOOLEAN /\ printer' \in {"ready", "busy", "acking"}
      /\ \/ out_head = out_tail /\ active' = FALSE /\ UNCHANGED <<cell, out_tail>>
         \/ /\ out_head # out_tail /\ timer' = TRUE /\ UNCHANGED active
            /\ cell' = [cell EXCEPT ![out_tail] = NoProc] /\ out_tail' = incr_out_bp(out_tail, 1)
  BY DEF WorkLocked, DoWrite, PrintInv, TypeOK
<1>2. /\ out_head \in 0 .. PAGE_SIZE - 1 /\ out_tail \in 0 .. PAGE_SIZE - 1 /\ PAGE_SIZE \in Nat \ {0, 1}
  BY ShortPrintAssumption DEF PrintInv, TypeOK
<1>3. /\ pc' \in [Proc -> Location]
      /\ \A p \in Proc :
             /\ pc'[p] \in Writing <=> pc[p] \in Writing
             /\ pc'[p] = "w_start" <=> pc[p] = "w_start"
             /\ pc'[p] = "w_copy" <=> pc[p] = "w_copy"
             /\ pc'[p] = "w_down" <=> pc[p] = "w_down"
             /\ pc'[p] \in {"w_behind", "w_qbehind"} <=> pc[p] \in {"w_behind", "w_qbehind"}
  BY <1>1, WakeStep
<1>4. /\ out_tail' \in 0 .. PAGE_SIZE - 1
      /\ out_tail <= out_head => out_tail' <= out_head
      /\ Filled' <= Filled /\ Filled' \in Int /\ Filled \in Int
  BY <1>1, <1>2 DEF incr_out_bp, Filled
<1>5. cell' \in [0 .. PAGE_SIZE - 1 -> Proc \cup {NoProc}]
  BY <1>1, <1>2 DEF PrintInv, TypeOK
<1>6. TypeOK'
  BY <1>1, <1>3, <1>4, <1>5 DEF PrintInv, TypeOK
<1>7. SemaphoreDiscipline'
  BY <1>1, <1>3 DEF PrintInv, SemaphoreDiscipline
<1>8. ASSUME NEW p \in Proc
      PROVE  Holds(pc[p], left[p], space[p])'
  <2>1. space[p] \in Int /\ left' = left /\ space' = space /\ out_head' = out_head /\ Holds(pc[p], left[p], space[p])
    BY <1>1 DEF PrintInv, TypeOK
  <2>2. pc'[p] \in {"w_behind", "w_qbehind"} => out_tail' <= out_head'
    BY <1>3, <1>4, <2>1 DEF Holds
  <2>3. pc'[p] \in {"w_down"} \cup (Writing \ {"w_start"}) => left'[p] > 0
    BY <1>3, <2>1 DEF Holds
  <2>4. pc'[p] = "w_copy" => space'[p] > 0 /\ out_head' + space'[p] <= PAGE_SIZE /\ Filled' + space'[p] < PAGE_SIZE
    BY <1>2, <1>3, <1>4, <2>1 DEF Holds
  <2>5. QED
    BY <2>2, <2>3, <2>4 DEF Holds
<1>9. NeverStalls'
  BY <1>1, <1>3 DEF PrintInv, NeverStalls
<1>10. QED
  BY <1>6, <1>7, <1>8, <1>9 DEF PrintInv

(* The other steps of the engine leave the ring and the processes alone,   *)
(* and hand the output on from one to the next.                            *)
LEMMA EngineStep ==
    ASSUME PrintInv, Engine
    PROVE  PrintInv'
<1>1. CASE WorkLocked
  BY <1>1, WorkStep
<1>2. CASE \/ WorkStart \/ WorkRecord \/ Interrupt \/ TimerFires \/ TimeoutTest \/ TimeoutLocked
           \/ PrinterAcks \/ PrinterReady
  <2>1. UNCHANGED <<output, pc, space, left, active>>
    BY <1>2 DEF WorkStart, WorkRecord, Interrupt, TimerFires, TimeoutTest, TimeoutLocked, PrinterAcks,
                PrinterReady, engine
  <2>2. /\ timer' \in BOOLEAN /\ queued' \in BOOLEAN /\ irq' \in BOOLEAN /\ oops' \in BOOLEAN
        /\ timeout' \in {"idle", "fired", "locking"} /\ work' \in {"idle", "waiting", "record"}
        /\ printer' \in {"ready", "busy", "acking"}
    BY <1>2 DEF WorkStart, WorkRecord, Interrupt, TimerFires, TimeoutTest, TimeoutLocked, PrinterAcks,
                PrinterReady, engine, device, AddTimer, QueueWork, PrintInv, TypeOK
  <2>3. active => queued' \/ work' = "waiting" \/ timer' \/ timeout' # "idle"
    BY <1>2 DEF WorkStart, WorkRecord, Interrupt, TimerFires, TimeoutTest, TimeoutLocked, PrinterAcks,
                PrinterReady, engine, device, AddTimer, QueueWork, PrintInv, NeverStalls, TypeOK
  <2>4. TypeOK'
    BY <2>1, <2>2 DEF PrintInv, TypeOK, output
  <2>5. SemaphoreDiscipline' /\ NeverStalls'
    BY <2>1, <2>3 DEF PrintInv, SemaphoreDiscipline, NeverStalls, output
  <2>6. \A p \in Proc : Holds(pc[p], left[p], space[p])'
    BY <2>1 DEF PrintInv, Holds, Filled, output
  <2>7. QED
    BY <2>4, <2>5, <2>6 DEF PrintInv
<1>3. QED
  BY <1>1, <1>2 DEF Engine

LEMMA PrintInvHolds == Spec => []PrintInv
<1>1. Init => PrintInv
  <2> SUFFICES ASSUME Init PROVE PrintInv
    OBVIOUS
  <2>1. TypeOK
    <3>1. /\ cell \in [0 .. PAGE_SIZE - 1 -> Proc \cup {NoProc}]
          /\ out_head \in 0 .. PAGE_SIZE - 1 /\ out_tail \in 0 .. PAGE_SIZE - 1
      BY ShortPrintAssumption DEF Init
    <3>2. pc \in [Proc -> Location]
      BY DEF Init, Location
    <3>3. space \in [Proc -> Int] /\ left \in [Proc -> 0 .. MaxCount]
      BY ShortPrintAssumption DEF Init
    <3>4. QED
      BY <3>1, <3>2, <3>3 DEF Init, TypeOK
  <2>2. \A p \in Proc : pc[p] = "closed"
    BY DEF Init
  <2>3. SemaphoreDiscipline
    BY <2>2, ShortPrintAssumption DEF Init, SemaphoreDiscipline, Writing
  <2>4. NeverStalls
    BY DEF Init, NeverStalls
  <2>5. \A p \in Proc : Holds(pc[p], left[p], space[p])
    BY <2>2 DEF Holds, Writing
  <2>6. QED
    BY <2>1, <2>3, <2>4, <2>5 DEF PrintInv
<1>2. ASSUME PrintInv, [Next]_vars
      PROVE  PrintInv'
  <2>1. CASE UNCHANGED vars
    <3>1. TypeOK'
      BY <1>2, <2>1 DEF vars, output, engine, device, PrintInv, TypeOK
    <3>2. SemaphoreDiscipline' /\ NeverStalls'
      BY <1>2, <2>1 DEF vars, output, engine, PrintInv, SemaphoreDiscipline, NeverStalls
    <3>3. \A p \in Proc : Holds(pc[p], left[p], space[p])'
      BY <1>2, <2>1 DEF vars, output, PrintInv, Holds, Filled
    <3>4. QED
      BY <3>1, <3>2, <3>3 DEF PrintInv
  <2>2. CASE Engine
    BY <1>2, <2>2, EngineStep
  <2>3. ASSUME NEW p \in Proc, Process(p)
        PROVE  PrintInv'
    BY <1>2, <2>3, CallStep, ComputeStep, CopyStep, StartStep DEF Process, WriteSteps, Signals
  <2>4. QED
    BY <1>2, <2>1, <2>2, <2>3 DEF Next
<1>3. QED
  BY <1>1, <1>2, PTL DEF Spec

(* One writer at a time, and no chunk that overruns the page or the bytes  *)
(* in line, although the space was computed from a tail that had moved.    *)
THEOREM RingStaysSound == Spec => []RingIsSound
<1>1. PrintInv => RingIsSound
  <2> SUFFICES ASSUME PrintInv, NEW p \in Proc, pc[p] = "w_copy"
               PROVE  Chunk(p) > 0 /\ out_head + Chunk(p) <= PAGE_SIZE /\ InLine + Chunk(p) < PAGE_SIZE
    BY DEF PrintInv, RingIsSound, CopyFits
  <2>1. /\ out_head \in 0 .. PAGE_SIZE - 1 /\ out_tail \in 0 .. PAGE_SIZE - 1 /\ PAGE_SIZE \in Nat
        /\ left[p] \in Nat /\ space[p] \in Int /\ Holds("w_copy", left[p], space[p])
    BY ShortPrintAssumption DEF PrintInv, TypeOK
  <2>2. InLine = Filled /\ Filled \in Int
    <3>1. InLine = IF out_tail <= out_head THEN out_head - out_tail ELSE out_head - out_tail + PAGE_SIZE
      BY <2>1, RingArithmetic DEF InLine
    <3>2. QED
      BY <2>1, <3>1 DEF Filled
  <2>3. /\ left[p] > 0 /\ space[p] > 0
        /\ out_head + space[p] <= PAGE_SIZE /\ Filled + space[p] < PAGE_SIZE
    BY <2>1 DEF Holds, Writing
  <2>4. QED
    BY <2>1, <2>2, <2>3 DEF Chunk
<1>2. QED
  BY <1>1, PrintInvHolds, PTL

(* Bytes in line always have someone who will move them on, whichever      *)
(* interrupts are missed and however the timer races with the work item.   *)
THEOREM OutputGoesOn == Spec => []NeverStalls
<1>1. PrintInv => NeverStalls
  BY DEF PrintInv
<1>2. QED
  BY <1>1, PrintInvHolds, PTL

-----------------------------------------------------------------------------
(* The bytes of a ring with head h, tail t and cells c, without remainders. *)
Dist(h, t) == IF t <= h THEN h - t ELSE h - t + PAGE_SIZE
Spot(k) == IF k < PAGE_SIZE THEN k ELSE k - PAGE_SIZE
BytesOf(h, t, c) == [i \in 1 .. Dist(h, t) |-> c[Spot(t + i - 1)]]
Place == 0 .. PAGE_SIZE - 1
Cells == [Place -> Proc \cup {NoProc}]

LEMMA BytesInLine ==
    ASSUME NEW h \in Place, NEW t \in Place, NEW c
    PROVE  [i \in 1 .. ((h - t + PAGE_SIZE) % PAGE_SIZE) |-> c[(t + i - 1) % PAGE_SIZE]] = BytesOf(h, t, c)
<1>1. PAGE_SIZE \in Nat \ {0}
  BY ShortPrintAssumption
<1>2. (h - t + PAGE_SIZE) % PAGE_SIZE = Dist(h, t) /\ Dist(h, t) \in Place
  BY <1>1, RingArithmetic DEF Dist, Place
<1>3. ASSUME NEW i \in 1 .. Dist(h, t)
      PROVE  (t + i - 1) % PAGE_SIZE = Spot(t + i - 1)
  <2>1. t + i - 1 \in 0 .. 2 * PAGE_SIZE - 1
    BY <1>1, <1>2 DEF Place
  <2>2. \A a \in 0 .. PAGE_SIZE - 1 : a % PAGE_SIZE = a /\ (a + PAGE_SIZE) % PAGE_SIZE = a
    BY <1>1
  <2>3. CASE t + i - 1 < PAGE_SIZE
    BY <1>1, <2>1, <2>2, <2>3 DEF Spot
  <2>4. CASE t + i - 1 >= PAGE_SIZE
    <3>1. t + i - 1 - PAGE_SIZE \in 0 .. PAGE_SIZE - 1 /\ (t + i - 1 - PAGE_SIZE) + PAGE_SIZE = t + i - 1
      BY <1>1, <1>2, <2>1, <2>4 DEF Place
    <3>2. (t + i - 1) % PAGE_SIZE = t + i - 1 - PAGE_SIZE
      BY <2>2, <3>1
    <3>3. QED
      BY <1>1, <2>1, <2>4, <3>2 DEF Spot
  <2>5. QED
    BY <1>1, <2>1, <2>3, <2>4
<1>4. QED
  BY <1>2, <1>3 DEF BytesOf

(* Bytes of one process.                                                   *)
Run(n, p) == [i \in 1 .. n |-> p]

(* Two sequences of which one goes on where the other ends.                *)
LEMMA GoesOn ==
    ASSUME NEW s \in Seq(Proc \cup {NoProc}), NEW u \in Seq(Proc \cup {NoProc}), NEW n \in Nat, NEW p \in Proc,
           Len(u) = Len(s) + n,
           \A i \in 1 .. Len(s) : u[i] = s[i],
           \A i \in Len(s) + 1 .. Len(s) + n : u[i] = p
    PROVE  u = s \o Run(n, p)
<1> DEFINE e == Run(n, p)
<1>1. e \in Seq(Proc \cup {NoProc}) /\ Len(e) = n /\ \A i \in 1 .. n : e[i] = p
  BY DEF Run
<1> HIDE DEF e
<1>2. s \o e \in Seq(Proc \cup {NoProc}) /\ Len(s \o e) = Len(s) + n
  BY <1>1
<1>3. ASSUME NEW i \in 1 .. Len(u)
      PROVE  u[i] = (s \o e)[i]
  <2>1. CASE i <= Len(s)
    BY <1>1, <2>1
  <2>2. CASE i > Len(s)
    <3>1. (s \o e)[i] = e[i - Len(s)] /\ i - Len(s) \in 1 .. n /\ i \in Len(s) + 1 .. Len(s) + n
      BY <1>1, <2>2
    <3>2. QED
      BY <1>1, <3>1
  <2>3. i <= Len(s) \/ i > Len(s)
    OBVIOUS
  <2>4. QED
    BY <2>1, <2>2, <2>3, Zenon
<1>4. u = s \o e
  BY <1>2, <1>3, SeqEqual
<1>5. QED
  BY <1>4 DEF e

LEMMA Sequence ==
    ASSUME NEW h \in Place, NEW t \in Place, NEW c \in Cells
    PROVE  /\ BytesOf(h, t, c) \in Seq(Proc \cup {NoProc}) /\ Len(BytesOf(h, t, c)) = Dist(h, t)
           /\ Dist(h, t) \in Place /\ (Dist(h, t) = 0 <=> h = t)
           /\ \A i \in 1 .. Dist(h, t) : Spot(t + i - 1) \in Place /\ BytesOf(h, t, c)[i] = c[Spot(t + i - 1)]
<1>1. PAGE_SIZE \in Nat \ {0}
  BY ShortPrintAssumption
<1>2. Dist(h, t) \in Place /\ (Dist(h, t) = 0 <=> h = t)
  BY <1>1 DEF Dist, Place
<1>3. \A i \in 1 .. Dist(h, t) : Spot(t + i - 1) \in Place
  BY <1>1, <1>2 DEF Spot, Place
<1>4. \A i \in 1 .. Dist(h, t) : c[Spot(t + i - 1)] \in Proc \cup {NoProc}
  BY <1>3 DEF Cells
<1>5. Dist(h, t) \in Nat
  BY <1>1, <1>2 DEF Place
<1>6. QED
  BY <1>2, <1>3, <1>4, <1>5 DEF BytesOf

(* The cells d are c with n bytes of p from h on.                          *)
Written(c, d, h, n, p) == \A i \in Place : d[i] = IF i \in h .. h + n - 1 THEN p ELSE c[i]

(* A chunk written at the head goes behind the bytes in line.              *)
LEMMA ChunkGoesBehind ==
    ASSUME NEW h \in Place, NEW t \in Place, NEW c \in Cells, NEW d \in Cells, NEW p \in Proc, NEW n \in Nat \ {0},
           h + n <= PAGE_SIZE, Dist(h, t) + n < PAGE_SIZE,
           Written(c, d, h, n, p)
    PROVE  /\ incr_out_bp(h, n) \in Place
           /\ Dist(incr_out_bp(h, n), t) = Dist(h, t) + n
           /\ BytesOf(incr_out_bp(h, n), t, d) = BytesOf(h, t, c) \o Run(n, p)
<1> DEFINE g == incr_out_bp(h, n)
<1>1. PAGE_SIZE \in Nat \ {0} /\ n \in Nat
  BY ShortPrintAssumption
<1>2. g \in Place /\ Dist(g, t) = Dist(h, t) + n
  BY <1>1 DEF incr_out_bp, Dist, Place
<1> HIDE DEF g
<1>3. \A i \in 1 .. Dist(h, t) : Spot(t + i - 1) \in Place /\ Spot(t + i - 1) \notin h .. h + n - 1
  BY <1>1 DEF Spot, Dist, Place
<1>4. \A i \in Dist(h, t) + 1 .. Dist(h, t) + n : Spot(t + i - 1) \in Place /\ Spot(t + i - 1) \in h .. h + n - 1
  BY <1>1 DEF Spot, Dist, Place
<1> DEFINE s == BytesOf(h, t, c)
           r == BytesOf(g, t, d)
           m == Dist(h, t)
<1>5. /\ s \in Seq(Proc \cup {NoProc}) /\ Len(s) = m /\ m \in Nat
      /\ \A i \in 1 .. m : s[i] = c[Spot(t + i - 1)]
  <2>1. /\ s \in Seq(Proc \cup {NoProc}) /\ Len(s) = m /\ m \in Place
        /\ \A i \in 1 .. m : s[i] = c[Spot(t + i - 1)]
    BY Sequence
  <2>2. m \in Nat
    BY <1>1, <2>1 DEF Place
  <2>3. QED
    BY <2>1, <2>2
<1>6. /\ r \in Seq(Proc \cup {NoProc}) /\ Len(r) = m + n
      /\ \A i \in 1 .. m + n : r[i] = d[Spot(t + i - 1)]
  <2>1. /\ r \in Seq(Proc \cup {NoProc}) /\ Len(r) = Dist(g, t)
        /\ \A i \in 1 .. Dist(g, t) : r[i] = d[Spot(t + i - 1)]
    BY <1>2, Sequence
  <2>2. QED
    BY <1>2, <2>1
<1> HIDE DEF s, r, m
<1>7. \A i \in 1 .. m : r[i] = s[i]
  <2> SUFFICES ASSUME NEW i \in 1 .. m PROVE r[i] = s[i]
    OBVIOUS
  <2>1. Spot(t + i - 1) \in Place /\ Spot(t + i - 1) \notin h .. h + n - 1
    BY <1>3 DEF m
  <2>2. i \in 1 .. m + n
    BY <1>1, <1>5
  <2>3. d[Spot(t + i - 1)] = c[Spot(t + i - 1)]
    BY <2>1 DEF Written
  <2>4. QED
    BY <1>5, <1>6, <2>2, <2>3
<1>8. \A i \in m + 1 .. m + n : r[i] = p
  <2> SUFFICES ASSUME NEW i \in m + 1 .. m + n PROVE r[i] = p
    OBVIOUS
  <2>1. Spot(t + i - 1) \in Place /\ Spot(t + i - 1) \in h .. h + n - 1
    BY <1>4 DEF m
  <2>2. i \in 1 .. m + n
    BY <1>1, <1>5
  <2>3. QED
    BY <1>6, <2>1, <2>2 DEF Written
<1>9. r = s \o Run(n, p)
  BY <1>1, <1>5, <1>6, <1>7, <1>8, GoesOn
<1>10. QED
  BY <1>2, <1>9 DEF g, r, s

(* Moving the tail takes the first byte.                                   *)
LEMMA FirstGoes ==
    ASSUME NEW h \in Place, NEW t \in Place, NEW c \in Cells, NEW d \in Cells,
           h # t, \A i \in Place \ {t} : d[i] = c[i]
    PROVE  /\ incr_out_bp(t, 1) \in Place
           /\ BytesOf(h, t, c) # <<>>
           /\ BytesOf(h, incr_out_bp(t, 1), d) = Tail(BytesOf(h, t, c))
<1> DEFINE u == incr_out_bp(t, 1)
           s == BytesOf(h, t, c)
           r == BytesOf(h, u, d)
<1>1. PAGE_SIZE \in Nat \ {0}
  BY ShortPrintAssumption
<1>2. u \in Place /\ Dist(h, u) = Dist(h, t) - 1 /\ Dist(h, t) \in Nat \ {0}
  BY <1>1 DEF incr_out_bp, Dist, Place
<1>3. \A i \in 1 .. Dist(h, t) - 1 : Spot(u + i - 1) = Spot(t + (i + 1) - 1) /\ Spot(u + i - 1) \in Place \ {t}
  BY <1>1 DEF incr_out_bp, Spot, Dist, Place
<1> HIDE DEF u
<1>4. /\ s \in Seq(Proc \cup {NoProc}) /\ Len(s) = Dist(h, t)
      /\ \A i \in 1 .. Dist(h, t) : s[i] = c[Spot(t + i - 1)]
      /\ r \in Seq(Proc \cup {NoProc}) /\ Len(r) = Dist(h, t) - 1
      /\ \A i \in 1 .. Dist(h, t) - 1 : r[i] = d[Spot(u + i - 1)]
  <2>1. /\ s \in Seq(Proc \cup {NoProc}) /\ Len(s) = Dist(h, t)
        /\ \A i \in 1 .. Dist(h, t) : s[i] = c[Spot(t + i - 1)]
    BY Sequence
  <2>2. /\ r \in Seq(Proc \cup {NoProc}) /\ Len(r) = Dist(h, u)
        /\ \A i \in 1 .. Dist(h, u) : r[i] = d[Spot(u + i - 1)]
    BY <1>2, Sequence
  <2>3. QED
    BY <1>2, <2>1, <2>2
<1> HIDE DEF s, r
<1>5. s # <<>>
  BY <1>2, <1>4
<1>6. /\ Tail(s) \in Seq(Proc \cup {NoProc}) /\ Len(Tail(s)) = Dist(h, t) - 1
      /\ \A i \in 1 .. Dist(h, t) - 1 : Tail(s)[i] = s[i + 1]
  BY <1>2, <1>4, <1>5
<1>7. \A i \in 1 .. Dist(h, t) - 1 : r[i] = Tail(s)[i]
  <2> SUFFICES ASSUME NEW i \in 1 .. Dist(h, t) - 1 PROVE r[i] = Tail(s)[i]
    OBVIOUS
  <2>1. i + 1 \in 1 .. Dist(h, t)
    BY <1>2
  <2>2. Tail(s)[i] = c[Spot(t + (i + 1) - 1)]
    BY <1>4, <1>6, <2>1
  <2>3. r[i] = c[Spot(u + i - 1)]
    BY <1>3, <1>4
  <2>4. QED
    BY <1>3, <2>2, <2>3
<1>8. r = Tail(s)
  BY <1>4, <1>6, <1>7, SeqEqual
<1>9. QED
  BY <1>2, <1>5, <1>8 DEF u, s, r

(* What the line is now: bytes, as many as between tail and head.          *)
LEMMA LineNow ==
    ASSUME PrintInv
    PROVE  /\ out_head \in Place /\ out_tail \in Place /\ cell \in Cells
           /\ Line = BytesOf(out_head, out_tail, cell)
           /\ Line \in Seq(Proc \cup {NoProc}) /\ Len(Line) = InLine /\ InLine = Dist(out_head, out_tail)
           /\ Dist(out_head, out_tail) \in Nat
           /\ InLine = 0 <=> out_head = out_tail
<1>1. out_head \in Place /\ out_tail \in Place /\ cell \in Cells /\ PAGE_SIZE \in Nat
  BY ShortPrintAssumption DEF PrintInv, TypeOK, Place, Cells
<1>2. Line = BytesOf(out_head, out_tail, cell)
  BY <1>1, BytesInLine DEF Line, InLine
<1>3. InLine = Dist(out_head, out_tail)
  BY <1>1, RingArithmetic DEF InLine, Dist, Place
<1>4. /\ Line \in Seq(Proc \cup {NoProc}) /\ Len(Line) = Dist(out_head, out_tail)
      /\ Dist(out_head, out_tail) \in Place /\ (Dist(out_head, out_tail) = 0 <=> out_head = out_tail)
  BY <1>1, <1>2, Sequence
<1>5. QED
  BY <1>1, <1>2, <1>3, <1>4 DEF Place

(* A step leaves the line, puts a chunk behind it or takes its first byte. *)
LEMMA CopyPuts ==
    ASSUME PrintInv, PrintInv', NEW p \in Proc, WriteCopy(p)
    PROVE  /\ Chunk(p) \in Nat \ {0} /\ Len(Line') = Len(Line) + Chunk(p)
           /\ Line' = Line \o Run(Chunk(p), p)
<1> DEFINE n == Chunk(p)
<1>1. /\ pc[p] = "w_copy" /\ out_head' = incr_out_bp(out_head, n) /\ out_tail' = out_tail
      /\ cell' = [i \in DOMAIN cell |-> IF i \in out_head .. out_head + n - 1 THEN p ELSE cell[i]]
  BY DEF WriteCopy
<1>2. /\ out_head \in 0 .. PAGE_SIZE - 1 /\ out_tail \in 0 .. PAGE_SIZE - 1 /\ PAGE_SIZE \in Nat
      /\ left[p] \in Nat /\ space[p] \in Int /\ Holds("w_copy", left[p], space[p])
      /\ cell \in Cells /\ cell' \in Cells /\ DOMAIN cell = Place
  BY <1>1, ShortPrintAssumption DEF PrintInv, TypeOK, Cells, Place
<1>3. /\ left[p] > 0 /\ space[p] > 0
      /\ out_head + space[p] <= PAGE_SIZE /\ Filled + space[p] < PAGE_SIZE
  BY <1>2 DEF Holds, Writing
<1>4. n \in Nat \ {0} /\ n <= space[p]
  BY <1>2, <1>3 DEF Chunk
<1> HIDE DEF n
<1>5. out_head + n <= PAGE_SIZE /\ Dist(out_head, out_tail) + n < PAGE_SIZE
  BY <1>2, <1>3, <1>4 DEF Filled, Dist
<1>6. Written(cell, cell', out_head, n, p)
  BY <1>1, <1>2 DEF Written
<1>7. /\ incr_out_bp(out_head, n) \in Place
      /\ Dist(incr_out_bp(out_head, n), out_tail) = Dist(out_head, out_tail) + n
      /\ BytesOf(incr_out_bp(out_head, n), out_tail, cell')
             = BytesOf(out_head, out_tail, cell) \o Run(n, p)
  <2>1. out_head \in Place /\ out_tail \in Place
    BY <1>2 DEF Place
  <2>2. cell \in Cells /\ cell' \in Cells
    BY <1>2
  <2>3. QED
    BY <1>4, <1>5, <1>6, <2>1, <2>2, ChunkGoesBehind
<1>8. Line' = BytesOf(out_head', out_tail', cell') /\ Line = BytesOf(out_head, out_tail, cell)
  <2>1. out_head' \in Place /\ out_tail' \in Place /\ out_head \in Place /\ out_tail \in Place
    BY DEF PrintInv, TypeOK, Place
  <2>2. QED
    BY <2>1, BytesInLine DEF Line, InLine
<1>9. Line' = Line \o Run(n, p)
  BY <1>1, <1>7, <1>8
<1>10. Len(Line') = Len(Line) + n
  <2>1. Len(Line') = Dist(out_head', out_tail')
    <3>1. out_head' \in Place /\ out_tail' \in Place /\ cell' \in Cells
      BY DEF PrintInv, TypeOK, Place, Cells
    <3>2. QED
      BY <1>8, <3>1, Sequence
  <2>2. QED
    BY <1>1, <1>7, <2>1, LineNow
<1>11. QED
  BY <1>4, <1>9, <1>10 DEF n

LEMMA WorkTakes ==
    ASSUME PrintInv, PrintInv', WorkLocked, out_head # out_tail
    PROVE  Line # <<>> /\ Line' = Tail(Line)
<1>1. out_head' = out_head /\ out_tail' = incr_out_bp(out_tail, 1) /\ cell' = [cell EXCEPT ![out_tail] = NoProc]
  BY DEF WorkLocked, DoWrite
<1>2. /\ out_head \in Place /\ out_tail \in Place /\ cell \in Cells /\ cell' \in Cells
      /\ out_head' \in Place /\ out_tail' \in Place
  BY ShortPrintAssumption DEF PrintInv, TypeOK, Cells, Place
<1>3. /\ BytesOf(out_head, out_tail, cell) # <<>>
      /\ BytesOf(out_head, incr_out_bp(out_tail, 1), cell') = Tail(BytesOf(out_head, out_tail, cell))
  <2>1. \A i \in Place \ {out_tail} : cell'[i] = cell[i]
    BY <1>1, <1>2 DEF Cells
  <2>2. QED
    BY <1>2, <2>1, FirstGoes
<1>4. Line' = BytesOf(out_head', out_tail', cell') /\ Line = BytesOf(out_head, out_tail, cell)
  BY <1>2, BytesInLine DEF Line, InLine
<1>5. QED
  BY <1>1, <1>3, <1>4

(* The other steps leave the ring as it is.                                *)
RingStays == UNCHANGED <<cell, out_head, out_tail>>

LEMMA Otherwise ==
    ASSUME [Next]_vars
    PROVE  \/ RingStays
           \/ \E p \in Proc : WriteCopy(p)
           \/ WorkLocked /\ out_head # out_tail
<1>1. CASE UNCHANGED vars
  BY <1>1 DEF vars, output, RingStays
<1>2. CASE Engine
  BY <1>2 DEF Engine, WorkStart, WorkLocked, WorkRecord, Interrupt, TimerFires, TimeoutTest, TimeoutLocked,
              PrinterAcks, PrinterReady, output, RingStays
<1>3. ASSUME NEW p \in Proc, Process(p)
      PROVE  RingStays \/ WriteCopy(p)
  BY <1>3 DEF Process, WriteSteps, Signals, Open, Release, ReleaseTest, ReleaseInterrupted, Write, WriteDown,
              WriteDownInterrupted, CompareHeadTail, ComputeSpace, PrepareToWait, WriteInterrupted, WriteFault,
              WriteStart, output, RingStays
<1>4. QED
  BY <1>1, <1>2, <1>3 DEF Next

(* The ring, the port and its engine implement a queue to the printer.     *)
(* Whichever way writers, the work item and the timer interleave, every    *)
(* byte in line goes out once and in order.                                *)
THEOREM PrintsInOrder == Spec => IsPrintQueue
<1>1. Init => Queue!Init
  <2> SUFFICES ASSUME Init PROVE Line = <<>>
    BY DEF Queue!Init
  <2>1. PAGE_SIZE \in Nat \ {0} /\ out_head = 0 /\ out_tail = 0
    BY ShortPrintAssumption DEF Init
  <2>2. InLine = 0
    BY <2>1, RingArithmetic DEF InLine
  <2>3. QED
    BY <2>2 DEF Line
<1>2. ASSUME PrintInv, PrintInv', [Next]_vars
      PROVE  [Queue!Next]_Line
  <2>1. CASE RingStays
    BY <2>1 DEF RingStays, Line, InLine
  <2>2. ASSUME NEW p \in Proc, WriteCopy(p)
        PROVE  Queue!Put(p)
    <3>1. /\ Chunk(p) \in Nat \ {0} /\ Len(Line') = Len(Line) + Chunk(p)
          /\ Line' = Line \o Run(Chunk(p), p)
      BY <1>2, <2>2, CopyPuts
    <3>2. Len(Line) \in Nat
      BY <1>2, LineNow
    <3>3. Len(Line') > Len(Line) /\ Len(Line') - Len(Line) = Chunk(p)
      BY <3>1, <3>2
    <3>4. QED
      BY <3>1, <3>3 DEF Queue!Put, Run
  <2>3. CASE WorkLocked /\ out_head # out_tail
    BY <1>2, <2>3, WorkTakes DEF Queue!Next, Queue!Strobe
  <2>4. QED
    BY <1>2, <2>1, <2>2, <2>3, Otherwise DEF Queue!Next
<1>3. QED
  BY <1>1, <1>2, PrintInvHolds, PTL DEF Spec, IsPrintQueue, Queue!Spec

-----------------------------------------------------------------------------
(* While output is not active, whose bytes are in line is about to start   *)
(* it: they came in one chunk, since the last byte before them went out.   *)
Started == ~active => \A i \in 1 .. Len(Line) : Line[i] \in Proc /\ pc[Line[i]] = "w_start"

LEMMA Starting ==
    ASSUME [Next]_vars, NEW p \in Proc, pc[p] = "w_start", PrintInv
    PROVE  active' \/ pc'[p] = "w_start"
<1>1. CASE UNCHANGED vars
  BY <1>1 DEF vars
<1>2. CASE Engine
  <2>1. CASE WorkLocked
    <3>1. pc' \in {WakeWriters, WakeClosers, pc}
      BY <2>1 DEF WorkLocked
    <3>2. QED
      BY <3>1, WakeStep
  <2>2. CASE ~WorkLocked
    BY <1>2, <2>2 DEF Engine, WorkStart, WorkRecord, Interrupt, TimerFires, TimeoutTest, TimeoutLocked,
                      PrinterAcks, PrinterReady
  <2>3. QED
    BY <2>1, <2>2
<1>3. ASSUME NEW q \in Proc, Process(q)
      PROVE  active' \/ pc'[p] = "w_start"
  <2>1. CASE WriteStart(q)
    BY <2>1 DEF WriteStart, StartOutput
  <2>2. CASE ~WriteStart(q)
    <3>1. pc[q] # "w_start" /\ \E l \in Location : pc' = [pc EXCEPT ![q] = l]
      BY <1>3, <2>2 DEF Process, WriteSteps, Signals, Open, Release, ReleaseTest, ReleaseInterrupted, Write,
                        WriteDown, WriteDownInterrupted, CompareHeadTail, ComputeSpace, PrepareToWait,
                        WriteInterrupted, WriteFault, WriteUp, WriteCopy, GoTo, Location
    <3>2. QED
      BY <3>1 DEF PrintInv, TypeOK
  <2>3. QED
    BY <2>1, <2>2
<1>4. QED
  BY <1>1, <1>2, <1>3 DEF Next

(* Output ends only where the work item finds nothing in line.             *)
LEMMA Ending ==
    ASSUME [Next]_vars, active, ~active'
    PROVE  out_head = out_tail
<1>1. WorkLocked
  BY DEF Next, vars, engine, Engine, WorkStart, WorkRecord, Interrupt, TimerFires, TimeoutTest, TimeoutLocked,
         PrinterAcks, PrinterReady, Process, WriteSteps, Signals, Open, Release, ReleaseTest,
         ReleaseInterrupted, Write, WriteDown, WriteDownInterrupted, CompareHeadTail, ComputeSpace,
         PrepareToWait, WriteInterrupted, WriteFault, WriteCopy, WriteStart, StartOutput
<1>2. QED
  BY <1>1 DEF WorkLocked

LEMMA StartedStep ==
    ASSUME PrintInv, PrintInv', Started, [Next]_vars
    PROVE  Started'
<1> SUFFICES ASSUME ~active'
             PROVE  \A i \in 1 .. Len(Line') : Line'[i] \in Proc /\ pc'[Line'[i]] = "w_start"
  BY DEF Started
<1>1. Len(Line) \in Nat /\ (Len(Line) = 0 <=> out_head = out_tail) /\ Line \in Seq(Proc \cup {NoProc})
  BY LineNow
<1>2. \A p \in Proc : pc[p] = "w_start" => pc'[p] = "w_start"
  BY Starting
<1>3. CASE RingStays
  <2>1. Line' = Line
    BY <1>3 DEF RingStays, Line, InLine
  <2>2. CASE active
    <3>1. out_head = out_tail
      BY <2>2, Ending
    <3>2. QED
      BY <1>1, <2>1, <3>1
  <2>3. CASE ~active
    BY <1>2, <2>1, <2>3 DEF Started
  <2>4. QED
    BY <2>2, <2>3
<1>4. ASSUME NEW p \in Proc, WriteCopy(p)
      PROVE  \A i \in 1 .. Len(Line') : Line'[i] \in Proc /\ pc'[Line'[i]] = "w_start"
  <2>1. pc[p] = "w_copy" /\ pc'[p] = "w_start" /\ ~active
    BY <1>4 DEF WriteCopy, GoTo, engine, PrintInv, TypeOK
  <2>2. out_head = out_tail
    BY <2>1 DEF PrintInv, NeverStalls, SemaphoreDiscipline, Writing
  <2>3. /\ Chunk(p) \in Nat \ {0} /\ Len(Line') = Len(Line) + Chunk(p)
        /\ Line' = Line \o Run(Chunk(p), p)
    BY <1>4, CopyPuts
  <2>4. Line = <<>> /\ Run(Chunk(p), p) \in Seq(Proc)
    BY <1>1, <2>2, <2>3 DEF Run
  <2>5. Line' = Run(Chunk(p), p)
    BY <2>3, <2>4
  <2>6. \A i \in 1 .. Len(Line') : Line'[i] = p
    BY <2>3, <2>5 DEF Run
  <2>7. QED
    BY <2>1, <2>6
<1>5. CASE WorkLocked /\ out_head # out_tail
  <2>1. ~active
    BY <1>5 DEF WorkLocked
  <2>2. Line # <<>> /\ Line' = Tail(Line)
    BY <1>5, WorkTakes
  <2>3. \A i \in 1 .. Len(Line') : i + 1 \in 1 .. Len(Line) /\ Line'[i] = Line[i + 1]
    BY <1>1, <2>2
  <2>4. QED
    BY <1>2, <2>1, <2>3 DEF Started
<1>6. QED
  BY <1>3, <1>4, <1>5, Otherwise

(* A close that no signal cuts short comes back with nothing of its        *)
(* process in line, although it looks at shortp_output_active without any  *)
(* lock: output that is about to start is not the closing process's.       *)
THEOREM ClosesAreLast == Spec => ClosedIsPrinted
<1>1. Init => Started
  <2> SUFFICES ASSUME Init PROVE Len(Line) = 0
    BY DEF Started
  <2>1. PAGE_SIZE \in Nat \ {0} /\ out_head = 0 /\ out_tail = 0
    BY ShortPrintAssumption DEF Init
  <2>2. InLine = 0
    BY <2>1, RingArithmetic DEF InLine
  <2>3. QED
    BY <2>2 DEF Line
<1>2. ASSUME PrintInv, Started
      PROVE  \A p \in Proc : pc[p] \in {"x_test", "x_queued"} /\ pc'[p] = "closed" /\ ~active
                 => p \notin {cell[(out_tail + i - 1) % PAGE_SIZE] : i \in 1 .. InLine}
  <2>1. Len(Line) = InLine
    BY <1>2, LineNow
  <2>2. {cell[(out_tail + i - 1) % PAGE_SIZE] : i \in 1 .. InLine} = {Line[i] : i \in 1 .. InLine}
    BY DEF Line
  <2>3. QED
    BY <1>2, <2>1, <2>2 DEF Started
<1>3. QED
  BY <1>1, <1>2, StartedStep, PrintInvHolds, PTL DEF Spec, ClosedIsPrinted
=============================================================================
