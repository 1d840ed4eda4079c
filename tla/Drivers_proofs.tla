---------------------------- MODULE Drivers_proofs ----------------------------
(***************************************************************************)
(* Proofs about the drivers that keep no file: the interrupt log of        *)
(* ShortRings, the ports of ShortPorts, the sleepers of Waiters and the    *)
(* usb skeleton SkelUsb; and about the loading of all modules, Loading.    *)
(***************************************************************************)
EXTENDS ShortRings, ShortPorts, Waiters, SkelUsb, Loading, TLAPS,
        FiniteSetTheorems, SequenceTheorems

(* What the steps of a reader do to the rest.                              *)
LEMMA ReadsLeave ==
    ASSUME NEW r \in Reader, Reads(r)
    PROVE  /\ UNCHANGED <<handler, short_head, tv_head, tv_tail, top, bh, queued>>
           /\ short_tail' = short_tail \/ rpc[r] = "store"
  BY DEF Reads, ReadCall, TestEmpty, Recheck, WakesUp, Signalled, Finish, CountReadable,
         CopyText, CopyFaults, LoadTail, StoreTail, text, array, tophalf, bottom

(* A time in the array is announced: the property is inductive.            *)
LEMMA TimeStep ==
    ASSUME NoTimeIsForgotten, [RingsNext]_rvars
    PROVE  NoTimeIsForgotten'
<1> USE DEF NoTimeIsForgotten, Deferred
<1>1. CASE short_interrupt \/ short_sh_interrupt
  BY <1>1 DEF short_interrupt, short_sh_interrupt, NotShort, WriteRecord, WakeReaders
<1>2. CASE short_wq_interrupt \/ short_tl_interrupt
  <2>1. CASE StoreTime
    BY <2>1 DEF StoreTime
  <2>2. CASE Schedule
    BY <2>2 DEF Schedule
  <2>3. CASE LoadCount
    BY <2>3 DEF LoadCount, array, bottom
  <2>4. CASE StoreCount
    BY <2>4 DEF StoreCount, bottom
  <2>5. QED
    BY <1>2, <2>1, <2>2, <2>3, <2>4 DEF short_wq_interrupt, short_tl_interrupt
<1>3. CASE shortp_interrupt \/ shortp_record
  BY <1>3 DEF shortp_interrupt, shortp_record, Start, BhWake
<1>4. CASE short_do_tasklet
  <2>1. CASE Start
    BY <2>1 DEF Start, array, tophalf
  <2>2. CASE SaveCount \/ ResetCount \/ Header
    BY <2>2 DEF SaveCount, ResetCount, Header, array, tophalf
  <2>3. CASE Times
    BY <2>3 DEF Times, tophalf
  <2>4. CASE BhWake
    BY <2>4 DEF BhWake, array, tophalf
  <2>5. QED
    BY <1>4, <2>1, <2>2, <2>3, <2>4 DEF short_do_tasklet
<1>5. ASSUME NEW r \in Reader, short_i_read(r) \/ shortp_read(r)
      PROVE  NoTimeIsForgotten'
  BY <1>5, ReadsLeave DEF short_i_read, shortp_read
<1>6. CASE UNCHANGED rvars
  BY <1>6 DEF rvars, array, tophalf, bottom
<1>7. QED
  BY <1>1, <1>2, <1>3, <1>4, <1>5, <1>6 DEF RingsNext

-----------------------------------------------------------------------------
RingsInv == LogSleeperIsWoken /\ waiting \subseteq Reader /\ rpc = [r \in Reader |-> rpc[r]]

(* Whoever writes text has a wake-up before it, and takes no reader off    *)
(* the queue but by waking it.                                             *)
LEMMA WriterStep ==
    ASSUME RingsInv, UNCHANGED rpc, waiting' \subseteq waiting,
           \/ waiting' = {}
           \/ top' = "wake" \/ bh' \in {"times", "wake"}
           \/ UNCHANGED <<short_head, short_tail, top, bh>>
           \/ /\ UNCHANGED <<short_head, short_tail>>
              /\ top # "wake" /\ bh \notin {"times", "wake"}
    PROVE  RingsInv'
  BY DEF RingsInv, LogSleeperIsWoken, OneReader

LEMMA SleeperStep ==
    ASSUME RingsInv, [RingsNext]_rvars
    PROVE  RingsInv'
<1>1. CASE short_interrupt \/ short_sh_interrupt
  <2>1. CASE NotShort
    BY <2>1, WriterStep DEF NotShort, text, tophalf, bottom, reading
  <2>2. CASE WriteRecord
    BY <2>2, WriterStep DEF WriteRecord, bottom, reading
  <2>3. CASE WakeReaders
    BY <2>3, WriterStep DEF WakeReaders, Wake, reading, RingsInv
  <2>4. QED
    BY <1>1, <2>1, <2>2, <2>3 DEF short_interrupt, short_sh_interrupt
<1>2. CASE short_wq_interrupt \/ short_tl_interrupt
  <2>1. CASE StoreTime
    <3>1. UNCHANGED <<rpc, waiting, short_head, short_tail, bh>> /\ top # "wake"
      BY <2>1 DEF StoreTime, NewIrq, text, bottom, reading
    <3>2. QED
      BY <3>1 DEF RingsInv, LogSleeperIsWoken, OneReader
  <2>2. CASE Schedule \/ LoadCount \/ StoreCount
    <3>1. UNCHANGED <<rpc, waiting, short_head, short_tail, bh>> /\ top # "wake"
      BY <2>2 DEF Schedule, LoadCount, StoreCount, text, bottom, reading
    <3>2. QED
      BY <3>1 DEF RingsInv, LogSleeperIsWoken, OneReader
  <2>3. QED
    BY <1>2, <2>1, <2>2 DEF short_wq_interrupt, short_tl_interrupt
<1>3. CASE shortp_interrupt
  BY <1>3, WriterStep DEF shortp_interrupt, text, tophalf, reading
<1>4. CASE shortp_record \/ short_do_tasklet
  <2>1. CASE Start
    <3>1. UNCHANGED <<rpc, waiting, short_head, short_tail, top>> /\ bh = "none"
      BY <2>1 DEF Start, text, tophalf, reading
    <3>2. QED
      BY <3>1 DEF RingsInv, LogSleeperIsWoken, OneReader
  <2>2. CASE SaveCount \/ ResetCount
    <3>1. /\ UNCHANGED <<rpc, waiting, short_head, short_tail, top>>
          /\ bh \notin {"times", "wake"}
      BY <2>2 DEF SaveCount, ResetCount, text, tophalf, reading
    <3>2. QED
      BY <3>1 DEF RingsInv, LogSleeperIsWoken, OneReader
  <2>3. CASE Header \/ Times \/ (UNCHANGED <<rpc, waiting>> /\ bh' = "wake")
    <3>1. UNCHANGED <<rpc, waiting>> /\ bh' \in {"times", "wake"}
      BY <2>3 DEF Header, Times, reading
    <3>2. QED
      BY <3>1, WriterStep
  <2>4. CASE BhWake
    BY <2>4, WriterStep DEF BhWake, Wake, reading, RingsInv
  <2>5. QED
    BY <1>4, <2>1, <2>2, <2>3, <2>4 DEF shortp_record, short_do_tasklet, reading
<1>5. ASSUME NEW r \in Reader, Reads(r)
      PROVE  RingsInv'
  <2>1. /\ UNCHANGED <<short_head, top, bh>>
        /\ short_tail' = short_tail \/ rpc[r] = "store"
    BY <1>5, ReadsLeave
  <2>2. /\ waiting' \subseteq Reader /\ rpc' = [s \in Reader |-> rpc'[s]]
        /\ waiting' \subseteq waiting \cup {r}
    BY <1>5 DEF RingsInv, Reads, ReadCall, TestEmpty, Recheck, WakesUp, Signalled, Finish,
                CountReadable, CopyText, CopyFaults, LoadTail, StoreTail, RGoTo
  <2>3. rpc'[r] = "schedule" =>
            rpc[r] = "recheck" /\ short_head = short_tail /\ UNCHANGED short_tail
    BY <1>5 DEF RingsInv, Reads, ReadCall, TestEmpty, Recheck, WakesUp, Signalled, Finish,
                CountReadable, CopyText, CopyFaults, LoadTail, StoreTail, RGoTo, text
  <2>4. QED
    BY <2>1, <2>2, <2>3 DEF RingsInv, LogSleeperIsWoken, OneReader
<1>6. CASE UNCHANGED rvars
  BY <1>6, WriterStep DEF rvars, text, tophalf, bottom, reading
<1>7. QED
  BY <1>1, <1>2, <1>3, <1>4, <1>5, <1>6 DEF RingsNext, short_i_read, shortp_read

-----------------------------------------------------------------------------
(* The bottom half never leaves a time behind, however the handler and the *)
(* bottom half interleave and whatever the length of the array.            *)
THEOREM TimesAreSeen == RingsSpec => []NoTimeIsForgotten
<1>1. RingsInit => NoTimeIsForgotten
  BY DEF RingsInit, NoTimeIsForgotten
<1>2. QED
  BY <1>1, TimeStep, PTL DEF RingsSpec

(* No wake-up is lost to a single reader of the log, for every handler,    *)
(* page and length of read.                                                *)
THEOREM LogReaderIsWoken == RingsSpec => []LogSleeperIsWoken
<1>1. RingsInit => RingsInv
  BY DEF RingsInit, RingsInv, LogSleeperIsWoken
<1>2. RingsInv => LogSleeperIsWoken
  BY DEF RingsInv
<1>3. QED
  BY <1>1, <1>2, SleeperStep, PTL DEF RingsSpec
-----------------------------------------------------------------------------
(* The text that is not yet given to reader r: the cells of the page from  *)
(* the tail, or from where the tail will be when a read under way stores   *)
(* it, to the head.                                                        *)
Given_(r) == IF rpc[r] \in {"load", "store"} THEN count[r] ELSE 0
Cell(c)   == IF c >= PAGE_SIZE THEN c - PAGE_SIZE ELSE c
Between(tail, head) == IF tail <= head THEN head - tail ELSE head + PAGE_SIZE - tail

Stands(r) ==
    /\ rpc[r] = "store" => old_tail[r] = short_tail
    /\ ~overrun =>
          /\ Len(unread) = Between(short_tail, short_head) - Given_(r)
          /\ \A i \in 1 .. Len(unread) :
                 unread[i] = page[Cell(short_tail + Given_(r) + i - 1)]
          /\ rpc[r] \in {"copy", "load", "store"} => count[r] <= Readable

(* Records start at even cells; and the count of interrupts that waits for *)
(* the bottom half is of interrupts that were.                             *)
HeadIsEven == \E k \in 0 .. Records - 1 : short_head = 2 * k
CountIsOfIrqs ==
    /\ short_wq_count <= irqs
    /\ top \in {"schedule", "load", "store"} => short_wq_count < irqs
    /\ top = "store" => seen_count < irqs

LogInv ==
    /\ RingsTypeOK /\ HeadIsEven /\ CountIsOfIrqs
    /\ OneReader => ~amiss /\ \A r \in Reader : Stands(r)

LEMMA Cycles ==
    ASSUME NEW n \in Nat \ {0}
    PROVE  \A c \in 0 .. n : c % n = IF c = n THEN 0 ELSE c
  OBVIOUS

LEMMA PageSize == Records \in Nat /\ Records > 0 /\ PAGE_SIZE = 2 * Records
  BY ShortRingsAssumption DEF PAGE_SIZE, Width

(* What a record does to the page and the head.                            *)
LEMMA LogMoves ==
    ASSUME RingsTypeOK, HeadIsEven, NEW time \in 0 .. MaxIrqs, Log(time)
    PROVE  /\ short_head + 2 <= PAGE_SIZE /\ short_head' = Cell(short_head + 2)
           /\ HeadIsEven' /\ UNCHANGED short_tail
           /\ page' \in [0 .. PAGE_SIZE - 1 -> -1 .. MaxIrqs]
           /\ \A c \in 0 .. PAGE_SIZE - 1 :
                  page'[c] = IF c \in {short_head, short_head + 1} THEN time
                             ELSE IF c = short_head + 2 THEN -1 ELSE page[c]
           /\ ~overrun' => /\ ~overrun
                           /\ short_tail \notin {short_head + 1, Cell(short_head + 2)}
                           /\ unread' = unread \o [c \in 1 .. 2 |-> time]
           /\ overrun' => unread' = <<>>
           /\ beyond' \in BOOLEAN /\ overrun' \in BOOLEAN
<1>1. PICK k \in 0 .. Records - 1 : short_head = 2 * k
  BY DEF HeadIsEven
<1>2. /\ short_head \in Nat /\ short_head + 2 <= PAGE_SIZE /\ PAGE_SIZE \in Nat \ {0}
      /\ PAGE_SIZE = 2 * Records /\ Records \in Nat /\ MaxIrqs \in Nat
  BY <1>1, PageSize, ShortRingsAssumption
<1>3. short_head' = Cell(short_head + 2)
  BY <1>2 DEF Log, incr_bp, shortp_incr_bp, short_incr_bp, Cell, Width
<1>4. HeadIsEven'
  <2>1. CASE k = Records - 1
    BY <1>1, <1>2, <1>3, <2>1 DEF HeadIsEven, Cell
  <2>2. CASE k # Records - 1
    <3>1. k + 1 \in 0 .. Records - 1 /\ short_head' = 2 * (k + 1)
      BY <1>1, <1>2, <1>3, <2>2 DEF Cell
    <3>2. QED
      BY <3>1 DEF HeadIsEven
  <2>3. QED
    BY <2>1, <2>2
<1>5. /\ page' \in [0 .. PAGE_SIZE - 1 -> -1 .. MaxIrqs]
      /\ \A c \in 0 .. PAGE_SIZE - 1 :
             page'[c] = IF c \in {short_head, short_head + 1} THEN time
                        ELSE IF c = short_head + 2 THEN -1 ELSE page[c]
  <2>1. page' = [c \in 0 .. PAGE_SIZE - 1 |->
                     IF c \in short_head .. short_head + Width - 1 THEN time
                     ELSE IF c = short_head + Width THEN -1 ELSE page[c]]
    BY DEF Log
  <2>2. \A c \in 0 .. PAGE_SIZE - 1 :
            c \in short_head .. short_head + Width - 1 <=> c \in {short_head, short_head + 1}
    BY <1>2 DEF Width
  <2>3. page \in [0 .. PAGE_SIZE - 1 -> -1 .. MaxIrqs]
    BY DEF RingsTypeOK
  <2>4. QED
    BY <1>2, <2>1, <2>2, <2>3 DEF Width
<1> DEFINE over == \E c \in short_head + 1 .. short_head + Width : short_tail = c % PAGE_SIZE
<1>6. ~over => short_tail \notin {short_head + 1, Cell(short_head + 2)}
  <2>1. /\ short_head + 1 \in short_head + 1 .. short_head + Width
        /\ short_head + 2 \in short_head + 1 .. short_head + Width
    BY <1>2 DEF Width
  <2>2. /\ (short_head + 1) % PAGE_SIZE = short_head + 1
        /\ (short_head + 2) % PAGE_SIZE = Cell(short_head + 2)
    <3>1. \A c \in 0 .. PAGE_SIZE : c % PAGE_SIZE = IF c = PAGE_SIZE THEN 0 ELSE c
      BY <1>2, Cycles
    <3>2. short_head + 1 \in 0 .. PAGE_SIZE /\ short_head + 2 \in 0 .. PAGE_SIZE
      BY <1>2
    <3>3. QED
      BY <1>2, <3>1, <3>2, SMTT(30) DEF Cell
  <2>3. QED
    BY <2>1, <2>2
<1>7. overrun' = (overrun \/ over) /\ overrun \in BOOLEAN /\ overrun' \in BOOLEAN
  BY DEF Log, RingsTypeOK
<1> HIDE DEF over
<1>8. ~overrun' => ~overrun /\ ~over
  BY <1>7
<1>9. UNCHANGED short_tail /\ beyond' \in BOOLEAN
  BY DEF Log
<1>10. /\ ~overrun' => unread' = unread \o [c \in 1 .. 2 |-> time]
       /\ overrun' => unread' = <<>>
  BY <1>7 DEF Log, Width
<1>11. QED
  BY <1>2, <1>3, <1>4, <1>5, <1>6, <1>7, <1>8, <1>9, <1>10

(* A record joins the text that is not yet given; nothing of it is lost.   *)
LEMMA LogStands ==
    ASSUME RingsTypeOK, HeadIsEven, NEW time \in 0 .. MaxIrqs, Log(time),
           UNCHANGED <<rpc, count, old_tail>>, NEW r \in Reader, Stands(r)
    PROVE  Stands(r)'
<1> DEFINE g == Given_(r)
           h == short_head
           t == short_tail
           P == PAGE_SIZE
<1>1. /\ h \in 0 .. P - 1 /\ t \in 0 .. P - 1 /\ P \in Nat /\ unread \in Seq(0 .. MaxIrqs)
      /\ count[r] \in 0 .. P /\ g \in 0 .. P /\ g = Given_(r)'
  BY PageSize, SMTT(30) DEF RingsTypeOK, Given_
<1>2. /\ h + 2 <= P /\ short_head' = Cell(h + 2) /\ UNCHANGED short_tail
      /\ \A c \in 0 .. P - 1 : c \notin {h, h + 1, h + 2} => page'[c] = page[c]
      /\ page'[h] = time /\ page'[h + 1] = time
      /\ ~overrun' => /\ ~overrun /\ t \notin {h + 1, Cell(h + 2)}
                      /\ unread' = unread \o [c \in 1 .. 2 |-> time]
  <2>1. h + 2 <= P /\ h \in 0 .. P - 1 /\ h + 1 \in 0 .. P - 1
    BY <1>1, LogMoves
  <2>2. QED
    BY <1>1, <2>1, LogMoves
<1>3. rpc'[r] = "store" => old_tail'[r] = short_tail'
  BY <1>2 DEF Stands
<1>4. ASSUME ~overrun'
      PROVE  /\ Len(unread') = Between(short_tail', short_head') - Given_(r)'
             /\ \A i \in 1 .. Len(unread') :
                    unread'[i] = page'[Cell(short_tail' + Given_(r)' + i - 1)]
             /\ rpc'[r] \in {"copy", "load", "store"} => count'[r] <= Readable'
  <2> DEFINE n == Len(unread)
  <2>1. n = Between(t, h) - g /\ n \in Nat
    BY <1>1, <1>2, <1>4 DEF Stands
  <2>2. t # h + 1 /\ t # Cell(h + 2)
    BY <1>2, <1>4
  <2>3. /\ Len(unread') = n + 2
        /\ \A i \in 1 .. n : unread'[i] = unread[i]
        /\ unread'[n + 1] = time /\ unread'[n + 2] = time
    BY <1>1, <1>2, <1>4
  <2>4. \A i \in 1 .. n : unread[i] = page[Cell(t + g + i - 1)]
    BY <1>2, <1>4 DEF Stands
  <2> HIDE DEF n, g, h, t, P
  <2>5. /\ Between(t, Cell(h + 2)) - g = n + 2
        /\ \A i \in 1 .. n : /\ Cell(t + g + i - 1) \in 0 .. P - 1
                            /\ Cell(t + g + i - 1) \notin {h, h + 1, h + 2}
        /\ Cell(t + g + (n + 1) - 1) = h /\ Cell(t + g + (n + 2) - 1) = h + 1
    <3>1. /\ P \in Nat /\ h \in 0 .. P - 1 /\ t \in 0 .. P - 1 /\ g \in Nat /\ n \in Nat
          /\ n = Between(t, h) - g /\ h + 2 <= P /\ t # h + 1 /\ t # Cell(h + 2)
      BY <1>1, <1>2, <2>1, <2>2
    <3>2. P = PAGE_SIZE
      BY DEF P
    <3>3. CASE t <= h
      BY <3>1, <3>2, <3>3 DEF Between, Cell
    <3>4. CASE h < t
      BY <3>1, <3>2, <3>4 DEF Between, Cell
    <3>5. QED
      BY <3>1, <3>3, <3>4
  <2>7. ASSUME NEW i \in 1 .. n + 2
        PROVE  unread'[i] = page'[Cell(t + g + i - 1)]
    <3>1. CASE i \in 1 .. n
      BY <1>2, <2>3, <2>4, <2>5, <3>1
    <3>2. CASE i = n + 1
      BY <1>2, <2>3, <2>5, <3>2
    <3>3. CASE i = n + 2
      BY <1>2, <2>3, <2>5, <3>3
    <3>4. QED
      BY <2>1, <3>1, <3>2, <3>3
  <2>6. rpc[r] \in {"copy", "load", "store"} => count[r] <= Readable'
    <3>1. rpc[r] \in {"copy", "load", "store"} => count[r] <= Readable
      BY <1>2, <1>4 DEF Stands
    <3>2. Readable <= Readable'
      BY <1>1, <1>2, <1>4 DEF Readable, Cell, h, t, P
    <3>3. Readable \in Int /\ Readable' \in Int
      BY <1>1, <1>2 DEF Readable, Cell, h, t, P
    <3>4. QED
      BY <1>1, <3>1, <3>2, <3>3
  <2>8. QED
    BY <1>1, <1>2, <2>3, <2>5, <2>6, <2>7 DEF t, h
<1>5. QED
  BY <1>3, <1>4 DEF Stands

-----------------------------------------------------------------------------
(* The steps of the handlers and of the bottom half.                       *)
LEMMA QuietWriter ==
    ASSUME LogInv, RingsTypeOK', CountIsOfIrqs',
           UNCHANGED <<text, rpc, count, old_tail, amiss>>
    PROVE  LogInv'
<1>1. HeadIsEven'
  BY DEF LogInv, HeadIsEven, text
<1>2. \A r \in Reader : Stands(r) => Stands(r)'
  BY DEF Stands, Given_, Cell, Between, Readable, PAGE_SIZE, text
<1>3. QED
  BY <1>1, <1>2 DEF LogInv, OneReader

LEMMA LogWriter ==
    ASSUME LogInv, NEW time \in 0 .. MaxIrqs, Log(time), RingsTypeOK', CountIsOfIrqs',
           UNCHANGED <<rpc, count, old_tail, amiss>>
    PROVE  LogInv'
<1>1. RingsTypeOK /\ HeadIsEven
  BY DEF LogInv
<1>2. HeadIsEven'
  BY <1>1, LogMoves
<1>3. \A r \in Reader : Stands(r) => Stands(r)'
  BY <1>1, LogStands
<1>4. QED
  BY <1>2, <1>3 DEF LogInv, OneReader

(* The types of what a record changes.                                     *)
LEMMA LogTypes ==
    ASSUME LogInv, NEW time \in 0 .. MaxIrqs, Log(time)
    PROVE  /\ page' \in [0 .. PAGE_SIZE - 1 -> -1 .. MaxIrqs]
           /\ short_head' \in 0 .. PAGE_SIZE - 1 /\ short_tail' \in 0 .. PAGE_SIZE - 1
           /\ unread' \in Seq(0 .. MaxIrqs) /\ overrun' \in BOOLEAN /\ beyond' \in BOOLEAN
<1>1. RingsTypeOK /\ HeadIsEven
  BY DEF LogInv
<1>2. /\ short_head \in 0 .. PAGE_SIZE - 1 /\ short_tail \in 0 .. PAGE_SIZE - 1
      /\ PAGE_SIZE \in Nat /\ unread \in Seq(0 .. MaxIrqs)
  BY <1>1, PageSize DEF RingsTypeOK
<1>3. short_head' = Cell(short_head + 2) /\ short_head + 2 <= PAGE_SIZE /\ UNCHANGED short_tail
  BY <1>1, LogMoves
<1>4. short_head' \in 0 .. PAGE_SIZE - 1
  BY <1>2, <1>3 DEF Cell
<1>5. [c \in 1 .. 2 |-> time] \in Seq(0 .. MaxIrqs)
  OBVIOUS
<1>6. overrun' \in BOOLEAN /\ beyond' \in BOOLEAN
      /\ (~overrun' => unread' = unread \o [c \in 1 .. 2 |-> time]) /\ (overrun' => unread' = <<>>)
      /\ page' \in [0 .. PAGE_SIZE - 1 -> -1 .. MaxIrqs]
  BY <1>1, LogMoves
<1>7. unread' \in Seq(0 .. MaxIrqs)
  <2>1. CASE overrun'
    BY <1>6, <2>1
  <2>2. CASE ~overrun'
    <3>1. unread' = unread \o [c \in 1 .. 2 |-> time]
      BY <1>6, <2>2
    <3>2. \A s, u \in Seq(0 .. MaxIrqs) : s \o u \in Seq(0 .. MaxIrqs)
      OBVIOUS
    <3>3. QED
      BY <1>2, <1>5, <3>1, <3>2
  <2>3. QED
    BY <1>6, <2>1, <2>2
<1>8. QED
  BY <1>2, <1>3, <1>4, <1>6, <1>7

LEMMA HandlerLogs ==
    ASSUME LogInv, WriteRecord \/ WakeReaders \/ NotShort
    PROVE  LogInv'
<1>1. RingsTypeOK /\ CountIsOfIrqs /\ MaxIrqs \in Nat /\ irqs \in 0 .. MaxIrqs
  BY ShortRingsAssumption DEF LogInv, RingsTypeOK
<1>2. CASE WriteRecord
  <2>1. irqs' \in 0 .. MaxIrqs /\ irqs' = irqs + 1 /\ Log(irqs')
    BY <1>1, <1>2 DEF WriteRecord, NewIrq
  <2>2. RingsTypeOK'
    BY <1>1, <1>2, <2>1, LogTypes DEF WriteRecord, RingsTypeOK, array, bottom, reading
  <2>3. CountIsOfIrqs'
    BY <1>1, <1>2, <2>1 DEF WriteRecord, CountIsOfIrqs, RingsTypeOK, array
  <2>4. QED
    BY <1>2, <2>1, <2>2, <2>3, LogWriter DEF WriteRecord, reading
<1>3. CASE WakeReaders
  <2>1. RingsTypeOK'
    BY <1>1, <1>3 DEF WakeReaders, Wake, RingsTypeOK, text, array, bottom, reading
  <2>2. CountIsOfIrqs'
    BY <1>1, <1>3 DEF WakeReaders, CountIsOfIrqs, array
  <2>3. QED
    BY <1>3, <2>1, <2>2, QuietWriter DEF WakeReaders, reading
<1>4. CASE NotShort
  <2>1. irqs' \in 0 .. MaxIrqs /\ irqs' = irqs + 1
    BY <1>1, <1>4 DEF NotShort, NewIrq
  <2>2. RingsTypeOK'
    BY <1>1, <1>4, <2>1 DEF NotShort, RingsTypeOK, text, array, tophalf, bottom, reading
  <2>3. CountIsOfIrqs'
    BY <1>1, <1>4, <2>1 DEF NotShort, CountIsOfIrqs, RingsTypeOK, array, tophalf
  <2>4. QED
    BY <1>4, <2>2, <2>3, QuietWriter DEF NotShort, reading
<1>5. QED
  BY <1>2, <1>3, <1>4

LEMMA TopHalfStep ==
    ASSUME LogInv, StoreTime \/ Schedule \/ LoadCount \/ StoreCount \/ shortp_interrupt
    PROVE  LogInv'
<1>1. /\ RingsTypeOK /\ CountIsOfIrqs /\ MaxIrqs \in Nat /\ irqs \in 0 .. MaxIrqs
      /\ NR_TIMEVAL \in Nat \ {0} /\ tv_head \in 0 .. NR_TIMEVAL - 1
      /\ tv_data \in [0 .. NR_TIMEVAL - 1 -> 0 .. MaxIrqs]
  BY ShortRingsAssumption DEF LogInv, RingsTypeOK
<1>2. CASE StoreTime
  <2>1. irqs' \in 0 .. MaxIrqs /\ irqs' = irqs + 1
    BY <1>1, <1>2 DEF StoreTime, NewIrq
  <2>2. /\ tv_data' \in [0 .. NR_TIMEVAL - 1 -> 0 .. MaxIrqs]
        /\ tv_head' \in 0 .. NR_TIMEVAL - 1
    BY <1>1, <1>2, <2>1 DEF StoreTime, short_incr_tv
  <2>3. RingsTypeOK'
    BY <1>1, <1>2, <2>1, <2>2 DEF StoreTime, RingsTypeOK, text, bottom, reading
  <2>4. CountIsOfIrqs'
    BY <1>1, <1>2, <2>1 DEF StoreTime, CountIsOfIrqs, RingsTypeOK
  <2>5. QED
    BY <1>2, <2>3, <2>4, QuietWriter DEF StoreTime, reading
<1>3. CASE Schedule
  <2>1. RingsTypeOK'
    BY <1>1, <1>3 DEF Schedule, RingsTypeOK, text, array, reading
  <2>2. CountIsOfIrqs'
    BY <1>1, <1>3 DEF Schedule, CountIsOfIrqs, array
  <2>3. QED
    BY <1>3, <2>1, <2>2, QuietWriter DEF Schedule, reading
<1>4. CASE LoadCount
  <2>1. RingsTypeOK'
    BY <1>1, <1>4 DEF LoadCount, RingsTypeOK, text, array, bottom, reading
  <2>2. CountIsOfIrqs'
    BY <1>1, <1>4 DEF LoadCount, CountIsOfIrqs, array
  <2>3. QED
    BY <1>4, <2>1, <2>2, QuietWriter DEF LoadCount, reading
<1>5. CASE StoreCount
  <2>1. short_wq_count' \in 0 .. MaxIrqs /\ short_wq_count' <= irqs
    BY <1>1, <1>5 DEF StoreCount, CountIsOfIrqs, RingsTypeOK
  <2>2. RingsTypeOK'
    BY <1>1, <1>5, <2>1 DEF StoreCount, RingsTypeOK, text, bottom, reading
  <2>3. CountIsOfIrqs'
    BY <1>1, <1>5, <2>1 DEF StoreCount, CountIsOfIrqs
  <2>4. QED
    BY <1>5, <2>2, <2>3, QuietWriter DEF StoreCount, reading
<1>6. CASE shortp_interrupt
  <2>1. irqs' \in 0 .. MaxIrqs /\ irqs' = irqs + 1
    BY <1>1, <1>6 DEF shortp_interrupt, NewIrq
  <2>2. tv_data' \in [0 .. NR_TIMEVAL - 1 -> 0 .. MaxIrqs]
    BY <1>1, <1>6, <2>1 DEF shortp_interrupt
  <2>3. RingsTypeOK'
    BY <1>1, <1>6, <2>1, <2>2 DEF shortp_interrupt, RingsTypeOK, text, tophalf, reading
  <2>4. CountIsOfIrqs'
    BY <1>1, <1>6, <2>1 DEF shortp_interrupt, CountIsOfIrqs, RingsTypeOK, tophalf
  <2>5. QED
    BY <1>6, <2>3, <2>4, QuietWriter DEF shortp_interrupt, reading
<1>7. QED
  BY <1>2, <1>3, <1>4, <1>5, <1>6

LEMMA BottomHalfStep ==
    ASSUME LogInv, short_do_tasklet \/ shortp_record
    PROVE  LogInv'
<1>1. /\ RingsTypeOK /\ CountIsOfIrqs /\ MaxIrqs \in Nat /\ irqs \in 0 .. MaxIrqs
      /\ NR_TIMEVAL \in Nat \ {0} /\ tv_tail \in 0 .. NR_TIMEVAL - 1
      /\ tv_data \in [0 .. NR_TIMEVAL - 1 -> 0 .. MaxIrqs]
  BY ShortRingsAssumption DEF LogInv, RingsTypeOK
<1>2. CASE Start \/ SaveCount \/ BhWake
  <2>1. RingsTypeOK'
    BY <1>1, <1>2, ZenonT(30) DEF Start, SaveCount, BhWake, Wake, RingsTypeOK, text,
           array, tophalf, reading
  <2>2. CountIsOfIrqs'
    BY <1>1, <1>2 DEF Start, SaveCount, BhWake, CountIsOfIrqs, array, tophalf
  <2>3. QED
    BY <1>2, <2>1, <2>2, QuietWriter DEF Start, SaveCount, BhWake, reading
<1>3. CASE ResetCount
  <2>1. RingsTypeOK'
    BY <1>1, <1>3 DEF ResetCount, RingsTypeOK, text, tophalf, reading
  <2>2. CountIsOfIrqs'
    BY <1>1, <1>3 DEF ResetCount, CountIsOfIrqs, tophalf, RingsTypeOK
  <2>3. QED
    BY <1>3, <2>1, <2>2, QuietWriter DEF ResetCount, reading
<1>4. CASE Header
  <2>1. 0 \in 0 .. MaxIrqs /\ Log(0)
    BY <1>1, <1>4 DEF Header
  <2>2. RingsTypeOK'
    BY <1>1, <1>4, <2>1, LogTypes DEF Header, RingsTypeOK, array, tophalf, reading
  <2>3. CountIsOfIrqs'
    BY <1>1, <1>4 DEF Header, CountIsOfIrqs, array, tophalf
  <2>4. QED
    BY <1>4, <2>1, <2>2, <2>3, LogWriter DEF Header, reading
<1>5. CASE Times
  <2>1. tv_data[tv_tail] \in 0 .. MaxIrqs /\ Log(tv_data[tv_tail])
    BY <1>1, <1>5 DEF Times
  <2>2. tv_tail' \in 0 .. NR_TIMEVAL - 1 /\ bh' \in {"wake", "times"} /\ stale' \in BOOLEAN
    BY <1>1, <1>5 DEF Times, short_incr_tv
  <2>3. RingsTypeOK'
    BY <1>1, <1>5, <2>1, <2>2, LogTypes DEF Times, RingsTypeOK, tophalf, reading
  <2>4. CountIsOfIrqs'
    BY <1>1, <1>5 DEF Times, CountIsOfIrqs, tophalf
  <2>5. QED
    BY <1>5, <2>1, <2>3, <2>4, LogWriter DEF Times, reading
<1>6. CASE /\ bh = "times" /\ Log(tv_data[0]) /\ bh' = "wake"
           /\ UNCHANGED <<handler, irqs, array, tophalf, queued, savecount, stale, reading, waiting>>
  <2>1. tv_data[0] \in 0 .. MaxIrqs
    BY <1>1
  <2>2. RingsTypeOK'
    BY <1>1, <1>6, <2>1, LogTypes DEF RingsTypeOK, array, tophalf, reading
  <2>3. CountIsOfIrqs'
    BY <1>1, <1>6 DEF CountIsOfIrqs, array, tophalf
  <2>4. QED
    BY <1>6, <2>1, <2>2, <2>3, LogWriter DEF reading
<1>7. QED
  BY <1>2, <1>3, <1>4, <1>5, <1>6 DEF short_do_tasklet, shortp_record

-----------------------------------------------------------------------------
(* The steps of a reader.                                                  *)
LEMMA PrefixOf ==
    ASSUME NEW S, NEW s \in Seq(S), NEW n \in 0 .. Len(s), NEW T, NEW g \in Seq(T),
           Len(g) = n, \A i \in 1 .. n : g[i] = s[i]
    PROVE  IsPrefix(g, s)
<1>1. Len(g) <= Len(s) /\ Len(g) = n /\ n \in Nat /\ Len(s) \in Nat
  OBVIOUS
<1>2. SubSeq(g, 1, n) = SubSeq(s, 1, n)
  OBVIOUS
<1>3. QED
  BY <1>1, <1>2 DEF IsPrefix

LEMMA RestOf ==
    ASSUME NEW S, NEW s \in Seq(S), NEW n \in Nat
    PROVE  /\ SubSeq(s, n + 1, Len(s)) \in Seq(S)
           /\ n <= Len(s) => /\ Len(SubSeq(s, n + 1, Len(s))) = Len(s) - n
                             /\ \A i \in 1 .. Len(s) - n :
                                    SubSeq(s, n + 1, Len(s))[i] = s[n + i]
<1>1. Len(s) \in Nat /\ \A i \in n + 1 .. Len(s) : s[i] \in S
  OBVIOUS
<1> DEFINE t == SubSeq(s, n + 1, Len(s))
<1>2. /\ t \in Seq(S)
      /\ Len(t) = IF n + 1 <= Len(s) THEN Len(s) - (n + 1) + 1 ELSE 0
      /\ \A i \in 1 .. Len(s) - (n + 1) + 1 : t[i] = s[n + 1 + i - 1]
  <2>1. n + 1 \in Int /\ Len(s) \in Int
    BY <1>1
  <2>2. QED
    BY <1>1, <2>1, SubSeqProperties
<1> HIDE DEF t
<1>3. t \in Seq(S) /\ (n <= Len(s) => /\ Len(t) = Len(s) - n
                                      /\ \A i \in 1 .. Len(s) - n : t[i] = s[n + i])
  <2>1. \A i \in 1 .. Len(s) - n : n + 1 + i - 1 = n + i
    BY <1>1
  <2>2. Len(s) - (n + 1) + 1 = Len(s) - n
    BY <1>1
  <2>3. n <= Len(s) => Len(t) = Len(s) - n
    BY <1>1, <1>2
  <2>4. \A i \in 1 .. Len(s) - n : t[i] = s[n + i]
    BY <1>2, <2>1, <2>2
  <2>5. QED
    BY <1>2, <2>3, <2>4
<1>4. QED
  BY <1>3 DEF t

(* A reader's step keeps the types of what it leaves alone.                *)
LEMMA ReaderKeepsTypes ==
    ASSUME RingsTypeOK, UNCHANGED <<handler, irqs, page, short_head, overrun, beyond>>,
           UNCHANGED <<array, tophalf, bottom, waiting>>,
           short_tail' \in 0 .. PAGE_SIZE - 1, unread' \in Seq(0 .. MaxIrqs),
           amiss' \in BOOLEAN, NEW r \in Reader,
           NEW l \in {"idle", "copy", "load", "store"}, rpc' = [rpc EXCEPT ![r] = l],
           NEW c \in 0 .. PAGE_SIZE, count' = [count EXCEPT ![r] = c],
           NEW o \in 0 .. PAGE_SIZE, old_tail' = [old_tail EXCEPT ![r] = o]
    PROVE  RingsTypeOK'
<1>1. /\ rpc' \in [Reader -> {"idle", "test", "recheck", "schedule", "finish", "count",
                              "copy", "load", "store"}]
      /\ count' \in [Reader -> 0 .. PAGE_SIZE] /\ old_tail' \in [Reader -> 0 .. PAGE_SIZE]
  BY DEF RingsTypeOK
<1>2. QED
  BY <1>1 DEF RingsTypeOK, array, tophalf, bottom

(* What the text has to be for the steps that only move a reader.          *)
LEMMA ReaderTypes ==
    ASSUME RingsTypeOK
    PROVE  /\ PAGE_SIZE \in Nat \ {0} /\ Readable \in 0 .. PAGE_SIZE
           /\ short_head \in 0 .. PAGE_SIZE - 1 /\ short_tail \in 0 .. PAGE_SIZE - 1
           /\ \A r \in Reader : /\ count[r] \in 0 .. PAGE_SIZE
                                /\ old_tail[r] \in 0 .. PAGE_SIZE
<1>1. /\ PAGE_SIZE \in Nat \ {0} /\ short_head \in 0 .. PAGE_SIZE - 1
      /\ short_tail \in 0 .. PAGE_SIZE - 1
  BY PageSize DEF RingsTypeOK
<1>2. Readable \in 0 .. PAGE_SIZE
  BY <1>1 DEF Readable
<1>3. QED
  BY <1>1, <1>2 DEF RingsTypeOK

LEMMA ReaderMoves ==
    ASSUME LogInv, NEW r \in Reader,
           \/ ReadCall(r) \/ TestEmpty(r) \/ Recheck(r) \/ WakesUp(r) \/ Signalled(r)
           \/ Finish(r)
    PROVE  LogInv'
<1>1. RingsTypeOK /\ HeadIsEven /\ CountIsOfIrqs
  BY DEF LogInv
<1>2. \E l \in {"idle", "test", "recheck", "schedule", "finish", "count"} :
          /\ RGoTo(r, l) /\ rpc[r] \in {"idle", "test", "recheck", "schedule", "finish"}
          /\ waiting' \in {waiting, waiting \cup {r}, waiting \ {r}}
          /\ UNCHANGED <<handler, irqs, text, array, tophalf, bottom, count, old_tail, amiss>>
  <2>1. CASE ReadCall(r) \/ Signalled(r) \/ Finish(r) \/ WakesUp(r)
    BY <2>1 DEF ReadCall, Signalled, Finish, WakesUp
  <2>2. CASE TestEmpty(r)
    BY <2>2 DEF TestEmpty
  <2>3. CASE Recheck(r)
    BY <2>3 DEF Recheck
  <2>4. QED
    BY <2>1, <2>2, <2>3
<1>3. RingsTypeOK'
  BY <1>1, <1>2, SMTT(30) DEF RingsTypeOK, RGoTo, text, array, tophalf, bottom
<1>4. HeadIsEven' /\ CountIsOfIrqs'
  BY <1>1, <1>2 DEF HeadIsEven, CountIsOfIrqs, text, array, tophalf
<1>5. /\ \A q \in Reader \ {r} : rpc'[q] = rpc[q]
      /\ rpc'[r] \notin {"copy", "load", "store"} /\ rpc[r] \notin {"copy", "load", "store"}
  BY <1>1, <1>2 DEF RGoTo, RingsTypeOK
<1>6. UNCHANGED <<page, short_head, short_tail, unread, overrun, count, old_tail, amiss>>
  BY <1>2 DEF text
<1>7. \A q \in Reader : Stands(q) => Stands(q)'
  BY <1>5, <1>6 DEF Stands, Given_, Cell, Between, Readable, PAGE_SIZE
<1>8. QED
  BY <1>3, <1>4, <1>6, <1>7 DEF LogInv, OneReader

(* With one reader, what stands for it stands.                             *)
LEMMA OneStands ==
    ASSUME LogInv, RingsTypeOK', HeadIsEven', CountIsOfIrqs', NEW r \in Reader,
           OneReader => ~amiss' /\ Stands(r)'
    PROVE  LogInv'
  BY DEF LogInv, OneReader

LEMMA CountStep ==
    ASSUME LogInv, NEW r \in Reader, NEW n \in 1 .. PAGE_SIZE, CountReadable(r, n)
    PROVE  LogInv'
<1>1. RingsTypeOK /\ HeadIsEven /\ CountIsOfIrqs
  BY DEF LogInv
<1>2. PAGE_SIZE \in Nat /\ Readable \in 0 .. PAGE_SIZE
  BY <1>1, ReaderTypes
<1> DEFINE c == IF Readable < n THEN Readable ELSE n
<1>3. c \in 0 .. PAGE_SIZE /\ c <= Readable
  BY <1>2
<1>4. /\ rpc[r] = "count" /\ rpc' = [rpc EXCEPT ![r] = "copy"] /\ count' = [count EXCEPT ![r] = c]
      /\ UNCHANGED <<handler, irqs, text, array, tophalf, bottom, waiting, old_tail, amiss>>
  BY DEF CountReadable, RGoTo
<1> HIDE DEF c
<1>5. RingsTypeOK'
  <2>1. /\ old_tail' = [old_tail EXCEPT ![r] = old_tail[r]] /\ old_tail[r] \in 0 .. PAGE_SIZE
        /\ short_tail' \in 0 .. PAGE_SIZE - 1 /\ unread' \in Seq(0 .. MaxIrqs) /\ amiss' \in BOOLEAN
    BY <1>1, <1>4 DEF RingsTypeOK, text
  <2>2. QED
    BY <1>1, <1>3, <1>4, <2>1, ReaderKeepsTypes DEF text
<1>6. HeadIsEven' /\ CountIsOfIrqs'
  BY <1>1, <1>4 DEF HeadIsEven, CountIsOfIrqs, text, array, tophalf
<1>7. rpc'[r] = "copy" /\ count'[r] = c /\ Given_(r)' = 0 /\ Given_(r) = 0
  BY <1>1, <1>4 DEF RingsTypeOK, Given_
<1>8. UNCHANGED <<page, short_head, short_tail, unread, overrun, amiss, Readable>>
  BY <1>4 DEF text, Readable
<1>9. Stands(r) => Stands(r)'
  BY <1>3, <1>7, <1>8 DEF Stands, Cell, Between
<1>10. QED
  BY <1>5, <1>6, <1>8, <1>9, OneStands DEF LogInv

LEMMA FaultStep ==
    ASSUME LogInv, NEW r \in Reader, CopyFaults(r)
    PROVE  LogInv'
<1>1. RingsTypeOK /\ HeadIsEven /\ CountIsOfIrqs
  BY DEF LogInv
<1>2. PAGE_SIZE \in Nat
  BY <1>1, ReaderTypes
<1>3. /\ rpc[r] = "copy" /\ rpc' = [rpc EXCEPT ![r] = "idle"] /\ count' = [count EXCEPT ![r] = 0]
      /\ UNCHANGED <<handler, irqs, text, array, tophalf, bottom, waiting, old_tail, amiss>>
  BY DEF CopyFaults, RGoTo
<1>4. RingsTypeOK'
  <2>1. /\ old_tail' = [old_tail EXCEPT ![r] = old_tail[r]] /\ old_tail[r] \in 0 .. PAGE_SIZE
        /\ short_tail' \in 0 .. PAGE_SIZE - 1 /\ unread' \in Seq(0 .. MaxIrqs) /\ amiss' \in BOOLEAN
        /\ 0 \in 0 .. PAGE_SIZE
    BY <1>1, <1>2, <1>3 DEF RingsTypeOK, text
  <2>2. QED
    BY <1>1, <1>3, <2>1, ReaderKeepsTypes DEF text
<1>5. HeadIsEven' /\ CountIsOfIrqs'
  BY <1>1, <1>3 DEF HeadIsEven, CountIsOfIrqs, text, array, tophalf
<1>6. rpc'[r] = "idle" /\ Given_(r)' = 0 /\ Given_(r) = 0
  BY <1>1, <1>3 DEF RingsTypeOK, Given_
<1>7. UNCHANGED <<page, short_head, short_tail, unread, overrun, amiss>>
  BY <1>3 DEF text
<1>8. Stands(r) => Stands(r)'
  BY <1>6, <1>7 DEF Stands, Cell, Between
<1>9. QED
  BY <1>4, <1>5, <1>7, <1>8, OneStands DEF LogInv

LEMMA LoadStep ==
    ASSUME LogInv, NEW r \in Reader, LoadTail(r)
    PROVE  LogInv'
<1>1. RingsTypeOK /\ HeadIsEven /\ CountIsOfIrqs
  BY DEF LogInv
<1>2. PAGE_SIZE \in Nat /\ short_tail \in 0 .. PAGE_SIZE - 1
  BY <1>1, ReaderTypes
<1>3. /\ rpc[r] = "load" /\ rpc' = [rpc EXCEPT ![r] = "store"]
      /\ old_tail' = [old_tail EXCEPT ![r] = short_tail]
      /\ UNCHANGED <<handler, irqs, text, array, tophalf, bottom, waiting, count, amiss>>
  BY DEF LoadTail, RGoTo
<1>4. RingsTypeOK'
  <2>1. /\ count' = [count EXCEPT ![r] = count[r]] /\ count[r] \in 0 .. PAGE_SIZE
        /\ short_tail' \in 0 .. PAGE_SIZE - 1 /\ unread' \in Seq(0 .. MaxIrqs) /\ amiss' \in BOOLEAN
        /\ short_tail \in 0 .. PAGE_SIZE
    BY <1>1, <1>2, <1>3 DEF RingsTypeOK, text
  <2>2. QED
    BY <1>1, <1>3, <2>1, ReaderKeepsTypes DEF text
<1>5. HeadIsEven' /\ CountIsOfIrqs'
  BY <1>1, <1>3 DEF HeadIsEven, CountIsOfIrqs, text, array, tophalf
<1>6. /\ rpc'[r] = "store" /\ old_tail'[r] = short_tail
      /\ Given_(r)' = count[r] /\ Given_(r) = count[r]
  BY <1>1, <1>3 DEF RingsTypeOK, Given_
<1>7. UNCHANGED <<page, short_head, short_tail, unread, overrun, amiss, count, Readable>>
  BY <1>3 DEF text, Readable
<1>8. Stands(r) => Stands(r)'
  BY <1>3, <1>6, <1>7 DEF Stands, Cell, Between
<1>9. QED
  BY <1>4, <1>5, <1>7, <1>8, OneStands DEF LogInv

LEMMA CopyStep ==
    ASSUME LogInv, NEW r \in Reader, CopyText(r)
    PROVE  LogInv'
<1>1. RingsTypeOK /\ HeadIsEven /\ CountIsOfIrqs
  BY DEF LogInv
<1> DEFINE c == count[r]
           h == short_head
           t == short_tail
           P == PAGE_SIZE
           n == Len(unread)
           given == [k \in 1 .. c |-> IF t + k <= P THEN page[t + k - 1] ELSE -1]
<1>2. /\ P \in Nat \ {0} /\ h \in 0 .. P - 1 /\ t \in 0 .. P - 1 /\ c \in 0 .. P
      /\ unread \in Seq(0 .. MaxIrqs) /\ n \in Nat
      /\ old_tail[r] \in 0 .. P
  BY <1>1, ReaderTypes DEF RingsTypeOK
<1>3. /\ rpc[r] = "copy" /\ rpc' = [rpc EXCEPT ![r] = "load"]
      /\ amiss' = (amiss \/ (~overrun /\ ~IsPrefix(given, unread)))
      /\ unread' = SubSeq(unread, c + 1, n)
      /\ UNCHANGED <<handler, irqs, page, short_head, short_tail, overrun, beyond, array,
                     tophalf, bottom, waiting, count, old_tail>>
  BY DEF CopyText, RGoTo
<1>4. /\ unread' \in Seq(0 .. MaxIrqs)
      /\ c <= n => Len(unread') = n - c /\ \A i \in 1 .. n - c : unread'[i] = unread[c + i]
  <2>1. c \in Nat
    BY <1>2
  <2>2. QED
    BY <1>2, <1>3, <2>1, RestOf, ZenonT(30)
<1>5. RingsTypeOK'
  <2>1. /\ old_tail' = [old_tail EXCEPT ![r] = old_tail[r]] /\ count' = [count EXCEPT ![r] = c]
        /\ short_tail' \in 0 .. PAGE_SIZE - 1 /\ amiss' \in BOOLEAN
    BY <1>1, <1>2, <1>3 DEF RingsTypeOK
  <2>2. QED
    BY <1>1, <1>2, <1>3, <1>4, <2>1, ReaderKeepsTypes
<1>6. HeadIsEven' /\ CountIsOfIrqs'
  BY <1>1, <1>3 DEF HeadIsEven, CountIsOfIrqs, array, tophalf
<1>7. /\ rpc'[r] = "load" /\ Given_(r)' = c /\ Given_(r) = 0
  BY <1>1, <1>3 DEF RingsTypeOK, Given_
<1>8. UNCHANGED <<page, short_head, short_tail, overrun, count, Readable>>
  BY <1>3 DEF Readable
<1>9. ASSUME Stands(r), ~overrun
      PROVE  /\ IsPrefix(given, unread)
             /\ Len(unread') = Between(t, h) - c
             /\ \A i \in 1 .. Len(unread') : unread'[i] = page[Cell(t + c + i - 1)]
             /\ c <= Readable
  <2>1. /\ n = Between(t, h) /\ \A i \in 1 .. n : unread[i] = page[Cell(t + i - 1)]
        /\ c <= Readable
    <3>1. /\ n = Between(t, h) - 0 /\ \A i \in 1 .. n : unread[i] = page[Cell(t + 0 + i - 1)]
          /\ c <= Readable
      BY <1>3, <1>7, <1>9 DEF Stands
    <3>2. \A i \in 1 .. n : t + 0 + i - 1 = t + i - 1
      BY <1>2
    <3>3. Between(t, h) \in Int
      BY <1>2 DEF Between
    <3>4. QED
      BY <3>1, <3>2, <3>3
  <2>2. c <= n /\ t + c <= P
    BY <1>2, <2>1 DEF Between, Readable
  <2>3. \A k \in 1 .. c : /\ t + k <= P /\ k \in 1 .. n /\ Cell(t + k - 1) = t + k - 1
                          /\ given[k] = page[t + k - 1]
    BY <1>2, <2>2 DEF Cell
  <2>4. IsPrefix(given, unread)
    <3>1. \A k \in 1 .. c : given[k] = unread[k]
      BY <2>1, <2>3
    <3>2. page \in [0 .. P - 1 -> -1 .. MaxIrqs] /\ MaxIrqs \in Nat
      BY <1>1, ShortRingsAssumption DEF RingsTypeOK
    <3>3. \A k \in 1 .. c : given[k] \in Int
      <4>1. \A k \in 1 .. c : t + k - 1 \in 0 .. P - 1
        BY <1>2, <2>2
      <4>2. QED
        BY <3>2, <2>3, <4>1
    <3>4. given \in Seq(Int) /\ Len(given) = c
      <4>1. given = [k \in 1 .. c |-> given[k]] /\ c \in Nat
        BY <1>2
      <4> HIDE DEF given, c
      <4>2. given \in [1 .. c -> Int] /\ DOMAIN given = 1 .. c
        BY <3>3, <4>1
      <4>3. QED
        BY <4>1, <4>2
    <3>5. c \in 0 .. Len(unread)
      BY <1>2, <2>2
    <3> HIDE DEF given, c, n
    <3>6. QED
      BY <1>2, <3>1, <3>4, <3>5, PrefixOf
  <2>5. Len(unread') = n - c /\ \A i \in 1 .. n - c : unread'[i] = unread[c + i]
    BY <1>4, <2>2
  <2>6. \A i \in 1 .. n - c : c + i \in 1 .. n /\ t + (c + i) - 1 = t + c + i - 1
    BY <1>2, <2>2, SMTT(30)
  <2>7. \A i \in 1 .. n - c : unread'[i] = page[Cell(t + c + i - 1)]
    BY <2>1, <2>5, <2>6
  <2>8. QED
    BY <2>1, <2>4, <2>5, <2>7
<1>10. Stands(r) => Stands(r)'
  <2> HIDE DEF given
  <2>1. ASSUME Stands(r), ~overrun'
        PROVE  /\ Len(unread') = Between(short_tail', short_head') - Given_(r)'
               /\ \A i \in 1 .. Len(unread') :
                      unread'[i] = page'[Cell(short_tail' + Given_(r)' + i - 1)]
               /\ count'[r] <= Readable'
    BY <1>7, <1>8, <1>9, <2>1
  <2>2. rpc'[r] # "store"
    BY <1>7
  <2>3. QED
    BY <2>1, <2>2 DEF Stands
<1>11. OneReader => ~amiss' /\ Stands(r)'
  <2> HIDE DEF given
  <2>1. QED
    BY <1>3, <1>9, <1>10 DEF LogInv
<1>12. QED
  BY <1>5, <1>6, <1>11, OneStands

LEMMA StoreStep ==
    ASSUME LogInv, NEW r \in Reader, StoreTail(r)
    PROVE  LogInv'
<1>1. RingsTypeOK /\ HeadIsEven /\ CountIsOfIrqs
  BY DEF LogInv
<1> DEFINE c == count[r]
           h == short_head
           t == short_tail
           P == PAGE_SIZE
           n == Len(unread)
           u == old_tail[r]
<1>2. /\ P \in Nat \ {0} /\ h \in 0 .. P - 1 /\ t \in 0 .. P - 1 /\ c \in 0 .. P
      /\ unread \in Seq(0 .. MaxIrqs) /\ n \in Nat /\ u \in 0 .. P
  BY <1>1, ReaderTypes DEF RingsTypeOK
<1>3. /\ rpc[r] = "store" /\ rpc' = [rpc EXCEPT ![r] = "idle"]
      /\ short_tail' = IF u + c >= P THEN 0 ELSE u + c
      /\ count' = [count EXCEPT ![r] = 0] /\ old_tail' = [old_tail EXCEPT ![r] = 0]
      /\ UNCHANGED <<handler, irqs, page, short_head, unread, overrun, beyond, array, tophalf,
                     bottom, waiting, amiss>>
  BY DEF StoreTail, RGoTo, incr_bp, short_incr_bp, shortp_incr_bp
<1>4. RingsTypeOK'
  <2>1. /\ short_tail' \in 0 .. PAGE_SIZE - 1 /\ 0 \in 0 .. PAGE_SIZE
    BY <1>2, <1>3
  <2>2. unread' \in Seq(0 .. MaxIrqs) /\ amiss' \in BOOLEAN
    BY <1>1, <1>3 DEF RingsTypeOK
  <2>3. QED
    BY <1>1, <1>3, <2>1, <2>2, ReaderKeepsTypes
<1>5. HeadIsEven' /\ CountIsOfIrqs'
  BY <1>1, <1>3 DEF HeadIsEven, CountIsOfIrqs, array, tophalf
<1>6. /\ rpc'[r] = "idle" /\ Given_(r)' = 0 /\ Given_(r) = c
  BY <1>1, <1>3 DEF RingsTypeOK, Given_
<1>7. Stands(r) => Stands(r)'
  <2>1. SUFFICES ASSUME Stands(r), ~overrun
                 PROVE  /\ Len(unread) = Between(short_tail', h) - 0
                        /\ \A i \in 1 .. Len(unread) :
                               unread[i] = page[Cell(short_tail' + 0 + i - 1)]
    BY <1>3, <1>6 DEF Stands
  <2>2. /\ u = t /\ n = Between(t, h) - c /\ c <= Readable
        /\ \A i \in 1 .. n : unread[i] = page[Cell(t + c + i - 1)]
    BY <1>3, <1>6, <2>1 DEF Stands
  <2>3. t + c <= P
    BY <1>2, <2>2 DEF Readable
  <2>4. short_tail' = Cell(t + c)
    BY <1>2, <1>3, <2>2, <2>3 DEF Cell
  <2> HIDE DEF n, c, t, h, P, u
  <2>5. /\ n = Between(Cell(t + c), h) - 0
        /\ \A i \in 1 .. n : Cell(Cell(t + c) + 0 + i - 1) = Cell(t + c + i - 1)
    <3>1. /\ P \in Nat \ {0} /\ h \in 0 .. P - 1 /\ t \in 0 .. P - 1 /\ c \in 0 .. P /\ n \in Nat
          /\ n = Between(t, h) - c /\ t + c <= P /\ P = PAGE_SIZE /\ c <= Readable
      BY <1>2, <2>2, <2>3 DEF P
    <3>2. c <= IF h < t THEN P - t ELSE h - t
      BY <3>1 DEF Readable, h, t
    <3>3. CASE t <= h
      BY <3>1, <3>2, <3>3 DEF Between, Cell
    <3>4. CASE h < t
      BY <3>1, <3>2, <3>4 DEF Between, Cell
    <3>5. QED
      BY <3>1, <3>3, <3>4
  <2>6. QED
    BY <2>2, <2>4, <2>5 DEF n
<1>8. QED
  BY <1>3, <1>4, <1>5, <1>7, OneStands DEF LogInv

LEMMA ReadsStep ==
    ASSUME LogInv, NEW r \in Reader, Reads(r)
    PROVE  LogInv'
  BY ReaderMoves, CountStep, CopyStep, FaultStep, LoadStep, StoreStep DEF Reads

LEMMA LogInvIsInductive == LogInv /\ [RingsNext]_rvars => LogInv'
<1> SUFFICES ASSUME LogInv, [RingsNext]_rvars
             PROVE  LogInv'
  OBVIOUS
<1>1. CASE short_interrupt \/ short_sh_interrupt
  BY <1>1, HandlerLogs DEF short_interrupt, short_sh_interrupt
<1>2. CASE short_wq_interrupt \/ short_tl_interrupt \/ shortp_interrupt
  BY <1>2, TopHalfStep DEF short_wq_interrupt, short_tl_interrupt
<1>3. CASE short_do_tasklet \/ shortp_record
  BY <1>3, BottomHalfStep
<1>4. CASE \E r \in Reader : short_i_read(r) \/ shortp_read(r)
  BY <1>4, ReadsStep DEF short_i_read, shortp_read
<1>5. CASE UNCHANGED rvars
  <2>1. RingsTypeOK' /\ CountIsOfIrqs'
    BY <1>5 DEF LogInv, RingsTypeOK, CountIsOfIrqs, rvars, text, array, tophalf, bottom, reading
  <2>2. QED
    BY <1>5, <2>1, QuietWriter DEF rvars, reading
<1>6. QED
  BY <1>1, <1>2, <1>3, <1>4, <1>5 DEF RingsNext

LEMMA LogInvAtFirst == RingsInit => LogInv
<1> SUFFICES ASSUME RingsInit
             PROVE  LogInv
  OBVIOUS
<1>1. PAGE_SIZE \in Nat \ {0} /\ MaxIrqs \in Nat /\ NR_TIMEVAL \in Nat \ {0} /\ Records \in Nat \ {0}
  BY PageSize, ShortRingsAssumption
<1>2. RingsTypeOK
  <2>1. /\ page \in [0 .. PAGE_SIZE - 1 -> -1 .. MaxIrqs] /\ 0 \in 0 .. PAGE_SIZE - 1
        /\ tv_data \in [0 .. NR_TIMEVAL - 1 -> 0 .. MaxIrqs] /\ 0 \in 0 .. NR_TIMEVAL - 1
        /\ 0 \in 0 .. MaxIrqs /\ count \in [Reader -> 0 .. PAGE_SIZE]
        /\ old_tail \in [Reader -> 0 .. PAGE_SIZE] /\ unread \in Seq(0 .. MaxIrqs)
    BY <1>1 DEF RingsInit
  <2>2. QED
    BY <2>1 DEF RingsInit, RingsTypeOK
<1>3. HeadIsEven /\ CountIsOfIrqs
  <2>1. 0 \in 0 .. Records - 1 /\ short_head = 2 * 0
    BY <1>1 DEF RingsInit
  <2>2. HeadIsEven
    BY <2>1 DEF HeadIsEven
  <2>3. QED
    BY <1>1, <2>2 DEF RingsInit, CountIsOfIrqs
<1>4. \A r \in Reader : Stands(r)
  BY <1>1 DEF RingsInit, Stands, Given_, Between
<1>5. QED
  BY <1>2, <1>3, <1>4 DEF LogInv, RingsInit

(* The ring of text keeps its types and, as long as no record goes over    *)
(* unread text, gives a single reader the log as it was written, whatever  *)
(* the size of the page, the handler installed and the lengths of the      *)
(* reads.                                                                  *)
THEOREM LogIsGiven == RingsSpec => []LogIsSound
<1>1. LogInv => LogIsSound
  BY DEF LogInv, LogIsSound, ReaderGetsTheLog
<1>2. QED
  BY <1>1, LogInvAtFirst, LogInvIsInductive, PTL DEF RingsSpec

-----------------------------------------------------------------------------
(* The handler has found nothing since the toggle exactly as long as it    *)
(* has not run; the turns that are left can be counted; and there are only *)
(* finitely many calls at a time.                                          *)
PortsInv ==
    /\ PortsTypeOK /\ IsFiniteSet(bursts) /\ BuffersGoWithTheirCalls /\ LinesAlternate
    /\ fired \in Seq(Line)
    /\ probing \in {"toggle", "wait"} => passes <= 5
    /\ short_irq = 0 => fired = <<>>
    /\ short_irq > 0 /\ crossed = {} => fired # <<>> /\ \A i \in DOMAIN fired : fired[i] = short_irq

Output(u) == do_short_read(u) \/ do_short_write(u)

-----------------------------------------------------------------------------
(* The part of a step that the others leave alone.                         *)
LEMMA OutputsKeep ==
    ASSUME PortsInv, UNCHANGED outputs
    PROVE  /\ bursts' \subseteq User /\ kbufs' \in Nat /\ faults' \in 0 .. MaxFaults
           /\ IsFiniteSet(bursts') /\ BuffersGoWithTheirCalls'
  BY DEF PortsInv, PortsTypeOK, outputs, BuffersGoWithTheirCalls

LEMMA ProbeKeeps ==
    ASSUME PortsInv, UNCHANGED probe
    PROVE  /\ short_irq' \in {(-1), 0} \cup Line \cup {(-l) : l \in Line}
           /\ tried' \subseteq Line /\ passes' \in 0 .. 6
           /\ probing' \in {"none", "toggle", "wait", "over"}
           /\ probing' \in {"toggle", "wait"} => passes' <= 5
           /\ Len(fired') <= MaxFires /\ fired' \in Seq(Line)
           /\ short_irq' = 0 => fired' = <<>>
           /\ crossed' \subseteq Line
           /\ short_irq' > 0 /\ crossed' = {} =>
                  fired' # <<>> /\ \A i \in DOMAIN fired' : fired'[i] = short_irq'
  BY DEF PortsInv, PortsTypeOK, probe

LEMMA OutputStep ==
    ASSUME PortsInv, NEW u \in User, Output(u)
    PROVE  PortsInv'
<1>1. UNCHANGED <<lines, probe>>
  BY DEF Output, do_short_read, do_short_write, Begins, Ends
<1>2. /\ IsFiniteSet(bursts) /\ Cardinality(bursts) \in Nat
      /\ kbufs = Cardinality(bursts) + faults /\ faults \in 0 .. MaxFaults /\ MaxFaults \in Nat
  BY FS_CardinalityType, ShortPortsAssumption
     DEF PortsInv, PortsTypeOK, BuffersGoWithTheirCalls
<1>3. /\ bursts' \subseteq User /\ kbufs' \in Nat /\ faults' \in 0 .. MaxFaults
      /\ IsFiniteSet(bursts') /\ BuffersGoWithTheirCalls'
  <2>1. CASE Begins(u)
    <3>1. IsFiniteSet(bursts') /\ Cardinality(bursts') = Cardinality(bursts) + 1
      BY <1>2, <2>1, FS_AddElement DEF Begins
    <3>2. bursts' \subseteq User /\ kbufs' = kbufs + 1 /\ faults' = faults
      BY <2>1 DEF Begins, PortsInv, PortsTypeOK
    <3>3. QED
      BY <1>2, <3>1, <3>2 DEF BuffersGoWithTheirCalls
  <2>2. CASE u \in bursts /\ bursts' = bursts \ {u}
    <3>1. /\ IsFiniteSet(bursts') /\ Cardinality(bursts') = Cardinality(bursts) - 1
          /\ Cardinality(bursts') \in Nat
      BY <1>2, <2>2, FS_RemoveElement, FS_CardinalityType
    <3>2. \/ kbufs' = kbufs - 1 /\ faults' = faults
          \/ kbufs' = kbufs /\ faults < MaxFaults /\ faults' = faults + 1
      BY <2>2 DEF Output, do_short_read, do_short_write, Begins, Ends
    <3>3. bursts' \subseteq User
      BY <2>2 DEF PortsInv, PortsTypeOK
    <3>4. faults' \in 0 .. MaxFaults /\ kbufs' = Cardinality(bursts') + faults'
      BY <1>2, <3>1, <3>2
    <3>5. kbufs' \in Nat
      BY <3>1, <3>4
    <3>6. QED
      BY <3>1, <3>3, <3>4, <3>5 DEF BuffersGoWithTheirCalls
  <2>3. QED
    BY <2>1, <2>2 DEF Output, do_short_read, do_short_write, Ends
<1>4. QED
  BY <1>1, <1>3, ProbeKeeps DEF PortsInv, PortsTypeOK, lines, probe, LinesAlternate

(* The level after n outputs is up when an odd number went before.         *)
LEMMA ToggleStep ==
    ASSUME PortsInv, NEW n \in 1 .. MaxToggles, short_i_write(n)
    PROVE  PortsInv'
<1>1. i_pos \in Nat /\ n \in Nat /\ i_pos' = i_pos + n /\ i_pos' \in 0 .. MaxToggles
  BY ShortPortsAssumption DEF PortsInv, PortsTypeOK, short_i_write
<1>2. (n + (i_pos % 2)) % 2 = (i_pos + n) % 2 /\ (i_pos + n) % 2 \in {0, 1}
  BY <1>1, SMT
<1>3. level' = 255 * (i_pos' % 2) /\ level' \in {0, 255}
  BY <1>1, <1>2 DEF short_i_write, Toggle
<1>4. UNCHANGED <<outputs, probe>>
  BY DEF short_i_write
<1>5. QED
  BY <1>1, <1>3, <1>4, OutputsKeep, ProbeKeeps DEF PortsInv, PortsTypeOK, LinesAlternate

(* The probe and its handler.                                              *)
LEMMA ProbeStep ==
    ASSUME PortsInv, short_selfprobe
    PROVE  PortsInv'
<1>1. UNCHANGED <<outputs, lines>>
  BY DEF short_selfprobe, Install, ToggleLine, LoopTest, Uninstall
<1>2. CASE ToggleLine
  <2>1. /\ <<>> \in Seq(Line) /\ Len(<<>>) = 0 /\ MaxFires \in Nat
    BY ShortPortsAssumption
  <2>2. /\ short_irq' = 0 /\ fired' = <<>> /\ crossed' = {} /\ UNCHANGED <<tried, passes>>
        /\ probing = "toggle" /\ probing' = "wait"
    BY <1>2 DEF ToggleLine
  <2>3. Len(fired') <= MaxFires /\ fired' \in Seq(Line)
    BY <2>1, <2>2
  <2>4. QED
    BY <1>1, <2>2, <2>3, OutputsKeep DEF PortsInv, PortsTypeOK, LinesAlternate, lines
<1>3. CASE Install \/ LoopTest \/ Uninstall
  <2>1. UNCHANGED <<short_irq, fired, crossed>>
    BY <1>3 DEF Install, LoopTest, Uninstall
  <2>2. /\ tried' \subseteq Line /\ passes' \in 0 .. 6
        /\ probing' \in {"none", "toggle", "wait", "over"}
        /\ probing' \in {"toggle", "wait"} => passes' <= 5
    <3>1. CASE Install
      BY <3>1 DEF Install
    <3>2. CASE LoopTest
      BY <3>2 DEF LoopTest, PortsInv, PortsTypeOK
    <3>3. CASE Uninstall
      BY <3>3 DEF Uninstall, PortsInv, PortsTypeOK
    <3>4. QED
      BY <1>3, <3>1, <3>2, <3>3
  <2>3. QED
    BY <1>1, <2>1, <2>2, OutputsKeep DEF PortsInv, PortsTypeOK, LinesAlternate, lines
<1>4. QED
  BY <1>2, <1>3 DEF short_selfprobe

LEMMA HandlerStep ==
    ASSUME PortsInv, NEW irq \in Line, short_probing(irq)
    PROVE  PortsInv'
<1>1. /\ irq \in Nat \ {0} /\ short_irq \in Int /\ fired \in Seq(Line) /\ MaxFires \in Nat
      /\ Len(fired) < MaxFires /\ fired' = Append(fired, irq) /\ short_irq' = Probing(irq)
  BY ShortPortsAssumption DEF PortsInv, PortsTypeOK, short_probing
<1>2. UNCHANGED <<outputs, lines, tried, passes, probing, crossed>>
  BY DEF short_probing
<1>3. /\ fired' \in Seq(Line) /\ fired' # <<>> /\ Len(fired') = Len(fired) + 1
      /\ \A i \in DOMAIN fired' : fired'[i] = IF i = Len(fired) + 1 THEN irq ELSE fired[i]
  BY <1>1
<1>4. short_irq' \in Line \cup {(-l) : l \in Line} /\ short_irq' # 0
  BY <1>1, ShortPortsAssumption DEF Probing
<1>5. ASSUME short_irq' > 0, crossed = {}
      PROVE  \A i \in DOMAIN fired' : fired'[i] = short_irq'
  <2>1. short_irq' = irq /\ (short_irq = 0 \/ short_irq = irq)
    BY <1>1, <1>5 DEF Probing
  <2>2. \A i \in DOMAIN fired : fired[i] = irq
    <3>1. CASE short_irq = 0
      BY <3>1 DEF PortsInv
    <3>2. CASE short_irq = irq
      BY <1>1, <1>5, <3>2 DEF PortsInv
    <3>3. QED
      BY <2>1, <3>1, <3>2
  <2>3. QED
    BY <1>1, <1>3, <2>1, <2>2
<1>6. Len(fired') <= MaxFires
  BY <1>1, <1>3
<1>7. QED
  BY <1>2, <1>3, <1>4, <1>5, <1>6, OutputsKeep DEF PortsInv, PortsTypeOK, LinesAlternate, lines

LEMMA HandlersStep ==
    ASSUME PortsInv, NEW irq \in Line, NEW other \in Line, short_probing_both(irq, other)
    PROVE  PortsInv'
<1>1. /\ irq \in Nat \ {0} /\ other \in Nat \ {0} /\ fired \in Seq(Line) /\ MaxFires \in Nat
      /\ Len(fired) + 1 < MaxFires /\ fired' = fired \o <<irq, other>> /\ crossed' = crossed \cup {irq, other}
      /\ short_irq' \in {irq, other, (-irq), (-other)}
  BY ShortPortsAssumption DEF PortsInv, PortsTypeOK, short_probing_both
<1>2. UNCHANGED <<outputs, lines, tried, passes, probing>>
  BY DEF short_probing_both
<1>3. <<irq, other>> \in Seq(Line) /\ Len(<<irq, other>>) = 2
  OBVIOUS
<1>4. fired' \in Seq(Line) /\ Len(fired') = Len(fired) + 2 /\ Len(fired) \in Nat
  BY <1>1, <1>3
<1>5. short_irq' \in Line \cup {(-l) : l \in Line} /\ short_irq' # 0
  BY <1>1
<1>6. crossed' \subseteq Line /\ crossed' # {} /\ Len(fired') <= MaxFires
  <2>1. crossed' \subseteq Line /\ crossed' # {}
    BY <1>1 DEF PortsInv, PortsTypeOK
  <2>2. Len(fired) + 2 <= MaxFires
    BY <1>1, <1>4
  <2>3. QED
    BY <1>4, <2>1, <2>2
<1>7. PortsTypeOK' /\ LinesAlternate'
  BY <1>2, <1>4, <1>5, <1>6, OutputsKeep DEF PortsInv, PortsTypeOK, LinesAlternate, lines
<1>8. QED
  BY <1>2, <1>4, <1>5, <1>6, <1>7, OutputsKeep DEF PortsInv

-----------------------------------------------------------------------------
LEMMA PortsInvHolds == PortsSpec => []PortsInv
<1>1. PortsInit => PortsInv
  BY ShortPortsAssumption, FS_EmptySet
     DEF PortsInit, PortsInv, PortsTypeOK, BuffersGoWithTheirCalls, LinesAlternate
<1>2. ASSUME PortsInv, [PortsNext]_pvars
      PROVE  PortsInv'
  <2>1. CASE \E u \in User : do_short_read(u) \/ do_short_write(u)
    BY <1>2, <2>1, OutputStep DEF Output
  <2>2. CASE \E n \in 1 .. MaxToggles : short_i_write(n)
    BY <1>2, <2>2, ToggleStep
  <2>3. CASE short_selfprobe
    BY <1>2, <2>3, ProbeStep
  <2>4. CASE \E irq \in Line : short_probing(irq)
    BY <1>2, <2>4, HandlerStep
  <2>5. CASE \E irq, other \in Line : short_probing_both(irq, other)
    BY <1>2, <2>5, HandlersStep
  <2>6. CASE UNCHANGED pvars
    BY <1>2, <2>6, OutputsKeep, ProbeKeeps
       DEF pvars, outputs, lines, probe, PortsInv, PortsTypeOK, LinesAlternate
  <2>7. QED
    BY <1>2, <2>1, <2>2, <2>3, <2>4, <2>5, <2>6 DEF PortsNext
<1>3. QED
  BY <1>1, <1>2, PTL DEF PortsSpec

(* Every variable keeps its type: the search ends after six turns.         *)
THEOREM SearchIsBounded == PortsSpec => []PortsTypeOK
<1>1. PortsInv => PortsTypeOK
  BY DEF PortsInv
<1>2. QED
  BY <1>1, PortsInvHolds, PTL

(* The buffers that are allocated are those of the bursts under way and of *)
(* the writes that failed to copy, for any number of users.                *)
THEOREM BuffersAreFreed == PortsSpec => []BuffersGoWithTheirCalls
<1>1. PortsInv => BuffersGoWithTheirCalls
  BY DEF PortsInv
<1>2. QED
  BY <1>1, PortsInvHolds, PTL

(* The data lines alternate across writes of any lengths.                  *)
THEOREM TogglesAlternate == PortsSpec => []LinesAlternate
<1>1. PortsInv => LinesAlternate
  BY DEF PortsInv
<1>2. QED
  BY <1>1, PortsInvHolds, PTL

(* The three of them: the outputs and the search stay in step with their   *)
(* calls, whatever was cut short.                                          *)
THEOREM OutputsKeepStep == PortsSpec => []OutputsAreInStep
<1>1. PortsInv => OutputsAreInStep
  BY DEF PortsInv, OutputsAreInStep
<1>2. QED
  BY <1>1, PortsInvHolds, PTL

(* The line short_selfprobe finds fired alone since the last toggle, with  *)
(* any lines and any number of interrupts at any point of the search, as   *)
(* long as one handler runs at a time.                                     *)
THEOREM ProbeIsRight == PortsSpec => []FoundLineFiredAlone
<1>1. PortsInv => FoundLineFiredAlone
  BY DEF PortsInv, FoundLineFiredAlone
<1>2. QED
  BY <1>1, PortsInvHolds, PTL

-----------------------------------------------------------------------------
(* A process between two calls has no file; one on a queue is where its    *)
(* read joined it; and the timer or the tasklet of a jit call has printed  *)
(* a line for each loop it has counted off, and one more between the two.  *)
After == {p \in Task : wpc[p] = "after"}

IdleHasNoFile == \A p \in Task : wpc[p] = "idle" => file[p] = "none"

QueueFits == \A p \in wqueue :
    \/ file[p] \in {"sleepy", "jiqtimer", "jiqtasklet"} \cup JitFiles /\ wpc[p] \in {"recheck", "asleep"}
    \/ file[p] \in WorkFiles /\ wpc[p] \in {"start", "asleep"}

JitFits == \A p \in Task :
    /\ jpc[p] \in {"armed", "printed"} <=> loops[p] > 0
    /\ jpc[p] = "armed"   => out[p] = JIT_ASYNC_LOOPS - loops[p]
    /\ jpc[p] = "printed" => out[p] = JIT_ASYNC_LOOPS - loops[p] + 1
    /\ jpc[p] = "wake"    => out[p] = JIT_ASYNC_LOOPS
    /\ jpc[p] = "off"     => out[p] = JIT_ASYNC_LOOPS \/ file[p] \notin JitFiles

WritesFit ==
    /\ waker <= writes
    /\ IF procs = {"complete"} THEN IsFiniteSet(After) ELSE done = 0 /\ ends = 0

WaitersInv ==
    /\ IdleHasNoFile /\ QueueFits /\ JitFits /\ WritesFit
    /\ WaitersTypeOK
    /\ WhoWaitsIsWoken /\ CompletionsAreCounted /\ TimerHasAReader /\ AllLinesArePrinted

(* The wait queue of a file whose readers wait for a condition.            *)
Queued == {"sleepy", "jiqtimer", "jiqtasklet"} \cup JitFiles

(* A step that moves one process and leaves the rest.                      *)
Moves(p, f, to) == /\ file' = [file EXCEPT ![p] = f] /\ wpc' = [wpc EXCEPT ![p] = to]
                   /\ UNCHANGED procs

LEMMA MovesTypes ==
    ASSUME WaitersTypeOK, NEW p \in Task, NEW f \in procs \cup {"none"},
           NEW to \in {"idle", "setup", "print", "start", "test", "enqueue", "recheck",
                       "asleep", "woken", "after", "sync"},
           Moves(p, f, to)
    PROVE  /\ procs' \in Modules /\ file' \in [Task -> procs' \cup {"none"}]
           /\ wpc' \in [Task -> {"idle", "setup", "print", "start", "test", "enqueue", "recheck",
                                 "asleep", "woken", "after", "sync"}]
           /\ file'[p] = f /\ wpc'[p] = to
           /\ \A q \in Task \ {p} : file'[q] = file[q] /\ wpc'[q] = wpc[q]
  BY DEF WaitersTypeOK, Moves

(* The files of one module are not those of another.                       *)
LEMMA OneModule ==
    ASSUME WaitersTypeOK
    PROVE  /\ procs = {"complete"} => \A p \in Task : file[p] \in {"complete", "none"}
           /\ \A p \in Task : file[p] = "complete" => procs = {"complete"}
           /\ "complete" \in procs => procs = {"complete"}
  BY DEF WaitersTypeOK, Modules, JiqFiles, WorkFiles, JitFiles, Timed, Prompt

-----------------------------------------------------------------------------
LEMMA WaitEventStep ==
    ASSUME WaitersInv, NEW p \in Task, file[p] \in Queued, WaitEvent(p)
    PROVE  WaitersInv'
<1>1. /\ WaitersTypeOK /\ IdleHasNoFile /\ QueueFits /\ JitFits /\ WritesFit
      /\ WhoWaitsIsWoken /\ CompletionsAreCounted /\ TimerHasAReader /\ AllLinesArePrinted
  BY DEF WaitersInv
<1>2. /\ UNCHANGED <<procs, file, wakes, jiq, jit>>
      /\ wqueue' \in {wqueue, wqueue \cup {p}, wqueue \ {p}}
      /\ \E to \in {"after", "enqueue", "recheck", "asleep"} :
            /\ Moves(p, file[p], to)
            /\ wpc[p] \in {"test", "enqueue", "recheck", "asleep"}
            /\ p \in wqueue' => to \in {"recheck", "asleep"}
            /\ to = "asleep" => ~Holds(p)
  <2>1. file' = file => file' = [file EXCEPT ![p] = file[p]]
    BY <1>1 DEF WaitersTypeOK
  <2>2. p \in wqueue => wpc[p] \in {"recheck", "asleep"}
    BY <1>1 DEF QueueFits, Queued, WorkFiles, JitFiles
  <2>3. file[p] \notin WorkFiles
    BY DEF Queued, WorkFiles, JitFiles
  <2>4. CASE Test(p)
    BY <2>1, <2>2, <2>4 DEF Test, WGoes, Moves
  <2>5. CASE Enqueue(p)
    BY <2>1, <2>5 DEF Enqueue, WGoes, Moves
  <2>6. CASE WRecheck(p)
    BY <2>1, <2>6 DEF WRecheck, WGoes, Moves
  <2>7. CASE Awake(p)
    BY <2>1, <2>3, <2>7 DEF Awake, Moves
  <2>8. CASE WSignal(p)
    BY <2>1, <2>8 DEF WSignal, Moves
  <2>9. QED
    BY <2>4, <2>5, <2>6, <2>7, <2>8 DEF WaitEvent
<1>3. PICK to \in {"after", "enqueue", "recheck", "asleep"} :
            /\ Moves(p, file[p], to)
            /\ wpc[p] \in {"test", "enqueue", "recheck", "asleep"}
            /\ p \in wqueue' => to \in {"recheck", "asleep"}
            /\ to = "asleep" => ~Holds(p)
  BY <1>2
<1>4. /\ procs' \in Modules /\ file' \in [Task -> procs' \cup {"none"}]
      /\ wpc' \in [Task -> {"idle", "setup", "print", "start", "test", "enqueue", "recheck",
                            "asleep", "woken", "after", "sync"}]
      /\ wpc'[p] = to /\ \A q \in Task \ {p} : wpc'[q] = wpc[q]
  <2>1. file[p] \in procs \cup {"none"}
    BY <1>1 DEF WaitersTypeOK
  <2>2. QED
    BY <1>1, <1>3, <2>1, MovesTypes
<1>5. WaitersTypeOK'
  BY <1>1, <1>2, <1>4 DEF WaitersTypeOK, wakes, jiq, jit
<1>6. IdleHasNoFile'
  BY <1>1, <1>2, <1>4 DEF IdleHasNoFile
<1>7. QueueFits'
  <2>1. \A q \in wqueue' : q = p \/ (q \in wqueue /\ q \in Task /\ q # p)
    BY <1>1, <1>2 DEF WaitersTypeOK
  <2>2. p \in wqueue' => /\ file'[p] \in {"sleepy", "jiqtimer", "jiqtasklet"} \cup JitFiles
                        /\ wpc'[p] \in {"recheck", "asleep"}
    BY <1>2, <1>3, <1>4 DEF Queued
  <2>3. \A q \in Task \ {p} : file'[q] = file[q] /\ wpc'[q] = wpc[q]
    BY <1>2, <1>4
  <2>4. QED
    BY <1>1, <2>1, <2>2, <2>3 DEF QueueFits
<1>8. JitFits'
  BY <1>1, <1>2 DEF JitFits, jit
<1>9. WritesFit' /\ CompletionsAreCounted'
  <2>1. procs # {"complete"}
    BY <1>1, OneModule DEF Queued, JitFiles
  <2>2. QED
    BY <1>1, <1>2, <2>1 DEF WritesFit, CompletionsAreCounted, wakes
<1>10. WhoWaitsIsWoken'
  <2>1. \A q \in Task : Holds(q)' <=> Holds(q)
    BY <1>2 DEF Holds, wakes, jiq, jit
  <2>2. \A q \in wqueue' : wpc'[q] = "asleep" /\ Holds(q)' => q \in wqueue /\ wpc[q] = "asleep" /\ Holds(q)
    BY <1>1, <1>2, <1>3, <1>4, <2>1 DEF WaitersTypeOK
  <2>3. QED
    BY <1>1, <1>2, <2>2 DEF WhoWaitsIsWoken, wakes, jiq, jit
<1>11. TimerHasAReader'
  BY <1>1, <1>2, <1>3, <1>4 DEF TimerHasAReader, jiq
<1>12. AllLinesArePrinted'
  BY <1>1, <1>2 DEF AllLinesArePrinted, jit
<1>13. QED
  BY <1>5, <1>6, <1>7, <1>8, <1>9, <1>10, <1>11, <1>12 DEF WaitersInv

(* A call to a file of another kind begins.                                *)
LEMMA CallStep ==
    ASSUME WaitersInv, NEW p \in Task, NEW f \in WorkFiles \cup Timed \cup Prompt
                                         \cup {"sleepy", "complete", "jiqtimer", "jiqtasklet"},
           NEW to \in {"test", "setup", "print", "start", "asleep", "after"},
           f = "complete" => to = "test", Call(p, f, to),
           UNCHANGED <<procs, wakes, var, pending, active, twice, jit>>,
           len' \in 0 .. Limit + 1, seq' \in Task \cup {NoTask}
    PROVE  WaitersInv'
<1>1. /\ WaitersTypeOK /\ IdleHasNoFile /\ QueueFits /\ JitFits /\ WritesFit
      /\ WhoWaitsIsWoken /\ CompletionsAreCounted /\ TimerHasAReader /\ AllLinesArePrinted
  BY DEF WaitersInv
<1>2. /\ Moves(p, f, to) /\ f \in procs /\ wpc[p] = "idle" /\ file[p] = "none" /\ UNCHANGED wqueue
  BY <1>1 DEF Call, Moves, IdleHasNoFile
<1>3. /\ procs' \in Modules /\ file' \in [Task -> procs' \cup {"none"}]
      /\ wpc' \in [Task -> {"idle", "setup", "print", "start", "test", "enqueue", "recheck",
                            "asleep", "woken", "after", "sync"}]
      /\ file'[p] = f /\ wpc'[p] = to
      /\ \A q \in Task \ {p} : file'[q] = file[q] /\ wpc'[q] = wpc[q]
  BY <1>1, <1>2, MovesTypes
<1>4. /\ UNCHANGED <<procs, wqueue, flag, done, writes, waker, ends>>
      /\ UNCHANGED <<var, pending, active, twice, loops, out, jpc, short>>
  BY <1>2 DEF Moves, wakes, jit
<1>5. p \notin wqueue /\ wqueue \subseteq Task
  BY <1>1, <1>2 DEF QueueFits, WorkFiles, JitFiles, WaitersTypeOK
<1>6. WaitersTypeOK'
  BY <1>1, <1>3, <1>4 DEF WaitersTypeOK
<1>7. IdleHasNoFile'
  BY <1>1, <1>3 DEF IdleHasNoFile
<1>8. QueueFits'
  BY <1>1, <1>3, <1>4, <1>5 DEF QueueFits
<1>9. JitFits'
  <2>1. f \notin JitFiles
    BY DEF WorkFiles, Timed, Prompt, JitFiles
  <2>2. \A q \in Task : file'[q] \in JitFiles => file'[q] = file[q]
    BY <1>3, <2>1
  <2>3. QED
    BY <1>1, <1>4, <2>2 DEF JitFits
<1>10. WritesFit' /\ CompletionsAreCounted'
  <2>1. CASE procs # {"complete"}
    BY <1>1, <1>4, <2>1 DEF WritesFit, CompletionsAreCounted
  <2>2. CASE procs = {"complete"}
    <3>1. to = "test"
      BY <1>2, <2>2
    <3>2. After' = After
      BY <1>2, <1>3, <3>1 DEF After
    <3>3. QED
      BY <1>1, <1>4, <3>2 DEF WritesFit, CompletionsAreCounted, After
  <2>3. QED
    BY <2>1, <2>2
<1>11. WhoWaitsIsWoken'
  <2>1. \A q \in wqueue : file'[q] = file[q] /\ wpc'[q] = wpc[q] /\ q \in Task
    BY <1>3, <1>5
  <2>2. QED
    BY <1>1, <1>4, <2>1 DEF WhoWaitsIsWoken, Holds
<1>12. TimerHasAReader'
  BY <1>1, <1>2, <1>3, <1>4 DEF TimerHasAReader
<1>13. AllLinesArePrinted'
  BY <1>1, <1>4 DEF AllLinesArePrinted
<1>14. QED
  BY <1>6, <1>7, <1>8, <1>9, <1>10, <1>11, <1>12, <1>13 DEF WaitersInv

(* A call of a file other than that of complete.c and those of the two jit *)
(* handlers returns.                                                       *)
LEMMA ReturnStep ==
    ASSUME WaitersInv, NEW p \in Task, NEW from \in {"after", "woken", "asleep"},
           file[p] \in WorkFiles \cup Timed \cup Prompt \cup {"sleepy", "jiqtimer", "jiqtasklet"},
           from = "asleep" => file[p] \in Timed, file[p] = "jiqtimer" => from = "woken",
           WReturn(p, from), UNCHANGED <<procs, done, writes, waker, ends>>,
           flag' \in {flag, FALSE}, UNCHANGED <<len, var, pending, active, twice, jit>>,
           seq' \in Task \cup {NoTask}
    PROVE  WaitersInv'
<1>1. /\ WaitersTypeOK /\ IdleHasNoFile /\ QueueFits /\ JitFits /\ WritesFit
      /\ WhoWaitsIsWoken /\ CompletionsAreCounted /\ TimerHasAReader /\ AllLinesArePrinted
  BY DEF WaitersInv
<1>2. Moves(p, "none", "idle") /\ wpc[p] = from /\ UNCHANGED wqueue
  BY DEF WReturn, Moves
<1>3. /\ procs' \in Modules /\ file' \in [Task -> procs' \cup {"none"}]
      /\ wpc' \in [Task -> {"idle", "setup", "print", "start", "test", "enqueue", "recheck",
                            "asleep", "woken", "after", "sync"}]
      /\ file'[p] = "none" /\ wpc'[p] = "idle"
      /\ \A q \in Task \ {p} : file'[q] = file[q] /\ wpc'[q] = wpc[q]
  BY <1>1, <1>2, MovesTypes
<1>4. UNCHANGED <<procs, wqueue, done, writes, waker, ends, len, var, pending, active, twice,
                  loops, out, jpc, short>>
  BY <1>2 DEF Moves, jit
<1>5. p \notin wqueue /\ wqueue \subseteq Task
  <2>1. wqueue \subseteq Task
    BY <1>1 DEF WaitersTypeOK
  <2>2. from = "asleep" => file[p] \notin {"sleepy", "jiqtimer", "jiqtasklet"} \cup JitFiles \cup WorkFiles
    BY DEF Timed, WorkFiles, JitFiles
  <2>3. QED
    BY <1>1, <1>2, <2>1, <2>2 DEF QueueFits
<1>6. WaitersTypeOK'
  <2>1. flag' \in BOOLEAN
    BY <1>1 DEF WaitersTypeOK
  <2>2. QED
    BY <1>1, <1>3, <1>4, <2>1 DEF WaitersTypeOK
<1>7. IdleHasNoFile'
  BY <1>1, <1>3 DEF IdleHasNoFile
<1>8. QueueFits'
  BY <1>1, <1>3, <1>4, <1>5 DEF QueueFits
<1>9. JitFits'
  <2>1. "none" \notin JitFiles
    BY DEF JitFiles
  <2>2. \A q \in Task : file'[q] \in JitFiles => file'[q] = file[q]
    BY <1>3, <2>1
  <2>3. QED
    BY <1>1, <1>4, <2>2 DEF JitFits
<1>10. WritesFit' /\ CompletionsAreCounted'
  <2>1. procs # {"complete"}
    BY <1>1, OneModule DEF WorkFiles, Timed, Prompt
  <2>2. QED
    BY <1>1, <1>4, <2>1 DEF WritesFit, CompletionsAreCounted
<1>11. WhoWaitsIsWoken'
  <2>1. \A q \in wqueue : file'[q] = file[q] /\ wpc'[q] = wpc[q] /\ q \in Task
    BY <1>3, <1>5
  <2>2. \A q \in wqueue : Holds(q)' => Holds(q)
    <3>1. flag' => flag
      OBVIOUS
    <3>2. QED
      BY <1>4, <2>1, <3>1 DEF Holds
  <2>3. QED
    BY <1>1, <1>4, <2>1, <2>2 DEF WhoWaitsIsWoken
<1>12. TimerHasAReader'
  <2>1. ASSUME ~twice, "timer" \in pending \/ active = "timer"
        PROVE  \E q \in Task : file'[q] = "jiqtimer" /\ wpc'[q] # "woken"
    <3>1. PICK q \in Task : file[q] = "jiqtimer" /\ wpc[q] # "woken"
      BY <1>1, <2>1 DEF TimerHasAReader
    <3>2. q # p
      BY <1>2, <3>1
    <3>3. QED
      BY <1>3, <3>1, <3>2
  <2>2. QED
    BY <1>4, <2>1 DEF TimerHasAReader
<1>13. AllLinesArePrinted'
  BY <1>1, <1>4 DEF AllLinesArePrinted
<1>14. QED
  BY <1>6, <1>7, <1>8, <1>9, <1>10, <1>11, <1>12, <1>13 DEF WaitersInv

(* A step of a call within its file that is not about the wait.            *)
LEMMA InsideStep ==
    ASSUME WaitersInv, NEW p \in Task, file[p] \in WorkFiles \cup {"jiqtimer", "jiqtasklet"},
           NEW to \in {"start", "test", "asleep", "sync", "woken"}, WGoes(p, wpc[p], to),
           wpc[p] \notin {"idle", "woken"},
           UNCHANGED <<procs, file, wakes, seq, jit>>, len' \in 0 .. Limit + 1, twice' \in BOOLEAN,
           wqueue' = wqueue \/ (wqueue' = wqueue \cup {p} /\ file[p] \in WorkFiles /\ to = "start"),
           p \in wqueue' => file[p] \in WorkFiles /\ to \in {"start", "asleep"},
           var' \in {var, FALSE},
           pending' \subseteq {"work", "timer", "tasklet"}, UNCHANGED active,
           ~twice' => ~twice,
           "timer" \in pending' => "timer" \in pending \/ (file[p] = "jiqtimer" /\ to = "test"),
           to = "woken" => "timer" \notin pending' /\ active = "none"
    PROVE  WaitersInv'
<1>1. /\ WaitersTypeOK /\ IdleHasNoFile /\ QueueFits /\ JitFits /\ WritesFit
      /\ WhoWaitsIsWoken /\ CompletionsAreCounted /\ TimerHasAReader /\ AllLinesArePrinted
  BY DEF WaitersInv
<1>2. Moves(p, file[p], to) /\ file[p] \in procs \cup {"none"}
  BY <1>1 DEF WGoes, Moves, WaitersTypeOK
<1>3. /\ procs' \in Modules /\ file' \in [Task -> procs' \cup {"none"}]
      /\ wpc' \in [Task -> {"idle", "setup", "print", "start", "test", "enqueue", "recheck",
                            "asleep", "woken", "after", "sync"}]
      /\ wpc'[p] = to /\ \A q \in Task \ {p} : wpc'[q] = wpc[q]
  BY <1>1, <1>2, MovesTypes
<1>4. UNCHANGED <<procs, file, flag, done, writes, waker, ends, seq, active, loops, out, jpc, short>>
  BY DEF wakes, jit
<1>5. WaitersTypeOK'
  <2>1. wqueue' \subseteq Task /\ var' \in BOOLEAN
    BY <1>1 DEF WaitersTypeOK
  <2>2. QED
    BY <1>1, <1>3, <1>4, <2>1 DEF WaitersTypeOK
<1>6. IdleHasNoFile'
  BY <1>1, <1>3, <1>4 DEF IdleHasNoFile
<1>7. QueueFits'
  <2>1. \A q \in wqueue' : q = p \/ (q \in wqueue /\ q \in Task /\ q # p)
    BY <1>1 DEF WaitersTypeOK
  <2>2. QED
    BY <1>1, <1>3, <1>4, <2>1 DEF QueueFits
<1>8. JitFits'
  BY <1>1, <1>4 DEF JitFits
<1>9. WritesFit' /\ CompletionsAreCounted'
  <2>1. procs # {"complete"}
    BY <1>1, OneModule DEF WorkFiles
  <2>2. QED
    BY <1>1, <1>4, <2>1 DEF WritesFit, CompletionsAreCounted
<1>10. WhoWaitsIsWoken'
  <2>1. \A q \in wqueue' : q = p \/ (q \in wqueue /\ q \in Task /\ q # p)
    BY <1>1 DEF WaitersTypeOK
  <2>2. p \in wqueue' => ~Holds(p)'
    BY <1>4 DEF Holds, WorkFiles, JitFiles
  <2>3. \A q \in Task : Holds(q)' => Holds(q)
    <3>1. var' => var
      OBVIOUS
    <3>2. QED
      BY <1>4, <3>1 DEF Holds
  <2>4. QED
    BY <1>1, <1>3, <1>4, <2>1, <2>2, <2>3 DEF WhoWaitsIsWoken
<1>11. TimerHasAReader'
  <2>1. ASSUME ~twice', "timer" \in pending' \/ active = "timer"
        PROVE  \E q \in Task : file[q] = "jiqtimer" /\ wpc'[q] # "woken"
    <3>1. CASE file[p] = "jiqtimer" /\ to = "test"
      BY <1>3, <3>1
    <3>2. CASE ~(file[p] = "jiqtimer" /\ to = "test")
      BY <1>1, <1>3, <2>1, <3>2 DEF TimerHasAReader
    <3>3. QED
      BY <3>1, <3>2
  <2>2. QED
    BY <1>4, <2>1 DEF TimerHasAReader
<1>12. AllLinesArePrinted'
  BY <1>1, <1>4 DEF AllLinesArePrinted
<1>13. QED
  BY <1>5, <1>6, <1>7, <1>8, <1>9, <1>10, <1>11, <1>12 DEF WaitersInv

(* A reader of the two work files is taken off the queue, or signalled.    *)
LEMMA WorkWaitStep ==
    ASSUME WaitersInv, NEW p \in Task, file[p] \in WorkFiles, Awake(p) \/ WSignal(p)
    PROVE  WaitersInv'
<1>1. /\ WaitersTypeOK /\ IdleHasNoFile /\ QueueFits /\ JitFits /\ WritesFit
      /\ WhoWaitsIsWoken /\ CompletionsAreCounted /\ TimerHasAReader /\ AllLinesArePrinted
  BY DEF WaitersInv
<1>2. /\ UNCHANGED <<procs, file, wakes, jiq, jit>> /\ wqueue' = wqueue \ {p}
      /\ Moves(p, file[p], "after") /\ file[p] \in procs \cup {"none"}
  <2>1. file' = file => file' = [file EXCEPT ![p] = file[p]]
    BY <1>1 DEF WaitersTypeOK
  <2>2. CASE Awake(p)
    BY <1>1, <2>1, <2>2 DEF Awake, Moves, WaitersTypeOK
  <2>3. CASE WSignal(p)
    BY <1>1, <2>1, <2>3 DEF WSignal, Moves, WaitersTypeOK
  <2>4. QED
    BY <2>2, <2>3
<1>3. /\ procs' \in Modules /\ file' \in [Task -> procs' \cup {"none"}]
      /\ wpc' \in [Task -> {"idle", "setup", "print", "start", "test", "enqueue", "recheck",
                            "asleep", "woken", "after", "sync"}]
      /\ wpc'[p] = "after" /\ \A q \in Task \ {p} : wpc'[q] = wpc[q]
  BY <1>1, <1>2, MovesTypes
<1>4. WaitersTypeOK'
  BY <1>1, <1>2, <1>3 DEF WaitersTypeOK, wakes, jiq, jit
<1>5. IdleHasNoFile' /\ QueueFits'
  BY <1>1, <1>2, <1>3 DEF IdleHasNoFile, QueueFits, WaitersTypeOK
<1>6. JitFits' /\ AllLinesArePrinted'
  BY <1>1, <1>2 DEF JitFits, AllLinesArePrinted, jit
<1>7. WritesFit' /\ CompletionsAreCounted'
  <2>1. procs # {"complete"}
    BY <1>1, OneModule DEF WorkFiles
  <2>2. QED
    BY <1>1, <1>2, <2>1 DEF WritesFit, CompletionsAreCounted, wakes
<1>8. WhoWaitsIsWoken'
  <2>1. \A q \in wqueue' : q \in wqueue /\ q \in Task /\ q # p
    BY <1>1, <1>2 DEF WaitersTypeOK
  <2>2. QED
    BY <1>1, <1>2, <1>3, <2>1 DEF WhoWaitsIsWoken, Holds, wakes, jiq, jit
<1>9. TimerHasAReader'
  BY <1>1, <1>2, <1>3 DEF TimerHasAReader, jiq
<1>10. QED
  BY <1>4, <1>5, <1>6, <1>7, <1>8, <1>9 DEF WaitersInv

LEMMA LineFits ==
    ASSUME WaitersTypeOK, jiq_print
    PROVE  len' \in 0 .. Limit + 1
  BY WaitersAssumption DEF WaitersTypeOK, jiq_print

LEMMA SleepyReadStep ==
    ASSUME WaitersInv, NEW p \in Task, sleepy_read(p)
    PROVE  WaitersInv'
<1>1. WaitersTypeOK
  BY DEF WaitersInv
<1>2. CASE Call(p, "sleepy", "test") /\ UNCHANGED <<procs, wakes, jiq, jit>>
  <2>1. /\ "sleepy" \in WorkFiles \cup Timed \cup Prompt
                          \cup {"sleepy", "complete", "jiqtimer", "jiqtasklet"}
        /\ UNCHANGED <<procs, wakes, var, pending, active, twice, jit>>
        /\ len' \in 0 .. Limit + 1 /\ seq' \in Task \cup {NoTask}
    BY <1>1, <1>2 DEF WaitersTypeOK, jiq
  <2>2. QED
    BY <1>2, <2>1, CallStep
<1>3. CASE file[p] = "sleepy" /\ WaitEvent(p)
  BY <1>3, WaitEventStep DEF Queued
<1>4. CASE /\ file[p] = "sleepy" /\ WReturn(p, "after") /\ flag' = FALSE
           /\ UNCHANGED <<procs, done, writes, waker, ends, jiq, jit>>
  <2>1. UNCHANGED <<len, var, pending, active, twice, jit>> /\ seq' \in Task \cup {NoTask}
    BY <1>1, <1>4 DEF WaitersTypeOK, jiq
  <2>2. QED
    BY <1>4, <2>1, ReturnStep
<1>5. QED
  BY <1>2, <1>3, <1>4 DEF sleepy_read

LEMMA WorkReadStep ==
    ASSUME WaitersInv, NEW p \in Task, NEW f \in WorkFiles, ReadWq(p, f)
    PROVE  WaitersInv'
<1>1. WaitersTypeOK /\ QueueFits
  BY DEF WaitersInv
<1>2. CASE JiqCall(p, f, "setup")
  <2>1. /\ Call(p, f, "setup") /\ UNCHANGED <<procs, wakes, var, pending, active, twice, jit>>
        /\ len' \in 0 .. Limit + 1 /\ seq' \in Task \cup {NoTask} /\ f # "complete"
    BY <1>1, <1>2, WaitersAssumption DEF JiqCall, WorkFiles
  <2>2. QED
    BY <2>1, CallStep
<1>3. CASE /\ file[p] = f /\ WGoes(p, "setup", "start") /\ wqueue' = wqueue \cup {p}
           /\ UNCHANGED <<procs, file, wakes, jiq, jit>>
  <2>1. /\ WGoes(p, wpc[p], "start") /\ wpc[p] \notin {"idle", "woken"}
        /\ UNCHANGED <<seq, active, var>> /\ len' \in 0 .. Limit + 1 /\ twice' \in BOOLEAN
        /\ pending' \subseteq {"work", "timer", "tasklet"} /\ pending' = pending
        /\ ~twice' => ~twice
    BY <1>1, <1>3 DEF WGoes, WaitersTypeOK, jiq
  <2>2. QED
    BY <1>3, <2>1, InsideStep
<1>4. CASE /\ file[p] = f /\ WGoes(p, "start", "asleep") /\ pending' = pending \cup {"work"}
           /\ UNCHANGED <<procs, file, wqueue, wakes, len, seq, var, active, twice, jit>>
  <2>1. /\ WGoes(p, wpc[p], "asleep") /\ wpc[p] \notin {"idle", "woken"}
        /\ len' \in 0 .. Limit + 1 /\ twice' \in BOOLEAN
        /\ pending' \subseteq {"work", "timer", "tasklet"}
        /\ ~twice' => ~twice
        /\ "timer" \in pending' => "timer" \in pending
    BY <1>1, <1>4 DEF WGoes, WaitersTypeOK
  <2>2. QED
    BY <1>4, <2>1, InsideStep
<1>5. CASE file[p] = f /\ (Awake(p) \/ WSignal(p))
  BY <1>5, WorkWaitStep
<1>6. CASE file[p] = f /\ JiqReturn(p, "after") /\ UNCHANGED var
  <2>1. /\ WReturn(p, "after") /\ UNCHANGED <<procs, done, writes, waker, ends, flag>>
        /\ UNCHANGED <<len, var, pending, active, twice, jit>> /\ seq' \in Task \cup {NoTask}
        /\ f # "jiqtimer"
    BY <1>1, <1>6 DEF JiqReturn, WaitersTypeOK, wakes, WorkFiles
  <2>2. QED
    BY <1>6, <2>1, ReturnStep
<1>7. QED
  BY <1>2, <1>3, <1>4, <1>5, <1>6 DEF ReadWq

LEMMA TimerReadStep ==
    ASSUME WaitersInv, NEW p \in Task, jiq_read_run_timer(p)
    PROVE  WaitersInv'
<1>1. WaitersTypeOK /\ QueueFits
  BY DEF WaitersInv
<1>2. CASE JiqCall(p, "jiqtimer", "print")
  <2>1. /\ Call(p, "jiqtimer", "print")
        /\ UNCHANGED <<procs, wakes, var, pending, active, twice, jit>>
        /\ len' \in 0 .. Limit + 1 /\ seq' \in Task \cup {NoTask}
        /\ "jiqtimer" \in WorkFiles \cup Timed \cup Prompt
                            \cup {"sleepy", "complete", "jiqtimer", "jiqtasklet"}
    BY <1>1, <1>2, WaitersAssumption DEF JiqCall
  <2>2. QED
    BY <2>1, CallStep
<1>3. CASE file[p] = "jiqtimer" /\ WaitEvent(p)
  BY <1>3, WaitEventStep DEF Queued
<1>4. CASE file[p] = "jiqtimer" /\ JiqReturn(p, "woken") /\ UNCHANGED var
  <2>1. /\ WReturn(p, "woken") /\ UNCHANGED <<procs, done, writes, waker, ends, flag>>
        /\ UNCHANGED <<len, var, pending, active, twice, jit>> /\ seq' \in Task \cup {NoTask}
    BY <1>1, <1>4 DEF JiqReturn, WaitersTypeOK, wakes
  <2>2. QED
    BY <1>4, <2>1, ReturnStep
<1>5. ASSUME file[p] = "jiqtimer", wpc[p] \notin {"recheck", "asleep"}
      PROVE  p \notin wqueue
  BY <1>1, <1>5 DEF QueueFits, WorkFiles
<1>6. CASE /\ file[p] = "jiqtimer" /\ WGoes(p, "print", "start") /\ jiq_print
           /\ twice' = (twice \/ "timer" \in pending)
           /\ UNCHANGED <<procs, file, wqueue, wakes, seq, var, pending, active, jit>>
  <2>1. /\ WGoes(p, wpc[p], "start") /\ wpc[p] \notin {"idle", "woken"} /\ p \notin wqueue'
        /\ pending' \subseteq {"work", "timer", "tasklet"} /\ len' \in 0 .. Limit + 1
    BY <1>1, <1>5, <1>6, LineFits DEF WGoes, WaitersTypeOK
  <2>2. twice' \in BOOLEAN /\ (~twice' => ~twice)
    BY <1>6
  <2>3. QED
    BY <1>6, <2>1, <2>2, InsideStep
<1>7. CASE /\ file[p] = "jiqtimer" /\ WGoes(p, "start", "test") /\ pending' = pending \cup {"timer"}
           /\ UNCHANGED <<procs, file, wqueue, wakes, len, seq, var, active, twice, jit>>
  <2>1. /\ WGoes(p, wpc[p], "test") /\ wpc[p] \notin {"idle", "woken"} /\ p \notin wqueue'
        /\ pending' \subseteq {"work", "timer", "tasklet"} /\ len' \in 0 .. Limit + 1
        /\ twice' \in BOOLEAN /\ (~twice' => ~twice)
    BY <1>1, <1>5, <1>7 DEF WGoes, WaitersTypeOK
  <2>2. QED
    BY <1>7, <2>1, InsideStep
<1>8. CASE /\ file[p] = "jiqtimer" /\ WGoes(p, "after", "sync") /\ var' = FALSE
           /\ UNCHANGED <<procs, file, wqueue, wakes, len, seq, pending, active, twice, jit>>
  <2>1. /\ WGoes(p, wpc[p], "sync") /\ wpc[p] \notin {"idle", "woken"} /\ p \notin wqueue'
        /\ pending' \subseteq {"work", "timer", "tasklet"} /\ len' \in 0 .. Limit + 1
        /\ twice' \in BOOLEAN /\ (~twice' => ~twice)
    BY <1>1, <1>5, <1>8 DEF WGoes, WaitersTypeOK
  <2>2. QED
    BY <1>8, <2>1, InsideStep
<1>9. CASE file[p] = "jiqtimer" /\ DeleteTimerSync(p)
  <2>1. /\ WGoes(p, wpc[p], "woken") /\ wpc[p] \notin {"idle", "woken"} /\ p \notin wqueue'
        /\ pending' \subseteq {"work", "timer", "tasklet"} /\ len' \in 0 .. Limit + 1
        /\ twice' \in BOOLEAN /\ (~twice' => ~twice) /\ "timer" \notin pending' /\ active = "none"
        /\ UNCHANGED <<procs, file, wqueue, wakes, len, seq, var, active, twice, jit>>
    BY <1>1, <1>5, <1>9 DEF DeleteTimerSync, WGoes, WaitersTypeOK
  <2>2. QED
    BY <1>9, <2>1, InsideStep
<1>10. QED
  BY <1>2, <1>3, <1>4, <1>6, <1>7, <1>8, <1>9 DEF jiq_read_run_timer

LEMMA TaskletReadStep ==
    ASSUME WaitersInv, NEW p \in Task, jiq_read_tasklet(p)
    PROVE  WaitersInv'
<1>1. WaitersTypeOK /\ QueueFits
  BY DEF WaitersInv
<1>2. CASE JiqCall(p, "jiqtasklet", "start")
  <2>1. /\ Call(p, "jiqtasklet", "start")
        /\ UNCHANGED <<procs, wakes, var, pending, active, twice, jit>>
        /\ len' \in 0 .. Limit + 1 /\ seq' \in Task \cup {NoTask}
        /\ "jiqtasklet" \in WorkFiles \cup Timed \cup Prompt
                              \cup {"sleepy", "complete", "jiqtimer", "jiqtasklet"}
    BY <1>1, <1>2, WaitersAssumption DEF JiqCall
  <2>2. QED
    BY <2>1, CallStep
<1>3. CASE file[p] = "jiqtasklet" /\ WaitEvent(p)
  BY <1>3, WaitEventStep DEF Queued
<1>4. CASE file[p] = "jiqtasklet" /\ JiqReturn(p, "after") /\ UNCHANGED var
  <2>1. /\ WReturn(p, "after") /\ UNCHANGED <<procs, done, writes, waker, ends, flag>>
        /\ UNCHANGED <<len, var, pending, active, twice, jit>> /\ seq' \in Task \cup {NoTask}
    BY <1>1, <1>4 DEF JiqReturn, WaitersTypeOK, wakes
  <2>2. QED
    BY <1>4, <2>1, ReturnStep
<1>5. CASE /\ file[p] = "jiqtasklet" /\ WGoes(p, "start", "test")
           /\ pending' = pending \cup {"tasklet"}
           /\ UNCHANGED <<procs, file, wqueue, wakes, len, seq, var, active, twice, jit>>
  <2>1. /\ WGoes(p, wpc[p], "test") /\ wpc[p] \notin {"idle", "woken"} /\ p \notin wqueue'
        /\ pending' \subseteq {"work", "timer", "tasklet"} /\ len' \in 0 .. Limit + 1
        /\ twice' \in BOOLEAN /\ (~twice' => ~twice)
        /\ "timer" \in pending' => "timer" \in pending
    BY <1>1, <1>5 DEF WGoes, WaitersTypeOK, QueueFits, WorkFiles
  <2>2. QED
    BY <1>5, <2>1, InsideStep
<1>6. QED
  BY <1>2, <1>3, <1>4, <1>5 DEF jiq_read_tasklet

(* The reads that do not sleep, and those that a timeout ends.             *)
LEMMA PlainReadStep ==
    ASSUME WaitersInv, NEW p \in Task,
           jit_fn(p) \/ jit_currentime(p) \/ my_seq_show(p) \/ faulty_read(p)
    PROVE  WaitersInv'
<1>1. WaitersTypeOK
  BY DEF WaitersInv
<1>2. /\ \/ \E f \in Timed : Call(p, f, "asleep")
         \/ \E f \in Prompt : Call(p, f, "after")
         \/ file[p] \in Timed /\ WReturn(p, "asleep")
         \/ file[p] \in Prompt /\ WReturn(p, "after")
      /\ UNCHANGED <<procs, wakes, jiq, jit>>
  BY DEF jit_fn, jit_currentime, my_seq_show, faulty_read, PromptRead, Prompt
<1>3. /\ UNCHANGED <<flag, done, writes, waker, ends, len, var, pending, active, twice>>
      /\ len' \in 0 .. Limit + 1 /\ seq' \in Task \cup {NoTask}
  BY <1>1, <1>2 DEF WaitersTypeOK, wakes, jiq
<1>4. "complete" \notin Timed \cup Prompt /\ "jiqtimer" \notin Timed \cup Prompt
  BY DEF Timed, Prompt
<1>5. CASE \E f \in Timed : Call(p, f, "asleep")
  <2>1. PICK f \in Timed : Call(p, f, "asleep")
    BY <1>5
  <2>2. QED
    BY <1>2, <1>3, <1>4, <2>1, CallStep
<1>6. CASE \E f \in Prompt : Call(p, f, "after")
  <2>1. PICK f \in Prompt : Call(p, f, "after")
    BY <1>6
  <2>2. QED
    BY <1>2, <1>3, <1>4, <2>1, CallStep
<1>7. CASE file[p] \in Timed /\ WReturn(p, "asleep")
  BY <1>2, <1>3, <1>4, <1>7, ReturnStep
<1>8. CASE file[p] \in Prompt /\ WReturn(p, "after")
  BY <1>2, <1>3, <1>4, <1>8, ReturnStep
<1>9. QED
  BY <1>2, <1>5, <1>6, <1>7, <1>8

-----------------------------------------------------------------------------
(* What moves no process and starts or ends no jit call.                   *)
LEMMA ElsewhereStep ==
    ASSUME WaitersInv, WaitersTypeOK', UNCHANGED <<procs, file, wpc, jit>>,
           UNCHANGED <<done, ends>>, waker' <= writes',
           procs = {"complete"} => UNCHANGED writes,
           wqueue' \subseteq wqueue, WhoWaitsIsWoken', TimerHasAReader'
    PROVE  WaitersInv'
<1>1. /\ WaitersTypeOK /\ IdleHasNoFile /\ QueueFits /\ JitFits /\ WritesFit
      /\ WhoWaitsIsWoken /\ CompletionsAreCounted /\ TimerHasAReader /\ AllLinesArePrinted
  BY DEF WaitersInv
<1>2. IdleHasNoFile' /\ QueueFits' /\ JitFits' /\ AllLinesArePrinted'
  BY <1>1 DEF IdleHasNoFile, QueueFits, JitFits, AllLinesArePrinted, jit
<1>3. WritesFit' /\ CompletionsAreCounted'
  BY <1>1 DEF WritesFit, CompletionsAreCounted, After
<1>4. QED
  BY <1>1, <1>2, <1>3 DEF WaitersInv

LEMMA SleepyWriteStep ==
    ASSUME WaitersInv, sleepy_write
    PROVE  WaitersInv'
<1>1. /\ WaitersTypeOK /\ WritesFit /\ WhoWaitsIsWoken /\ TimerHasAReader
      /\ MaxWrites \in Nat
  BY WaitersAssumption DEF WaitersInv
<1>2. TimerHasAReader'
  BY <1>1 DEF sleepy_write, TimerHasAReader, jiq, reads
<1>3. CASE /\ procs = {"sleepy"} /\ writes < MaxWrites
           /\ flag' = TRUE /\ writes' = writes + 1 /\ waker' = waker + 1
           /\ UNCHANGED <<procs, reads, done, ends, jiq, jit>>
  <2>1. /\ waker' \in 0 .. MaxWrites /\ writes' \in 0 .. MaxWrites /\ waker' <= writes'
        /\ waker' > 0
    BY <1>1, <1>3 DEF WaitersTypeOK, WritesFit
  <2>2. WaitersTypeOK'
    BY <1>1, <1>3, <2>1 DEF WaitersTypeOK, reads, jiq, jit
  <2>3. WhoWaitsIsWoken'
    BY <1>1, <1>3, <2>1 DEF WhoWaitsIsWoken, Holds, reads, jiq, jit
  <2>4. UNCHANGED <<procs, file, wpc, jit, done, ends>> /\ wqueue' \subseteq wqueue
        /\ procs # {"complete"}
    BY <1>3 DEF reads
  <2>5. QED
    BY <1>2, <2>1, <2>2, <2>3, <2>4, ElsewhereStep
<1>4. CASE /\ waker > 0 /\ waker' = waker - 1 /\ wqueue' = {}
           /\ UNCHANGED <<procs, file, wpc, flag, done, writes, ends, jiq, jit>>
  <2>1. waker' \in 0 .. MaxWrites /\ waker' <= writes'
    BY <1>1, <1>4 DEF WaitersTypeOK, WritesFit
  <2>2. WaitersTypeOK'
    BY <1>1, <1>4, <2>1 DEF WaitersTypeOK, jiq, jit
  <2>3. WhoWaitsIsWoken'
    BY <1>4 DEF WhoWaitsIsWoken
  <2>4. QED
    BY <1>2, <1>4, <2>1, <2>2, <2>3, ElsewhereStep
<1>5. QED
  BY <1>3, <1>4 DEF sleepy_write

(* The bottom half, the timer and the tasklet of jiq.c.                    *)
LEMMA JiqStep ==
    ASSUME WaitersInv, jiq_print_wq \/ jiq_print_tasklet \/ jiq_timeout
    PROVE  WaitersInv'
<1>1. /\ WaitersTypeOK /\ WritesFit /\ WhoWaitsIsWoken /\ TimerHasAReader /\ QueueFits
  BY DEF WaitersInv
<1>2. CASE jiq_print_wq \/ jiq_print_tasklet
  <2>1. len' \in 0 .. Limit + 1
    BY <1>1, <1>2, LineFits DEF jiq_print_wq, jiq_print_tasklet
  <2>2. /\ UNCHANGED <<procs, reads, wakes, seq, var, active, twice, jit>>
        /\ pending' \subseteq pending
    BY <1>2 DEF jiq_print_wq, jiq_print_tasklet
  <2>3. WaitersTypeOK'
    BY <1>1, <2>1, <2>2 DEF WaitersTypeOK, reads, wakes, jit
  <2>4. WhoWaitsIsWoken'
    BY <1>1, <2>2 DEF WhoWaitsIsWoken, Holds, reads, wakes, jit
  <2>5. TimerHasAReader'
    BY <1>1, <2>2 DEF TimerHasAReader, reads
  <2>6. QED
    BY <1>1, <2>2, <2>3, <2>4, <2>5, ElsewhereStep DEF reads, wakes, WritesFit
<1>3. CASE /\ "timer" \in pending /\ active = "none" /\ jiq_print
           /\ pending' = pending \ {"timer"} /\ active' = "timer" /\ var' = TRUE
           /\ UNCHANGED <<procs, reads, wakes, seq, twice, jit>>
  <2>1. len' \in 0 .. Limit + 1
    BY <1>1, <1>3, LineFits
  <2>2. WaitersTypeOK'
    BY <1>1, <1>3, <2>1 DEF WaitersTypeOK, reads, wakes, jit
  <2>3. WhoWaitsIsWoken'
    BY <1>1, <1>3 DEF WhoWaitsIsWoken, Holds, reads, wakes, jit
  <2>4. TimerHasAReader'
    BY <1>1, <1>3 DEF TimerHasAReader, reads
  <2>5. QED
    BY <1>1, <1>3, <2>2, <2>3, <2>4, ElsewhereStep DEF reads, wakes, WritesFit
<1>4. CASE /\ active = "timer" /\ active' = "none"
           /\ wqueue' = {q \in wqueue : file[q] \notin JiqFiles}
           /\ UNCHANGED <<procs, file, wpc, wakes, len, seq, var, pending, twice, jit>>
  <2>1. wqueue' \subseteq wqueue
    BY <1>4
  <2>2. WaitersTypeOK'
    BY <1>1, <1>4, <2>1 DEF WaitersTypeOK, wakes, jit
  <2>3. \A q \in wqueue' : file[q] # "jiqtimer"
    BY <1>4 DEF JiqFiles
  <2>4. WhoWaitsIsWoken'
    BY <1>1, <1>4, <2>1, <2>3 DEF WhoWaitsIsWoken, Holds, wakes, jit
  <2>5. TimerHasAReader'
    BY <1>1, <1>4 DEF TimerHasAReader
  <2>6. QED
    BY <1>1, <1>4, <2>1, <2>2, <2>4, <2>5, ElsewhereStep DEF wakes, WritesFit
<1>5. QED
  BY <1>2, <1>3, <1>4 DEF jiq_timeout

-----------------------------------------------------------------------------
(* The completion: a read that was let go leaves one less to take, and one *)
(* that ends one less on its way out.                                      *)
LEMMA CompleteReadStep ==
    ASSUME WaitersInv, NEW p \in Task, complete_read(p)
    PROVE  WaitersInv'
<1>1. /\ WaitersTypeOK /\ IdleHasNoFile /\ QueueFits /\ JitFits /\ WritesFit
      /\ WhoWaitsIsWoken /\ CompletionsAreCounted /\ TimerHasAReader /\ AllLinesArePrinted
  BY DEF WaitersInv
<1>2. CASE Call(p, "complete", "test") /\ UNCHANGED <<procs, wakes, jiq, jit>>
  <2>1. /\ UNCHANGED <<procs, wakes, var, pending, active, twice, jit>>
        /\ len' \in 0 .. Limit + 1 /\ seq' \in Task \cup {NoTask}
        /\ "complete" \in WorkFiles \cup Timed \cup Prompt
                            \cup {"sleepy", "complete", "jiqtimer", "jiqtasklet"}
    BY <1>1, <1>2 DEF WaitersTypeOK, jiq
  <2>2. QED
    BY <1>2, <2>1, CallStep
<1> DEFINE took == /\ wpc[p] \in {"test", "asleep"} /\ done > 0 /\ done' = done - 1
                   /\ Moves(p, file[p], "after") /\ UNCHANGED ends
           slept == /\ wpc[p] = "test" /\ Moves(p, file[p], "asleep") /\ UNCHANGED <<done, ends>>
           ended == /\ wpc[p] = "after" /\ Moves(p, "none", "idle") /\ UNCHANGED done
                    /\ ends' = ends + 1
<1>3. ASSUME file[p] = "complete", took \/ slept \/ ended,
             UNCHANGED <<wqueue, flag, writes, waker, jiq, jit>>
      PROVE  WaitersInv'
  <2>1. procs = {"complete"} /\ UNCHANGED procs
    BY <1>1, <1>3, OneModule DEF Moves
  <2>2. /\ done \in Nat /\ ends \in Nat /\ writes \in 0 .. MaxWrites /\ IsFiniteSet(After)
        /\ writes = done + ends + Cardinality(After) /\ Cardinality(After) \in Nat
        /\ MaxWrites \in Nat
    BY <1>1, <2>1, FS_CardinalityType, WaitersAssumption
       DEF WaitersTypeOK, WritesFit, CompletionsAreCounted, After
  <2>3. PICK f \in {"complete", "none"}, to \in {"after", "asleep", "idle"} : Moves(p, f, to)
                /\ (to = "idle" => f = "none") /\ (f = "none" => to = "idle")
    BY <1>3
  <2>4. /\ procs' \in Modules /\ file' \in [Task -> procs' \cup {"none"}]
        /\ wpc' \in [Task -> {"idle", "setup", "print", "start", "test", "enqueue", "recheck",
                              "asleep", "woken", "after", "sync"}]
        /\ file'[p] = f /\ wpc'[p] = to
        /\ \A q \in Task \ {p} : file'[q] = file[q] /\ wpc'[q] = wpc[q]
    <3>1. f \in procs \cup {"none"}
      BY <2>1, <2>3
    <3>2. QED
      BY <1>1, <2>3, <3>1, MovesTypes
  <2>5. /\ IsFiniteSet(After)' /\ Cardinality(After)' \in Nat
        /\ writes' = done' + ends' + Cardinality(After)' /\ done' \in Nat /\ ends' \in Nat
    <3>1. CASE took
      <4>1. After' = After \cup {p} /\ p \notin After
        BY <2>4, <3>1 DEF After, Moves, WaitersTypeOK
      <4>2. IsFiniteSet(After') /\ Cardinality(After') = Cardinality(After) + 1
        BY <2>2, <4>1, FS_AddElement
      <4>3. QED
        BY <1>3, <2>2, <3>1, <4>2
    <3>2. CASE slept
      <4>1. After' = After
        BY <2>4, <3>2 DEF After, Moves
      <4>2. QED
        BY <1>3, <2>2, <3>2, <4>1
    <3>3. CASE ended
      <4>1. After' = After \ {p} /\ p \in After
        BY <2>4, <3>3 DEF After, Moves
      <4>2. IsFiniteSet(After') /\ Cardinality(After') = Cardinality(After) - 1
        BY <2>2, <4>1, FS_RemoveElement
      <4>3. Cardinality(After') \in Nat
        BY <4>2, FS_CardinalityType
      <4>4. QED
        BY <1>3, <2>2, <3>3, <4>2, <4>3
    <3>4. QED
      BY <1>3, <3>1, <3>2, <3>3
  <2>6. done' \in 0 .. MaxWrites /\ ends' \in 0 .. MaxWrites
    BY <1>3, <2>2, <2>5
  <2>7. WaitersTypeOK'
    BY <1>1, <1>3, <2>4, <2>6 DEF WaitersTypeOK, jiq, jit
  <2>8. WritesFit' /\ CompletionsAreCounted'
    BY <1>1, <1>3, <2>1, <2>5 DEF WritesFit, CompletionsAreCounted, After
  <2>9. \A q \in Task : file'[q] # "none" => file'[q] = file[q]
    BY <1>3, <2>4
  <2>10. p \notin wqueue /\ wqueue \subseteq Task
    BY <1>1, <1>3 DEF QueueFits, WorkFiles, JitFiles, WaitersTypeOK
  <2>11. IdleHasNoFile' /\ QueueFits'
    BY <1>1, <1>3, <2>3, <2>4, <2>10 DEF IdleHasNoFile, QueueFits
  <2>12. JitFits' /\ AllLinesArePrinted'
    <3>1. "none" \notin JitFiles
      BY DEF JitFiles
    <3>2. \A q \in Task : file'[q] \in JitFiles => file[q] \in JitFiles
      BY <2>9, <3>1
    <3>3. QED
      BY <1>1, <1>3, <3>2 DEF JitFits, AllLinesArePrinted, jit
  <2>13. WhoWaitsIsWoken'
    <3>1. \A q \in wqueue : file'[q] = file[q] /\ wpc'[q] = wpc[q] /\ q \in Task
                            /\ file[q] # "complete"
      BY <1>1, <2>4, <2>10 DEF QueueFits, WorkFiles, JitFiles
    <3>2. QED
      BY <1>1, <1>3, <3>1 DEF WhoWaitsIsWoken, Holds, jiq, jit
  <2>14. TimerHasAReader'
    <3>1. \A q \in Task : file[q] = "jiqtimer" => q # p
      BY <1>3
    <3>2. QED
      BY <1>1, <1>3, <2>4, <3>1 DEF TimerHasAReader, jiq
  <2>15. QED
    BY <2>7, <2>8, <2>11, <2>12, <2>13, <2>14 DEF WaitersInv
<1>4. CASE file[p] = "complete" /\ (Take(p) \/ Sleep(p))
  <2>1. file' = file => file' = [file EXCEPT ![p] = file[p]]
    BY <1>1 DEF WaitersTypeOK
  <2>2. Take(p) => took /\ UNCHANGED <<wqueue, flag, writes, waker, jiq, jit>>
    BY <2>1 DEF Take, Moves
  <2>3. Sleep(p) => slept /\ UNCHANGED <<wqueue, flag, writes, waker, jiq, jit>>
    BY <2>1 DEF Sleep, WGoes, Moves, wakes
  <2>4. QED
    BY <1>3, <1>4, <2>2, <2>3
<1>5. CASE /\ file[p] = "complete" /\ WReturn(p, "after") /\ ends' = ends + 1
           /\ UNCHANGED <<procs, flag, done, writes, waker, jiq, jit>>
  <2>1. ended /\ UNCHANGED <<wqueue, flag, writes, waker, jiq, jit>>
    BY <1>5 DEF WReturn, Moves
  <2>2. QED
    BY <1>3, <1>5, <2>1
<1>6. QED
  BY <1>2, <1>4, <1>5 DEF complete_read

LEMMA CompleteWriteStep ==
    ASSUME WaitersInv, complete_write
    PROVE  WaitersInv'
<1>1. /\ WaitersTypeOK /\ IdleHasNoFile /\ QueueFits /\ JitFits /\ WritesFit
      /\ WhoWaitsIsWoken /\ CompletionsAreCounted /\ TimerHasAReader /\ AllLinesArePrinted
  BY DEF WaitersInv
<1>2. /\ procs = {"complete"} /\ writes < MaxWrites /\ done' = done + 1 /\ writes' = writes + 1
      /\ UNCHANGED <<procs, file, wpc, wqueue, flag, waker, ends, jiq, jit>>
  BY DEF complete_write, reads
<1>3. /\ done \in Nat /\ ends \in Nat /\ writes \in 0 .. MaxWrites /\ IsFiniteSet(After)
      /\ writes = done + ends + Cardinality(After) /\ Cardinality(After) \in Nat
      /\ MaxWrites \in Nat /\ waker \in Nat /\ waker <= writes
  BY <1>1, <1>2, FS_CardinalityType, WaitersAssumption
     DEF WaitersTypeOK, WritesFit, CompletionsAreCounted, After
<1>4. done' \in 0 .. MaxWrites /\ writes' \in 0 .. MaxWrites
  BY <1>2, <1>3
<1>5. WaitersTypeOK'
  BY <1>1, <1>2, <1>4 DEF WaitersTypeOK, jiq, jit
<1>6. WritesFit' /\ CompletionsAreCounted'
  <2>1. After' = After
    BY <1>2 DEF After
  <2>2. writes' = done' + ends' + Cardinality(After') /\ waker' <= writes'
    BY <1>2, <1>3, <2>1
  <2>3. QED
    BY <1>2, <1>3, <2>1, <2>2 DEF WritesFit, CompletionsAreCounted, After
<1>7. IdleHasNoFile' /\ QueueFits' /\ JitFits' /\ TimerHasAReader' /\ AllLinesArePrinted'
  BY <1>1, <1>2 DEF IdleHasNoFile, QueueFits, JitFits, TimerHasAReader, AllLinesArePrinted, jiq, jit
<1>8. WhoWaitsIsWoken'
  <2>1. \A q \in wqueue : file[q] # "complete"
    BY <1>1 DEF QueueFits, WorkFiles, JitFiles
  <2>2. QED
    BY <1>1, <1>2, <2>1 DEF WhoWaitsIsWoken, Holds, jiq, jit
<1>9. QED
  BY <1>5, <1>6, <1>7, <1>8 DEF WaitersInv

-----------------------------------------------------------------------------
(* The timer and the tasklet of a jit call.                                *)
LEMMA JitFnStep ==
    ASSUME WaitersInv, NEW p \in Task, jit_timer_fn(p)
    PROVE  WaitersInv'
<1>1. /\ WaitersTypeOK /\ IdleHasNoFile /\ QueueFits /\ JitFits /\ WritesFit
      /\ WhoWaitsIsWoken /\ CompletionsAreCounted /\ TimerHasAReader /\ AllLinesArePrinted
      /\ JIT_ASYNC_LOOPS \in Nat \ {0}
  BY WaitersAssumption DEF WaitersInv
<1>2. /\ UNCHANGED <<procs, file, wpc, wakes, jiq, short>> /\ wqueue' \subseteq wqueue
      /\ wqueue \subseteq Task
  BY <1>1 DEF jit_timer_fn, PrintAndCount, PrintLine, Count, WakeCaller, WaitersTypeOK
<1>3. /\ loops[p] \in 0 .. JIT_ASYNC_LOOPS /\ out[p] \in 0 .. JIT_ASYNC_LOOPS
      /\ jpc[p] \in {"off", "armed", "printed", "wake"}
      /\ jpc[p] \in {"armed", "printed"} <=> loops[p] > 0
      /\ jpc[p] = "armed"   => out[p] = JIT_ASYNC_LOOPS - loops[p]
      /\ jpc[p] = "printed" => out[p] = JIT_ASYNC_LOOPS - loops[p] + 1
      /\ jpc[p] = "wake"    => out[p] = JIT_ASYNC_LOOPS
  BY <1>1 DEF WaitersTypeOK, JitFits
<1> DEFINE R(l, o, j) ==
        /\ loops' = [loops EXCEPT ![p] = l] /\ out' = [out EXCEPT ![p] = o]
        /\ jpc' = [jpc EXCEPT ![p] = j]
        /\ j \in {"armed", "printed"} <=> l > 0
        /\ j = "armed"   => o = JIT_ASYNC_LOOPS - l
        /\ j = "printed" => o = JIT_ASYNC_LOOPS - l + 1
        /\ j \in {"wake", "off"} => o = JIT_ASYNC_LOOPS
        /\ p \in wqueue' => (l = 0 => j = "wake")
<1>4. PICK l \in 0 .. JIT_ASYNC_LOOPS, o \in 0 .. JIT_ASYNC_LOOPS,
           j \in {"off", "armed", "printed", "wake"} : R(l, o, j)
  <2>1. /\ loops = [loops EXCEPT ![p] = loops[p]] /\ out = [out EXCEPT ![p] = out[p]]
    BY <1>1 DEF WaitersTypeOK
  <2>2. CASE PrintLine(p)
    <3>1. out[p] + 1 \in 0 .. JIT_ASYNC_LOOPS
      BY <1>1, <1>3, <2>2 DEF PrintLine
    <3>2. R(loops[p], out[p] + 1, "printed")
      BY <1>1, <1>3, <2>1, <2>2, <3>1 DEF PrintLine
    <3>3. QED
      BY <1>3, <3>1, <3>2
  <2>3. CASE jpc[p] = "printed" /\ Count(p, IF loops[p] > 1 THEN "armed" ELSE "wake")
    <3>1. loops[p] - 1 \in 0 .. JIT_ASYNC_LOOPS
      BY <1>1, <1>3, <2>3
    <3>2. CASE loops[p] > 1
      <4>1. loops[p] - 1 > 0 /\ out[p] = JIT_ASYNC_LOOPS - (loops[p] - 1)
        BY <1>1, <1>3, <2>3, <3>2
      <4>2. /\ loops' = [loops EXCEPT ![p] = loops[p] - 1] /\ out' = [out EXCEPT ![p] = out[p]]
            /\ jpc' = [jpc EXCEPT ![p] = "armed"]
        BY <2>1, <2>3, <3>2 DEF Count
      <4>3. R(loops[p] - 1, out[p], "armed")
        BY <1>1, <3>1, <4>1, <4>2
      <4>4. QED
        BY <1>3, <3>1, <4>3
    <3>3. CASE ~(loops[p] > 1)
      <4>1. loops[p] - 1 = 0 /\ out[p] = JIT_ASYNC_LOOPS
        BY <1>1, <1>3, <2>3, <3>3
      <4>2. /\ loops' = [loops EXCEPT ![p] = loops[p] - 1] /\ out' = [out EXCEPT ![p] = out[p]]
            /\ jpc' = [jpc EXCEPT ![p] = "wake"]
        BY <2>1, <2>3, <3>3 DEF Count
      <4>3. R(loops[p] - 1, out[p], "wake")
        BY <1>1, <3>1, <4>1, <4>2
      <4>4. QED
        BY <1>3, <3>1, <4>3
    <3>4. QED
      BY <3>2, <3>3
  <2>4. CASE WakeCaller(p)
    <3>1. R(loops[p], out[p], "off")
      BY <1>1, <1>3, <2>1, <2>4 DEF WakeCaller
    <3>2. QED
      BY <1>3, <3>1
  <2>5. QED
    BY <2>2, <2>3, <2>4 DEF jit_timer_fn, PrintAndCount
<1>5. /\ loops' \in [Task -> 0 .. JIT_ASYNC_LOOPS] /\ out' \in [Task -> 0 .. JIT_ASYNC_LOOPS]
      /\ jpc' \in [Task -> {"off", "armed", "printed", "wake"}]
      /\ loops'[p] = l /\ out'[p] = o /\ jpc'[p] = j
      /\ \A q \in Task \ {p} : loops'[q] = loops[q] /\ out'[q] = out[q] /\ jpc'[q] = jpc[q]
  BY <1>1, <1>4 DEF WaitersTypeOK
<1>6. WaitersTypeOK'
  BY <1>1, <1>2, <1>5 DEF WaitersTypeOK, wakes, jiq
<1>7. IdleHasNoFile' /\ QueueFits' /\ TimerHasAReader' /\ AllLinesArePrinted'
  BY <1>1, <1>2 DEF IdleHasNoFile, QueueFits, TimerHasAReader, AllLinesArePrinted, jiq
<1>8. JitFits'
  <2>1. ASSUME NEW q \in Task
        PROVE  /\ jpc'[q] \in {"armed", "printed"} <=> loops'[q] > 0
               /\ jpc'[q] = "armed"   => out'[q] = JIT_ASYNC_LOOPS - loops'[q]
               /\ jpc'[q] = "printed" => out'[q] = JIT_ASYNC_LOOPS - loops'[q] + 1
               /\ jpc'[q] = "wake"    => out'[q] = JIT_ASYNC_LOOPS
               /\ jpc'[q] = "off"     => out'[q] = JIT_ASYNC_LOOPS \/ file[q] \notin JitFiles
    <3>1. CASE q = p
      BY <1>4, <1>5, <3>1
    <3>2. CASE q # p
      BY <1>1, <1>5, <3>2 DEF JitFits
    <3>3. QED
      BY <3>1, <3>2
  <2>2. QED
    BY <1>2, <2>1 DEF JitFits
<1>9. WritesFit' /\ CompletionsAreCounted'
  BY <1>1, <1>2 DEF WritesFit, CompletionsAreCounted, After, wakes
<1>10. WhoWaitsIsWoken'
  <2>1. ASSUME NEW q \in wqueue', wpc[q] = "asleep", Holds(q)'
        PROVE  CASE file[q] = "sleepy"   -> waker > 0
                 [] file[q] = "jiqtimer" -> active = "timer"
                 [] OTHER                -> jpc'[q] = "wake"
    <3>1. CASE q = p /\ file[q] \in JitFiles
      BY <1>2, <1>4, <1>5, <2>1, <3>1 DEF Holds, JitFiles
    <3>2. CASE q # p \/ file[q] \notin JitFiles
      <4>1. Holds(q)
        BY <1>2, <1>5, <2>1, <3>2 DEF Holds, wakes, jiq
      <4>2. file[q] \in JitFiles => q # p
        BY <3>2
      <4>3. q \in wqueue /\ q \in Task
        BY <1>2
      <4>4. file[q] \in {"sleepy", "jiqtimer"} \cup JitFiles
        BY <1>1, <4>1, <4>3, <2>1 DEF Holds, QueueFits, WorkFiles
      <4>5. QED
        BY <1>1, <1>5, <2>1, <4>1, <4>2, <4>3, <4>4 DEF WhoWaitsIsWoken, JitFiles
    <3>3. QED
      BY <3>1, <3>2
  <2>2. QED
    BY <1>2, <2>1 DEF WhoWaitsIsWoken, wakes, jiq
<1>11. QED
  BY <1>6, <1>7, <1>8, <1>9, <1>10 DEF WaitersInv

LEMMA JitReadStep ==
    ASSUME WaitersInv, NEW p \in Task, NEW f \in JitFiles, ReadAsync(p, f)
    PROVE  WaitersInv'
<1>1. /\ WaitersTypeOK /\ IdleHasNoFile /\ QueueFits /\ JitFits /\ WritesFit
      /\ WhoWaitsIsWoken /\ CompletionsAreCounted /\ TimerHasAReader /\ AllLinesArePrinted
      /\ JIT_ASYNC_LOOPS \in Nat \ {0}
  BY WaitersAssumption DEF WaitersInv
<1>2. CASE file[p] = f /\ WaitEvent(p)
  BY <1>2, WaitEventStep DEF Queued
<1>3. ASSUME NEW g \in JitFiles \cup {"none"}, NEW to \in {"test", "idle"}, Moves(p, g, to),
             g \in procs \cup {"none"}, g = "none" <=> to = "idle", UNCHANGED <<wakes, jiq, wqueue>>,
             file[p] \in JitFiles \cup {"none"}, wpc[p] \in {"idle", "after"},
             short' = FALSE, p \in Task, procs # {"complete"},
             NEW l \in 0 .. JIT_ASYNC_LOOPS, NEW o \in 0 .. JIT_ASYNC_LOOPS,
             NEW j \in {"off", "armed", "printed", "wake"},
             loops' = [loops EXCEPT ![p] = l], out' = [out EXCEPT ![p] = o],
             jpc' = [jpc EXCEPT ![p] = j],
             \/ j = "armed" /\ l = JIT_ASYNC_LOOPS /\ o = 0
             \/ g = "none" /\ l = loops[p] /\ o = out[p] /\ j = jpc[p]
      PROVE  WaitersInv'
  <2>1. /\ procs' \in Modules /\ file' \in [Task -> procs' \cup {"none"}]
        /\ wpc' \in [Task -> {"idle", "setup", "print", "start", "test", "enqueue", "recheck",
                              "asleep", "woken", "after", "sync"}]
        /\ file'[p] = g /\ wpc'[p] = to
        /\ \A q \in Task \ {p} : file'[q] = file[q] /\ wpc'[q] = wpc[q]
    BY <1>1, <1>3, MovesTypes
  <2>2. /\ loops' \in [Task -> 0 .. JIT_ASYNC_LOOPS] /\ out' \in [Task -> 0 .. JIT_ASYNC_LOOPS]
        /\ jpc' \in [Task -> {"off", "armed", "printed", "wake"}]
        /\ loops'[p] = l /\ out'[p] = o /\ jpc'[p] = j
        /\ \A q \in Task \ {p} : loops'[q] = loops[q] /\ out'[q] = out[q] /\ jpc'[q] = jpc[q]
    BY <1>1, <1>3 DEF WaitersTypeOK
  <2>3. p \notin wqueue /\ wqueue \subseteq Task /\ UNCHANGED procs /\ "none" \notin JitFiles
    BY <1>1, <1>3 DEF QueueFits, WaitersTypeOK, Moves, JitFiles
  <2>4. WaitersTypeOK'
    BY <1>1, <1>3, <2>1, <2>2 DEF WaitersTypeOK, wakes, jiq
  <2>5. IdleHasNoFile' /\ QueueFits'
    BY <1>1, <1>3, <2>1, <2>3 DEF IdleHasNoFile, QueueFits
  <2>6. JitFits'
    <3>1. ASSUME NEW q \in Task
          PROVE  /\ jpc'[q] \in {"armed", "printed"} <=> loops'[q] > 0
                 /\ jpc'[q] = "armed"   => out'[q] = JIT_ASYNC_LOOPS - loops'[q]
                 /\ jpc'[q] = "printed" => out'[q] = JIT_ASYNC_LOOPS - loops'[q] + 1
                 /\ jpc'[q] = "wake"    => out'[q] = JIT_ASYNC_LOOPS
                 /\ jpc'[q] = "off"     => out'[q] = JIT_ASYNC_LOOPS \/ file'[q] \notin JitFiles
      <4>1. CASE q = p
        BY <1>1, <1>3, <2>1, <2>2, <2>3, <4>1 DEF JitFits
      <4>2. CASE q # p
        BY <1>1, <2>1, <2>2, <4>2 DEF JitFits
      <4>3. QED
        BY <4>1, <4>2
    <3>2. QED
      BY <3>1 DEF JitFits
  <2>7. WritesFit' /\ CompletionsAreCounted' /\ AllLinesArePrinted'
    BY <1>1, <1>3, <2>3 DEF WritesFit, CompletionsAreCounted, AllLinesArePrinted, wakes
  <2>8. WhoWaitsIsWoken'
    <3>1. \A q \in wqueue : q \in Task /\ q # p
      BY <2>3
    <3>2. QED
      BY <1>1, <1>3, <2>1, <2>2, <3>1 DEF WhoWaitsIsWoken, Holds, wakes, jiq
  <2>9. TimerHasAReader'
    <3>1. \A q \in Task : file[q] = "jiqtimer" => q # p
      BY <1>3 DEF JitFiles
    <3>2. QED
      BY <1>1, <1>3, <2>1, <3>1 DEF TimerHasAReader, jiq
  <2>10. QED
    BY <2>4, <2>5, <2>6, <2>7, <2>8, <2>9 DEF WaitersInv
<1>4. CASE /\ jpc[p] = "off" /\ Call(p, f, "test")
           /\ loops' = [loops EXCEPT ![p] = JIT_ASYNC_LOOPS] /\ out' = [out EXCEPT ![p] = 0]
           /\ jpc' = [jpc EXCEPT ![p] = "armed"]
           /\ UNCHANGED <<procs, wakes, jiq, short>>
  <2>1. /\ Moves(p, f, "test") /\ f \in procs /\ file[p] = "none" /\ wpc[p] = "idle"
        /\ UNCHANGED wqueue
    BY <1>1, <1>4 DEF Call, Moves, IdleHasNoFile
  <2>2. f # "none" /\ procs # {"complete"} /\ short' = FALSE
    BY <1>1, <1>4, <2>1 DEF JitFiles, AllLinesArePrinted, WaitersTypeOK
  <2>3. JIT_ASYNC_LOOPS \in 0 .. JIT_ASYNC_LOOPS /\ 0 \in 0 .. JIT_ASYNC_LOOPS
    BY <1>1
  <2>4. QED
    BY <1>3, <1>4, <2>1, <2>2, <2>3
<1>5. CASE /\ file[p] = f
           /\ \E interrupted \in BOOLEAN :
                 /\ WReturn(p, "after") /\ (loops[p] > 0 => interrupted)
                 /\ short' = (short \/ (~interrupted /\ out[p] < JIT_ASYNC_LOOPS))
                 /\ UNCHANGED <<procs, wakes, jiq, loops, out, jpc>>
  <2>1. /\ Moves(p, "none", "idle") /\ wpc[p] = "after" /\ UNCHANGED <<wqueue, wakes, jiq>>
    BY <1>5 DEF WReturn, Moves
  <2>2. /\ loops' = [loops EXCEPT ![p] = loops[p]] /\ out' = [out EXCEPT ![p] = out[p]]
        /\ jpc' = [jpc EXCEPT ![p] = jpc[p]]
        /\ loops[p] \in 0 .. JIT_ASYNC_LOOPS /\ out[p] \in 0 .. JIT_ASYNC_LOOPS
        /\ jpc[p] \in {"off", "armed", "printed", "wake"}
    BY <1>1, <1>5 DEF WaitersTypeOK
  <2>3. procs # {"complete"}
    BY <1>1, <1>5, OneModule DEF JitFiles
  <2>4. ~short /\ short \in BOOLEAN
    BY <1>1 DEF AllLinesArePrinted, WaitersTypeOK
  <2>5. ~(loops[p] > 0) => out[p] = JIT_ASYNC_LOOPS
    BY <1>1, <1>5, <2>2 DEF JitFits
  <2>6. loops[p] > 0 \/ ~(out[p] < JIT_ASYNC_LOOPS)
    BY <1>1, <2>2, <2>5
  <2>7. short' = FALSE
    BY <1>5, <2>4, <2>6
  <2>8. QED
    BY <1>3, <1>5, <2>1, <2>2, <2>3, <2>7
<1>6. QED
  BY <1>2, <1>4, <1>5 DEF ReadAsync

LEMMA WaitersInvIsInductive == WaitersInv /\ [WaitersNext]_wvars => WaitersInv'
<1> SUFFICES ASSUME WaitersInv, [WaitersNext]_wvars
             PROVE  WaitersInv'
  OBVIOUS
<1>1. ASSUME NEW p \in Task,
             \/ sleepy_read(p) \/ complete_read(p)
             \/ jiq_read_wq(p) \/ jiq_read_wq_delayed(p) \/ jiq_read_run_timer(p)
             \/ jiq_read_tasklet(p)
             \/ jit_timer(p) \/ jit_tasklet(p) \/ jit_fn(p) \/ jit_timer_fn(p)
             \/ jit_currentime(p) \/ my_seq_show(p) \/ faulty_read(p)
      PROVE  WaitersInv'
  <2>1. "jiqwq" \in WorkFiles /\ "jiqwqdelay" \in WorkFiles
        /\ "jitimer" \in JitFiles /\ "jitasklet" \in JitFiles
    BY DEF WorkFiles, JitFiles
  <2>2. CASE jiq_read_wq(p) \/ jiq_read_wq_delayed(p)
    BY <2>1, <2>2, WorkReadStep DEF jiq_read_wq, jiq_read_wq_delayed
  <2>3. CASE jit_timer(p) \/ jit_tasklet(p)
    BY <2>1, <2>3, JitReadStep DEF jit_timer, jit_tasklet
  <2>4. CASE sleepy_read(p) \/ complete_read(p)
    BY <2>4, SleepyReadStep, CompleteReadStep
  <2>5. CASE jiq_read_run_timer(p) \/ jiq_read_tasklet(p)
    BY <2>5, TimerReadStep, TaskletReadStep
  <2>6. CASE jit_timer_fn(p)
    BY <2>6, JitFnStep
  <2>7. CASE jit_fn(p) \/ jit_currentime(p) \/ my_seq_show(p) \/ faulty_read(p)
    BY <2>7, PlainReadStep
  <2>8. QED
    BY <1>1, <2>2, <2>3, <2>4, <2>5, <2>6, <2>7
<1>2. CASE sleepy_write \/ complete_write
  BY <1>2, SleepyWriteStep, CompleteWriteStep
<1>3. CASE jiq_print_wq \/ jiq_print_tasklet \/ jiq_timeout
  BY <1>3, JiqStep
<1>4. CASE UNCHANGED wvars
  <2>1. WaitersTypeOK' /\ WhoWaitsIsWoken' /\ TimerHasAReader'
    BY <1>4 DEF WaitersInv, WaitersTypeOK, WhoWaitsIsWoken, TimerHasAReader, Holds,
                wvars, reads, wakes, jiq, jit
  <2>2. QED
    BY <1>4, <2>1, ElsewhereStep DEF wvars, reads, wakes, WaitersInv, WritesFit
<1>5. QED
  BY <1>1, <1>2, <1>3, <1>4 DEF WaitersNext

LEMMA WaitersInvAtFirst == WaitersInit => WaitersInv
<1> SUFFICES ASSUME WaitersInit
             PROVE  WaitersInv
  OBVIOUS
<1>1. Limit \in Nat /\ JIT_ASYNC_LOOPS \in Nat \ {0} /\ MaxWrites \in Nat
  BY WaitersAssumption
<1>2. WaitersTypeOK
  <2>1. /\ file \in [Task -> procs \cup {"none"}] /\ loops \in [Task -> 0 .. JIT_ASYNC_LOOPS]
        /\ out \in [Task -> 0 .. JIT_ASYNC_LOOPS] /\ 0 \in 0 .. MaxWrites /\ 0 \in 0 .. Limit + 1
    BY <1>1 DEF WaitersInit
  <2>2. QED
    BY <2>1 DEF WaitersInit, WaitersTypeOK
<1>3. After = {}
  BY DEF WaitersInit, After
<1>4. WritesFit /\ CompletionsAreCounted
  BY <1>3, FS_EmptySet DEF WaitersInit, WritesFit, CompletionsAreCounted, After
<1>5. IdleHasNoFile /\ QueueFits /\ WhoWaitsIsWoken /\ TimerHasAReader /\ AllLinesArePrinted
  BY DEF WaitersInit, IdleHasNoFile, QueueFits, WhoWaitsIsWoken, TimerHasAReader,
         AllLinesArePrinted
<1>6. JitFits
  BY DEF WaitersInit, JitFits, JitFiles
<1>7. QED
  BY <1>2, <1>4, <1>5, <1>6 DEF WaitersInv

(* Every sleeper of sleepy, jiq and jit whose condition holds has a waker  *)
(* on its way, each completion lets one read end, the timer of jiq has a   *)
(* reader, and no uninterrupted read of jit is short of a line, for any    *)
(* number of readers, lines and loops.                                     *)
THEOREM WaitersAreServed == WaitersSpec => []WaitsEnd
<1>1. WaitersInv => WaitsEnd
  BY DEF WaitersInv, WaitsEnd
<1>2. QED
  BY <1>1, WaitersInvAtFirst, WaitersInvIsInductive, PTL DEF WaitersSpec

-----------------------------------------------------------------------------
(* The usb skeleton, for any number of processes, structures and urbs.     *)

(* skel_mutex is held where the code is between lock and unlock.  (A      *)
(* failed open holds it elsewhere, too.)                                   *)
MutexIsHeld ==
    /\ \A p \in Proc : pc[p] \in {"o_find", "o_data", "o_get", "o_unlock"} => skel_mutex = p
    /\ hub \in {"d_data", "d_deregister", "d_unlock"} => skel_mutex = Hub

(* Which of its two references to a structure the interface has, and       *)
(* whether it has its minor, as probe and disconnect go on.                *)
HubStage ==
    /\ hub = "absent" => dev = NoDev /\ intfdata = NoDev
    /\ hub \in {"p_endpoints", "p_data", "p_put", "d_deregister", "d_unlock", "d_put"} =>
           dev \in Dev /\ intfdata = NoDev
    /\ hub = "p_register" => dev \in Dev /\ intfdata = dev
    /\ hub \in {"bound", "d_lock", "d_data"} => dev = NoDev /\ intfdata \in Dev
    /\ registered <=> hub \in {"bound", "d_lock", "d_data", "d_deregister"}

(* An open past its tests still sees what it tested; an open file has its  *)
(* structure, and a write under way its urb.                               *)
FileStage ==
    \A p \in Proc :
        /\ pc[p] \in {"o_data", "o_get"} => registered
        /\ pc[p] = "o_get" => found[p] \in Dev /\ found[p] = intfdata
        /\ HasOpen(p) => private_data[p] \in Dev
        /\ pc[p] \in {"w_buffer", "w_fill", "w_submit"} => my_urb[p] \in Urb

IInv == TypeOK /\ MutexIsHeld /\ HubStage /\ FileStage /\ CountIsHolders

-----------------------------------------------------------------------------
LEMMA HoldersFinite == \A d \in Dev : IsFiniteSet(Holders(d))
<1> TAKE d \in Dev
<1>1. IsFiniteSet(Proc) /\ IsFiniteSet({Hub})
  BY SkelAssumption, FS_Singleton
<1>2. IsFiniteSet(Proc \cup {Hub})
  BY <1>1, FS_Union
<1>3. Holders(d) \subseteq Proc \cup {Hub}
  BY DEF Holders
<1>4. QED
  BY <1>2, <1>3, FS_Subset

(* A holder more, and one more on the count.                               *)
LEMMA GetCounts ==
    ASSUME CountIsHolders, kref \in [Dev -> Nat], live' = live,
           NEW d \in Dev, NEW x, x \notin Holders(d), d \in live,
           kref' = [kref EXCEPT ![d] = @ + 1],
           Holders(d)' = Holders(d) \cup {x},
           \A e \in Dev \ {d} : Holders(e)' = Holders(e)
    PROVE  CountIsHolders'
<1>1. Cardinality(Holders(d) \cup {x}) = Cardinality(Holders(d)) + 1
  BY HoldersFinite, FS_AddElement
<1>2. SUFFICES ASSUME NEW e \in Dev
               PROVE  /\ kref'[e] = Cardinality(Holders(e)')
                      /\ e \in live' <=> Holders(e)' # {}
  BY DEF CountIsHolders
<1>3. CASE e = d
  BY <1>1, <1>3 DEF CountIsHolders
<1>4. CASE e # d
  BY <1>4 DEF CountIsHolders
<1>5. QED
  BY <1>3, <1>4

(* A holder less, and kref_put(): it frees when that was the last one.     *)
LEMMA PutCounts ==
    ASSUME CountIsHolders, kref \in [Dev -> Nat],
           NEW d \in Dev, NEW x, x \in Holders(d),
           Put(d),
           Holders(d)' = Holders(d) \ {x},
           \A e \in Dev \ {d} : Holders(e)' = Holders(e)
    PROVE  CountIsHolders' /\ kref' \in [Dev -> Nat]
<1>1. /\ IsFiniteSet(Holders(d) \ {x})
      /\ Cardinality(Holders(d) \ {x}) = Cardinality(Holders(d)) - 1
  BY HoldersFinite, FS_RemoveElement
<1>2. Cardinality(Holders(d) \ {x}) \in Nat
  BY <1>1, FS_CardinalityType
<1>3. kref[d] = Cardinality(Holders(d)) /\ kref'[d] = kref[d] - 1 /\ kref'[d] \in Nat
  BY <1>1, <1>2 DEF CountIsHolders, Put
<1>4. kref' \in [Dev -> Nat]
  BY <1>3 DEF Put
<1>5. Holders(d) \ {x} = {} <=> kref[d] = 1
  BY <1>1, <1>3, FS_EmptySet
<1>6. d \in live' <=> kref[d] # 1
  BY DEF Put, CountIsHolders
<1>7. ASSUME NEW e \in Dev
      PROVE  /\ kref'[e] = Cardinality(Holders(e)')
             /\ e \in live' <=> Holders(e)' # {}
  <2>1. CASE e = d
    BY <1>1, <1>3, <1>5, <1>6, <2>1
  <2>2. CASE e # d
    BY <2>2 DEF CountIsHolders, Put
  <2>3. QED
    BY <2>1, <2>2
<1>8. QED
  BY <1>4, <1>7 DEF CountIsHolders

(* What changes neither a count nor a holder.                              *)
LEMMA SameCounts ==
    ASSUME CountIsHolders, UNCHANGED <<live, kref>>,
           \A e \in Dev : Holders(e)' = Holders(e)
    PROVE  CountIsHolders'
  BY DEF CountIsHolders

-----------------------------------------------------------------------------
LEMMA InitInv == Init => IInv
<1> SUFFICES ASSUME Init
             PROVE  IInv
  OBVIOUS
<1>1. TypeOK /\ MutexIsHeld /\ HubStage /\ FileStage
  BY SkelAssumption DEF Init, TypeOK, HubStep, Location, MutexIsHeld, HubStage, FileStage, HasOpen
<1>2. \A d \in Dev : Holders(d) = {}
  BY SkelAssumption DEF Init, Holders, HasOpen
<1>3. CountIsHolders
  BY <1>2, FS_EmptySet DEF Init, CountIsHolders
<1>4. QED
  BY <1>1, <1>3 DEF IInv

(* The hub thread: no file moves, and the structure in its hands passes    *)
(* from dev to intfdata and back.                                          *)
LEMMA HubKeepsInv == IInv /\ HubNext => IInv'
<1> SUFFICES ASSUME IInv, HubNext
             PROVE  IInv'
  OBVIOUS
<1> USE SkelAssumption DEF IInv
<1>0. Hub \notin Proc /\ UNCHANGED <<files, urbs>>
  BY DEF HubNext, Probe, Endpoints, SetData, Register, ProbeFails, Unplug, DisconnectLock,
         ClearData, Deregister, DisconnectUnlock, DisconnectPut
<1>1. CASE Probe
  <2>1. PICK d \in Dev \ live : /\ live' = live \cup {d}
                               /\ kref' = [kref EXCEPT ![d] = 1]
                               /\ dev' = d
    BY <1>1 DEF Probe
  <2>2. /\ hub = "absent" /\ hub' = "p_endpoints" /\ dev = NoDev /\ intfdata = NoDev
        /\ UNCHANGED <<skel_mutex, intfdata, registered>>
    BY <1>1 DEF Probe, HubStage
  <2>3. (TypeOK /\ MutexIsHeld /\ HubStage /\ FileStage)'
    BY <1>0, <2>1, <2>2
       DEF TypeOK, HubStep, MutexIsHeld, HubStage, FileStage, HasOpen, files, urbs
  <2>4. Holders(d) = {} /\ Holders(d)' = {Hub}
    BY <1>0, <2>1, <2>2 DEF CountIsHolders, Holders, HasOpen, files
  <2>5. \A e \in Dev \ {d} : Holders(e)' = Holders(e)
    BY <1>0, <2>1, <2>2 DEF Holders, HasOpen, files
  <2>6. Cardinality({Hub}) = 1
    BY FS_Singleton
  <2>7. CountIsHolders'
    BY <2>1, <2>4, <2>5, <2>6 DEF CountIsHolders, TypeOK
  <2>8. QED
    BY <2>3, <2>7
<1>2. CASE Endpoints
  <2>1. (TypeOK /\ MutexIsHeld /\ HubStage /\ FileStage)'
    BY <1>0, <1>2
       DEF Endpoints, TypeOK, HubStep, MutexIsHeld, HubStage, FileStage, HasOpen, files, urbs
  <2>2. \A e \in Dev : Holders(e)' = Holders(e)
    BY <1>0, <1>2 DEF Endpoints, HubStage, Holders, HasOpen, files
  <2>3. QED
    BY <1>2, <2>1, <2>2, SameCounts DEF Endpoints
<1>3. CASE SetData
  <2>1. (TypeOK /\ MutexIsHeld /\ HubStage /\ FileStage)'
    BY <1>0, <1>3
       DEF SetData, TypeOK, HubStep, MutexIsHeld, HubStage, FileStage, HasOpen, files, urbs
  <2>2. \A e \in Dev : Holders(e)' = Holders(e)
    BY <1>0, <1>3 DEF SetData, HubStage, Holders, HasOpen, files
  <2>3. QED
    BY <1>3, <2>1, <2>2, SameCounts DEF SetData
<1>4. CASE Register
  <2>1. (TypeOK /\ MutexIsHeld /\ HubStage /\ FileStage)'
    <3>1. TypeOK'
      BY <1>0, <1>4 DEF Register, TypeOK, HubStep, files, urbs
    <3>2. (MutexIsHeld /\ HubStage)'
      BY <1>0, <1>4 DEF Register, TypeOK, HubStep, MutexIsHeld, HubStage, files, urbs
    <3>3. FileStage'
      BY <1>0, <1>4 DEF Register, TypeOK, HubStep, HubStage, FileStage, HasOpen, files, urbs
    <3>4. QED
      BY <3>1, <3>2, <3>3
  <2>2. \A e \in Dev : Holders(e)' = Holders(e)
    BY <1>0, <1>4 DEF Register, HubStage, Holders, HasOpen, files
  <2>3. QED
    BY <1>4, <2>1, <2>2, SameCounts DEF Register
<1>5. CASE ProbeFails
  <2>0. PICK d \in Dev : d = dev
    BY <1>5 DEF ProbeFails, HubStage
  <2>1. Put(d) /\ Hub \in Holders(d)
    BY <1>5, <2>0 DEF ProbeFails, Holders
  <2>2. Holders(d)' = Holders(d) \ {Hub}
    BY <1>0, <1>5, <2>0 DEF ProbeFails, HubStage, Holders, HasOpen, files
  <2>3. \A e \in Dev \ {d} : Holders(e)' = Holders(e)
    BY <1>0, <1>5, <2>0 DEF ProbeFails, HubStage, Holders, HasOpen, files
  <2>4. CountIsHolders' /\ kref' \in [Dev -> Nat]
    BY <2>1, <2>2, <2>3, PutCounts DEF TypeOK
  <2>5. (TypeOK /\ MutexIsHeld /\ HubStage /\ FileStage)'
    BY <1>0, <1>5, <2>4
       DEF ProbeFails, Put, TypeOK, HubStep, MutexIsHeld, HubStage, FileStage, HasOpen, files, urbs
  <2>6. QED
    BY <2>4, <2>5
<1>6. CASE Unplug
  <2>1. (TypeOK /\ MutexIsHeld /\ HubStage /\ FileStage)'
    BY <1>0, <1>6
       DEF Unplug, TypeOK, HubStep, MutexIsHeld, HubStage, FileStage, HasOpen, files, urbs
  <2>2. \A e \in Dev : Holders(e)' = Holders(e)
    BY <1>0, <1>6 DEF Unplug, HubStage, Holders, HasOpen, files
  <2>3. QED
    BY <1>6, <2>1, <2>2, SameCounts DEF Unplug
<1>7. CASE DisconnectLock
  <2>1. (TypeOK /\ MutexIsHeld /\ HubStage /\ FileStage)'
    BY <1>0, <1>7
       DEF DisconnectLock, TypeOK, HubStep, MutexIsHeld, HubStage, FileStage, HasOpen, files, urbs
  <2>2. \A e \in Dev : Holders(e)' = Holders(e)
    BY <1>0, <1>7 DEF DisconnectLock, HubStage, Holders, HasOpen, files
  <2>3. QED
    BY <1>7, <2>1, <2>2, SameCounts DEF DisconnectLock
<1>8. CASE ClearData
  <2>1. (TypeOK /\ MutexIsHeld /\ HubStage /\ FileStage)'
    BY <1>0, <1>8
       DEF ClearData, TypeOK, HubStep, MutexIsHeld, HubStage, FileStage, HasOpen, files, urbs
  <2>2. \A e \in Dev : Holders(e)' = Holders(e)
    BY <1>0, <1>8 DEF ClearData, HubStage, Holders, HasOpen, files
  <2>3. QED
    BY <1>8, <2>1, <2>2, SameCounts DEF ClearData
<1>9. CASE Deregister
  <2>1. (TypeOK /\ MutexIsHeld /\ HubStage /\ FileStage)'
    BY <1>0, <1>9
       DEF Deregister, TypeOK, HubStep, MutexIsHeld, HubStage, FileStage, HasOpen, files, urbs
  <2>2. \A e \in Dev : Holders(e)' = Holders(e)
    BY <1>0, <1>9 DEF Deregister, HubStage, Holders, HasOpen, files
  <2>3. QED
    BY <1>9, <2>1, <2>2, SameCounts DEF Deregister
<1>10. CASE DisconnectUnlock
  <2>1. (TypeOK /\ MutexIsHeld /\ HubStage /\ FileStage)'
    BY <1>0, <1>10
       DEF DisconnectUnlock, TypeOK, HubStep, MutexIsHeld, HubStage, FileStage, HasOpen, files, urbs
  <2>2. \A e \in Dev : Holders(e)' = Holders(e)
    BY <1>0, <1>10 DEF DisconnectUnlock, HubStage, Holders, HasOpen, files
  <2>3. QED
    BY <1>10, <2>1, <2>2, SameCounts DEF DisconnectUnlock
<1>11. CASE DisconnectPut
  <2>0. PICK d \in Dev : d = dev
    BY <1>11 DEF DisconnectPut, HubStage
  <2>1. Put(d) /\ Hub \in Holders(d)
    BY <1>11, <2>0 DEF DisconnectPut, Holders
  <2>2. Holders(d)' = Holders(d) \ {Hub}
    BY <1>0, <1>11, <2>0 DEF DisconnectPut, HubStage, Holders, HasOpen, files
  <2>3. \A e \in Dev \ {d} : Holders(e)' = Holders(e)
    BY <1>0, <1>11, <2>0 DEF DisconnectPut, HubStage, Holders, HasOpen, files
  <2>4. CountIsHolders' /\ kref' \in [Dev -> Nat]
    BY <2>1, <2>2, <2>3, PutCounts DEF TypeOK
  <2>5. (TypeOK /\ MutexIsHeld /\ HubStage /\ FileStage)'
    BY <1>0, <1>11, <2>4
       DEF DisconnectPut, Put, TypeOK, HubStep, MutexIsHeld, HubStage, FileStage, HasOpen, files, urbs
  <2>6. QED
    BY <2>4, <2>5
<1>12. QED
  BY <1>1, <1>2, <1>3, <1>4, <1>5, <1>6, <1>7, <1>8, <1>9, <1>10, <1>11 DEF HubNext

(* The processes: an open takes its place among the holders, a release     *)
(* gives it up, and nothing else does either.                              *)
LEMMA FileKeepsInv ==
    ASSUME IInv, NEW p \in Proc, FileNext(p)
    PROVE  IInv'
<1> USE SkelAssumption DEF IInv
<1>1. CASE OpenGet(p)
  <2>0. PICK d \in Dev : d = found[p]
    BY <1>1 DEF OpenGet, FileStage
  <2>1. d = intfdata /\ Hub \in Holders(d) /\ d \in live
    BY <1>1, <2>0 DEF OpenGet, FileStage, Holders, CountIsHolders
  <2>2. p \notin Holders(d) /\ Holders(d)' = Holders(d) \cup {p}
    BY <1>1, <2>0, <2>1 DEF OpenGet, GoTo, TypeOK, Holders, HasOpen, core
  <2>3. \A e \in Dev \ {d} : Holders(e)' = Holders(e)
    BY <1>1, <2>0, <2>1 DEF OpenGet, GoTo, TypeOK, Holders, HasOpen, core
  <2>4. kref' = [kref EXCEPT ![d] = @ + 1] /\ live' = live
    BY <1>1, <2>0 DEF OpenGet
  <2>5. CountIsHolders'
    BY <2>1, <2>2, <2>3, <2>4, GetCounts DEF TypeOK
  <2>6. (TypeOK /\ MutexIsHeld /\ HubStage /\ FileStage)'
    BY <1>1, <2>0, <2>1 DEF OpenGet, GoTo, TypeOK, Location, MutexIsHeld, HubStage, FileStage, HasOpen, core, urbs
  <2>7. QED
    BY <2>5, <2>6
<1>2. CASE Release(p)
  <2>0. PICK d \in Dev : d = private_data[p]
    BY <1>2 DEF Release, FileStage, HasOpen
  <2>1. p \in Holders(d) /\ Put(d)
    BY <1>2, <2>0 DEF Release, Holders, HasOpen
  <2>2. Holders(d)' = Holders(d) \ {p}
    BY <1>2, <2>0, <2>1 DEF Release, GoTo, TypeOK, Holders, HasOpen, core
  <2>3. \A e \in Dev \ {d} : Holders(e)' = Holders(e)
    BY <1>2, <2>0, <2>1 DEF Release, GoTo, TypeOK, Holders, HasOpen, core
  <2>4. CountIsHolders' /\ kref' \in [Dev -> Nat]
    BY <2>1, <2>2, <2>3, PutCounts DEF TypeOK
  <2>5. (TypeOK /\ MutexIsHeld /\ HubStage /\ FileStage)'
    BY <1>2, <2>4 DEF Release, Put, GoTo, TypeOK, Location, MutexIsHeld, HubStage, FileStage, HasOpen, core, urbs
  <2>6. QED
    BY <2>4, <2>5
<1>3. CASE Open(p)
  <2>1. (TypeOK /\ MutexIsHeld /\ HubStage /\ FileStage)'
    BY <1>3 DEF Open, GoTo, TypeOK, Location, MutexIsHeld, HubStage, FileStage, HasOpen, core, urbs
  <2>2. \A e \in Dev : Holders(e)' = Holders(e)
    BY <1>3 DEF Open, GoTo, TypeOK, Holders, HasOpen, core
  <2>3. QED
    BY <1>3, <2>1, <2>2, SameCounts DEF Open
<1>4. CASE OpenLock(p)
  <2>1. (TypeOK /\ MutexIsHeld /\ HubStage /\ FileStage)'
    BY <1>4 DEF OpenLock, GoTo, TypeOK, Location, MutexIsHeld, HubStage, FileStage, HasOpen, core, urbs
  <2>2. \A e \in Dev : Holders(e)' = Holders(e)
    BY <1>4 DEF OpenLock, GoTo, TypeOK, Holders, HasOpen, core
  <2>3. QED
    BY <1>4, <2>1, <2>2, SameCounts DEF OpenLock
<1>5. CASE OpenFind(p)
  <2>1. (TypeOK /\ MutexIsHeld /\ HubStage /\ FileStage)'
    BY <1>5 DEF OpenFind, GoTo, TypeOK, Location, MutexIsHeld, HubStage, FileStage, HasOpen, core, urbs
  <2>2. \A e \in Dev : Holders(e)' = Holders(e)
    BY <1>5 DEF OpenFind, GoTo, TypeOK, Holders, HasOpen, core
  <2>3. QED
    BY <1>5, <2>1, <2>2, SameCounts DEF OpenFind
<1>6. CASE OpenData(p)
  <2>1. (TypeOK /\ MutexIsHeld /\ HubStage /\ FileStage)'
    BY <1>6 DEF OpenData, GoTo, TypeOK, Location, MutexIsHeld, HubStage, FileStage, HasOpen, core, urbs
  <2>2. \A e \in Dev : Holders(e)' = Holders(e)
    BY <1>6 DEF OpenData, GoTo, TypeOK, Holders, HasOpen, core
  <2>3. QED
    BY <1>6, <2>1, <2>2, SameCounts DEF OpenData
<1>7. CASE OpenUnlock(p)
  <2>1. (TypeOK /\ MutexIsHeld /\ HubStage /\ FileStage)'
    BY <1>7 DEF OpenUnlock, GoTo, TypeOK, Location, MutexIsHeld, HubStage, FileStage, HasOpen, core, urbs
  <2>2. \A e \in Dev : Holders(e)' = Holders(e)
    BY <1>7 DEF OpenUnlock, GoTo, TypeOK, Holders, HasOpen, core
  <2>3. QED
    BY <1>7, <2>1, <2>2, SameCounts DEF OpenUnlock
<1>8. CASE Read(p)
  <2>1. (TypeOK /\ MutexIsHeld /\ HubStage /\ FileStage)'
    BY <1>8 DEF Read, GoTo, TypeOK, Location, MutexIsHeld, HubStage, FileStage, HasOpen, core, urbs
  <2>2. \A e \in Dev : Holders(e)' = Holders(e)
    BY <1>8 DEF Read, GoTo, TypeOK, Holders, HasOpen, core
  <2>3. QED
    BY <1>8, <2>1, <2>2, SameCounts DEF Read
<1>9. CASE ReadMsg(p)
  <2>1. (TypeOK /\ MutexIsHeld /\ HubStage /\ FileStage)'
    BY <1>9 DEF ReadMsg, GoTo, TypeOK, Location, MutexIsHeld, HubStage, FileStage, HasOpen, core, urbs
  <2>2. \A e \in Dev : Holders(e)' = Holders(e)
    BY <1>9 DEF ReadMsg, GoTo, TypeOK, Holders, HasOpen, core
  <2>3. QED
    BY <1>9, <2>1, <2>2, SameCounts DEF ReadMsg
<1>10. CASE ReadCopy(p)
  <2>1. (TypeOK /\ MutexIsHeld /\ HubStage /\ FileStage)'
    BY <1>10 DEF ReadCopy, GoTo, TypeOK, Location, MutexIsHeld, HubStage, FileStage, HasOpen, core, urbs
  <2>2. \A e \in Dev : Holders(e)' = Holders(e)
    BY <1>10 DEF ReadCopy, GoTo, TypeOK, Holders, HasOpen, core
  <2>3. QED
    BY <1>10, <2>1, <2>2, SameCounts DEF ReadCopy
<1>11. CASE Write(p)
  <2>1. (TypeOK /\ MutexIsHeld /\ HubStage /\ FileStage)'
    BY <1>11 DEF Write, GoTo, TypeOK, Location, MutexIsHeld, HubStage, FileStage, HasOpen, core, urbs
  <2>2. \A e \in Dev : Holders(e)' = Holders(e)
    BY <1>11 DEF Write, GoTo, TypeOK, Holders, HasOpen, core
  <2>3. QED
    BY <1>11, <2>1, <2>2, SameCounts DEF Write
<1>12. CASE WriteBuffer(p)
  <2>1. (TypeOK /\ MutexIsHeld /\ HubStage /\ FileStage)'
    BY <1>12 DEF WriteBuffer, GoTo, TypeOK, Location, MutexIsHeld, HubStage, FileStage, HasOpen, core, urbs
  <2>2. \A e \in Dev : Holders(e)' = Holders(e)
    BY <1>12 DEF WriteBuffer, GoTo, TypeOK, Holders, HasOpen, core
  <2>3. QED
    BY <1>12, <2>1, <2>2, SameCounts DEF WriteBuffer
<1>13. CASE WriteFill(p)
  <2>1. (TypeOK /\ MutexIsHeld /\ HubStage /\ FileStage)'
    <3>1. TypeOK'
      BY <1>13 DEF WriteFill, FreesTwice, GoTo, TypeOK, Location, core, urbs
    <3>2. (MutexIsHeld /\ HubStage)'
      BY <1>13 DEF WriteFill, FreesTwice, GoTo, TypeOK, Location, MutexIsHeld, HubStage, core, urbs
    <3>3. FileStage'
      BY <1>13 DEF WriteFill, FreesTwice, GoTo, TypeOK, Location, HubStage, FileStage, HasOpen, core, urbs
    <3>4. QED
      BY <3>1, <3>2, <3>3
  <2>2. \A e \in Dev : Holders(e)' = Holders(e)
    BY <1>13 DEF WriteFill, FreesTwice, GoTo, TypeOK, Holders, HasOpen, core
  <2>3. QED
    BY <1>13, <2>1, <2>2, SameCounts DEF WriteFill
<1>14. CASE WriteSubmit(p)
  <2>1. (TypeOK /\ MutexIsHeld /\ HubStage /\ FileStage)'
    <3>1. TypeOK'
      <4>1. my_urb[p] \in Urb
        BY <1>14 DEF WriteSubmit, FileStage
      <4>2. QED
        BY <1>14, <4>1 DEF WriteSubmit, FreesTwice, GoTo, TypeOK, Location, core, urbs
    <3>2. (MutexIsHeld /\ HubStage)'
      BY <1>14 DEF WriteSubmit, FreesTwice, GoTo, TypeOK, Location, MutexIsHeld, HubStage, core, urbs
    <3>3. FileStage'
      BY <1>14 DEF WriteSubmit, FreesTwice, GoTo, TypeOK, Location, HubStage, FileStage, HasOpen, core, urbs
    <3>4. QED
      BY <3>1, <3>2, <3>3
  <2>2. \A e \in Dev : Holders(e)' = Holders(e)
    BY <1>14 DEF WriteSubmit, FreesTwice, GoTo, TypeOK, Holders, HasOpen, core
  <2>3. QED
    BY <1>14, <2>1, <2>2, SameCounts DEF WriteSubmit
<1>15. QED
  BY <1>1, <1>2, <1>3, <1>4, <1>5, <1>6, <1>7, <1>8, <1>9, <1>10, <1>11, <1>12, <1>13, <1>14 DEF FileNext

LEMMA OthersKeepInv == IInv /\ ((\E u \in Urb : Callback(u)) \/ UNCHANGED vars) => IInv'
<1> SUFFICES ASSUME IInv, (\E u \in Urb : Callback(u)) \/ UNCHANGED vars
             PROVE  IInv'
  OBVIOUS
<1>1. UNCHANGED <<core, live, kref, files, my_urb>> /\ inflight' \subseteq Urb /\ buffers' \subseteq Urb
  BY DEF IInv, Callback, vars, urbs, TypeOK
<1>2. (TypeOK /\ MutexIsHeld /\ HubStage /\ FileStage)'
  BY <1>1 DEF IInv, TypeOK, MutexIsHeld, HubStage, FileStage, HasOpen, core, files
<1>3. \A e \in Dev : Holders(e)' = Holders(e)
  BY <1>1 DEF Holders, HasOpen, core, files
<1>4. QED
  BY <1>1, <1>2, <1>3, SameCounts DEF IInv

LEMMA Inductive == IInv /\ [Next]_vars => IInv'
  BY HubKeepsInv, FileKeepsInv, OthersKeepInv DEF Next

LEMMA Invariant == Spec => []IInv
<1>1. QED
  BY InitInv, Inductive, PTL DEF Spec

-----------------------------------------------------------------------------
(* The reference count of every usb_skel is the number of open files on    *)
(* it and of the interface bound to it, and the structure is allocated     *)
(* exactly while that is not zero.                                         *)
THEOREM ReferencesAreCounted == Spec => []CountIsHolders
<1>1. IInv => CountIsHolders
  BY DEF IInv
<1>2. QED
  BY <1>1, Invariant, PTL

(* Whenever the device is pulled out, no open file, no open under way and  *)
(* no step of the hub thread is left with a freed usb_skel.                *)
THEOREM NothingIsUsedFreed == Spec => []NoUseAfterFree
<1>1. IInv => NoUseAfterFree
  <2> SUFFICES ASSUME IInv
               PROVE  NoUseAfterFree
    OBVIOUS
  <2>1. ASSUME NEW p \in Proc, HasOpen(p)
        PROVE  private_data[p] \in live
    <3>1. private_data[p] \in Dev /\ p \in Holders(private_data[p])
      BY <2>1 DEF IInv, FileStage, Holders
    <3>2. QED
      BY <3>1 DEF IInv, CountIsHolders
  <2>2. {dev, intfdata} \subseteq live \cup {NoDev}
    <3>1. \A d \in Dev : d \in {dev, intfdata} => Hub \in Holders(d)
      BY DEF Holders
    <3>2. QED
      BY <3>1 DEF IInv, TypeOK, CountIsHolders
  <2>3. \A p \in Proc : pc[p] = "o_get" => found[p] \in live
    BY <2>2, SkelAssumption DEF IInv, FileStage
  <2>4. QED
    BY <2>1, <2>2, <2>3 DEF NoUseAfterFree
<1>2. QED
  BY <1>1, Invariant, PTL

(* A file never gets a structure that skel_disconnect has already taken    *)
(* from the interface.                                                     *)
THEOREM OpensAreInTime == Spec => OpensWhatIsThere
<1> DEFINE InTime == \A p \in Proc : pc[p] = "o_get" /\ pc'[p] = "o_unlock" =>
                        registered /\ found[p] = intfdata
<1>1. IInv => InTime
  BY DEF IInv, FileStage
<1>2. IInv /\ [Next]_vars => [InTime]_vars
  BY <1>1
<1>3. QED
  BY <1>2, Invariant, PTL DEF Spec, OpensWhatIsThere

-----------------------------------------------------------------------------
Writing == {"w_buffer", "w_fill", "w_submit"}

(* An urb is prepared by one process at a time, and by none while it is in *)
(* flight.                                                                 *)
UrbsAreApart ==
    /\ \A p, q \in Proc : pc[p] \in Writing /\ pc[q] \in Writing /\ my_urb[p] = my_urb[q] => p = q
    /\ \A p \in Proc : pc[p] \in Writing => my_urb[p] \in Urb /\ my_urb[p] \notin inflight
    /\ \A p \in Proc : pc[p] = "w_buffer" => my_urb[p] \notin buffers

UrbInv == TypeOK /\ UrbsAreApart /\ BuffersHaveUrbs

LEMMA UrbsUntouched ==
    ASSUME UrbInv, UNCHANGED urbs,
           \A p \in Proc : pc'[p] = pc[p] \/ {pc[p], pc'[p]} \cap Writing = {}
    PROVE  (UrbsAreApart /\ BuffersHaveUrbs)'
  BY DEF UrbInv, UrbsAreApart, BuffersHaveUrbs, urbs, Writing

LEMMA UrbStep == UrbInv /\ TypeOK' /\ [Next]_vars => UrbInv'
<1> SUFFICES ASSUME UrbInv, TypeOK', [Next]_vars
             PROVE  (UrbsAreApart /\ BuffersHaveUrbs)'
  BY DEF UrbInv
<1> USE DEF UrbInv
<1>1. CASE HubNext \/ UNCHANGED vars
  <2>1. UNCHANGED <<pc, urbs>>
    BY <1>1 DEF HubNext, Probe, Endpoints, SetData, Register, ProbeFails, Unplug, DisconnectLock,
                ClearData, Deregister, DisconnectUnlock, DisconnectPut, files, vars
  <2>2. QED
    BY <2>1, UrbsUntouched
<1>2. ASSUME NEW p \in Proc,
             \/ Open(p) \/ OpenLock(p) \/ OpenFind(p) \/ OpenData(p) \/ OpenGet(p) \/ OpenUnlock(p)
             \/ Release(p) \/ Read(p) \/ ReadMsg(p) \/ ReadCopy(p)
      PROVE  (UrbsAreApart /\ BuffersHaveUrbs)'
  <2>1. UNCHANGED urbs
    BY <1>2 DEF Open, OpenLock, OpenFind, OpenData, OpenGet, OpenUnlock, Release, Read, ReadMsg, ReadCopy
  <2>2. PICK l \in Location : GoTo(p, l) /\ {pc[p], l} \cap Writing = {}
    BY <1>2 DEF Open, OpenLock, OpenFind, OpenData, OpenGet, OpenUnlock, Release, Read, ReadMsg, ReadCopy,
                Location, Writing
  <2>3. QED
    BY <2>1, <2>2, UrbsUntouched DEF GoTo, TypeOK
<1>3. ASSUME NEW p \in Proc, Write(p)
      PROVE  (UrbsAreApart /\ BuffersHaveUrbs)'
  <2>1. CASE GoTo(p, "wild") /\ UNCHANGED my_urb
    BY <1>3, <2>1, UrbsUntouched DEF Write, GoTo, TypeOK, urbs, Writing
  <2>2. CASE \E u \in Urb \ (inflight \cup buffers \cup {my_urb[q] : q \in Proc}) :
                 my_urb' = [my_urb EXCEPT ![p] = u]
    <3>1. pc' = [pc EXCEPT ![p] = "w_buffer"] /\ UNCHANGED <<inflight, buffers>> /\ pc[p] \notin Writing
      BY <1>3, <2>2, SkelAssumption DEF Write, GoTo, TypeOK, Writing
    <3>2. PICK u \in Urb : /\ u \notin inflight /\ u \notin buffers
                           /\ \A q \in Proc : my_urb[q] # u
                           /\ my_urb' = [my_urb EXCEPT ![p] = u]
      BY <2>2
    <3>3. UrbsAreApart'
      BY <3>1, <3>2 DEF UrbsAreApart, TypeOK, Writing
    <3>4. BuffersHaveUrbs'
      BY <3>1, <3>2 DEF BuffersHaveUrbs, TypeOK, Writing
    <3>5. QED
      BY <3>3, <3>4
  <2>3. QED
    BY <1>3, <2>1, <2>2 DEF Write
<1>4. ASSUME NEW p \in Proc, WriteBuffer(p) \/ WriteFill(p) \/ WriteSubmit(p)
      PROVE  (UrbsAreApart /\ BuffersHaveUrbs)'
  <2>1. my_urb[p] \in Urb /\ pc[p] \in Writing
    BY <1>4 DEF UrbsAreApart, WriteBuffer, WriteFill, WriteSubmit, Writing
  <2>2. UrbsAreApart'
    BY <1>4, <2>1 DEF UrbsAreApart, BuffersHaveUrbs, WriteBuffer, WriteFill, WriteSubmit, FreesTwice, GoTo, TypeOK, Writing
  <2>3. BuffersHaveUrbs'
    BY <1>4, <2>1 DEF UrbsAreApart, BuffersHaveUrbs, WriteBuffer, WriteFill, WriteSubmit, FreesTwice, GoTo, TypeOK, Writing
  <2>4. QED
    BY <2>2, <2>3
<1>5. ASSUME NEW u \in Urb, Callback(u)
      PROVE  (UrbsAreApart /\ BuffersHaveUrbs)'
  BY <1>5 DEF Callback, UrbsAreApart, BuffersHaveUrbs, files, Writing
<1>6. QED
  BY <1>1, <1>2, <1>3, <1>4, <1>5 DEF Next, FileNext

(* The coherent buffers that are allocated are those of the urbs in flight *)
(* and of the writes being prepared: the controller reads no freed buffer, *)
(* and no buffer is lost.                                                  *)
THEOREM BuffersAreOwned == Spec => []BuffersHaveUrbs
<1>1. Init => UrbInv
  BY InitInv DEF IInv, Init, UrbInv, UrbsAreApart, BuffersHaveUrbs, Writing
<1>2. UrbInv /\ TypeOK' /\ [Next]_vars => UrbInv'
  BY UrbStep
<1>3. IInv => TypeOK
  BY DEF IInv
<1>4. UrbInv => BuffersHaveUrbs
  BY DEF UrbInv
<1>5. QED
  BY <1>1, <1>2, <1>3, <1>4, Invariant, PTL DEF Spec
-----------------------------------------------------------------------------
(* Load and unload.  A list of steps is safe when whatever may be held at  *)
(* a step that can fail, and at the end, is undone by what then follows.   *)
Acquires == {"get", "must", "opt", "blind"}
Actions  == Acquires \cup {"uses", "drop"}
Resources == {"region", "devices", "sem", "cdevs", "p_region", "p_devices", "p_cdevs", "a_region",
              "a_cdevs", "cache", "driver", "lddevs", "bus", "busfile", "ldd0", "iomem", "ioremap",
              "ports", "chrdev", "page", "irq", "in_page", "out_page", "workqueue", "enabled",
              "class", "device", "proc", "proc2", "proc3", "proc4", "fb", "gpio", "vmem",
              "defio_mem", "defio", "regulator", "panel", "fbreg", "backlight"}
StepsWith(u) == [op : Actions, res : Resources, undo : u, given : Resources \cup {"always"}]
Simple  == StepsWith({<<>>})
StepSet == StepsWith(Seq(Simple))

(* What may stay: when the module is out, and when it is in but unbound.   *)
Left(d)    == IF d \in DOMAIN Leftovers THEN Leftovers[d] ELSE {}
Kept(d)    == Left(d) \cup Inert
Loaded(d)  == Kept(d) \cup {Plans[d].in[j].res : j \in DOMAIN Plans[d].in}
Back(d, mode) == IF mode = "binding" THEN Loaded(d) ELSE Kept(d)

(* The steps s give back all of H but what is kept, and, in a module that  *)
(* is careful, only what is there.                                         *)
Cleans(d, s, H, keep) ==
    /\ \A i \in DOMAIN s : s[i].op = "drop" /\ s[i].undo = <<>> /\ s[i].res \notin Inert
    /\ \A r \in H \ keep : \E i \in DOMAIN s :
          /\ s[i].res = r /\ s[i].given \in {"always", r} \cup H
          /\ \A j \in 1 .. i - 1 : s[j].res # s[i].given
    /\ d \in Careful => \A i \in DOMAIN s :
          \/ s[i].given \notin H \cup {"always"}
          \/ s[i].res \in Exclusive
          \/ s[i].res \in H /\ \A j \in 1 .. i - 1 : s[j].res # s[i].res

(* What is held for sure, and what may be, before step i of s, if all of   *)
(* lo and nothing but hi is held before the first.  Only scull gives back  *)
(* something, the region of its pipes, in a load that goes on.             *)
Sure(s, i, lo) ==
    (lo \cup {s[j].res : j \in {k \in 1 .. i - 1 : s[k].op \in {"get", "must"} /\ s[k].given = "always"}})
        \ {"p_region"}
May(s, i, hi) == hi \cup {s[j].res : j \in {k \in 1 .. i - 1 : s[k].op \in Acquires}}
Paired(H) == "p_cdevs" \in H => "p_devices" \in H
Possible(s, i, lo, hi) == {H \in SUBSET May(s, i, hi) : Sure(s, i, lo) \subseteq H /\ Paired(H)}

Devs   == {"devices", "sem", "cdevs"}
Opened == {"scull", "scullp", "scullv", "sculld"}

(* What is held when the module is in, bound or not, can be given back.    *)
Fine(d, H, mode) ==
    IF mode = "binding"
    THEN /\ Cleans(d, Plans[d].remove \o Plans[d].exit, H, Kept(d))
         /\ Cleans(d, Plans[d].remove, H, Loaded(d))
    ELSE /\ Cleans(d, Plans[d].exit, H, Kept(d))
         /\ Plans[d].probe # <<>> => H \subseteq Loaded(d)

(* The steps s of a load or of a probe are safe: how they are made, what   *)
(* undoes them, and, where it matters, what is there once a device is      *)
(* reachable.                                                              *)
Forward(d, s) == \A i \in DOMAIN s :
    /\ s[i].op \in Acquires \cup {"uses", "drop"}
    /\ s[i].op = "drop" => s[i].res = "p_region"
    /\ s[i].op \in {"blind", "uses"} => d \notin Careful /\ s[i].res \notin Inert
    /\ s[i].op = "opt" => s[i].undo \in {<<>>, <<Drop("p_region")>>}
    /\ s[i].res = "p_cdevs" => s[i].given = "p_devices"
Undone(d, s, lo, hi, keep) ==
    \A i \in DOMAIN s : s[i].op = "must" =>
        \A H \in Possible(s, i, lo, hi) : Cleans(d, s[i].undo, H, keep)
Reached(d, s, lo) ==
    d \in Opened => \A i \in DOMAIN s : s[i].op \in Acquires /\ s[i].res \in Node =>
        /\ Devs \subseteq Sure(s, i, lo) \cup {s[i].res}
        /\ \A m \in i + 1 .. Len(s) : s[m].op # "must"
Safe(d, s, lo, hi, mode) ==
    /\ Forward(d, s) /\ Undone(d, s, lo, hi, Back(d, mode)) /\ Reached(d, s, lo)
    /\ \A H \in Possible(s, Len(s) + 1, lo, hi) : Fine(d, H, mode)

(* All plans are written like that.                                        *)
Written(d) ==
    /\ {Plans[d].in, Plans[d].probe, Plans[d].remove, Plans[d].exit} \subseteq Seq(StepSet)
    /\ Safe(d, Plans[d].in, {}, Left(d), "loading") /\ "p_cdevs" \notin Left(d)
    /\ d \in Opened => Left(d) \cap Node = {} /\ Plans[d].probe = <<>>
    /\ Plans[d].probe # <<>> =>
          /\ Safe(d, Plans[d].probe, {}, Loaded(d), "binding") /\ "p_cdevs" \notin Loaded(d)
          /\ \A H \in SUBSET Loaded(d) : Fine(d, H, "loading")

(* What the steps that are left keep up, phase by phase.                   *)
Keeps ==
    /\ phase = "out" => ~bound /\ held \subseteq Left(driver)
    /\ phase = "loading" => ~bound /\ Safe(driver, todo, held, held, "loading")
    /\ phase = "binding" => ~bound /\ Safe(driver, todo, held, held, "binding")
    /\ phase = "in" => IF bound THEN Fine(driver, held, "binding") ELSE Fine(driver, held, "loading")
    /\ phase \in {"undoing", "leaving"} => Cleans(driver, todo, held, Kept(driver))
    /\ phase \in {"unwinding", "unbinding"} => Cleans(driver, todo, held, Loaded(driver))
Serves ==
    driver \in Opened =>
        IF phase \in {"loading", "in"}
        THEN users \/ held \cap Node # {} =>
                Devs \subseteq held /\ \A i \in DOMAIN todo : todo[i].op # "must"
        ELSE ~users
LoadInv ==
    /\ LoadingTypeOK /\ todo \in Seq(StepSet)
    /\ phase \in {"out", "loading", "binding", "in"} => Paired(held)
    /\ phase \in {"binding", "unwinding", "unbinding"} \/ bound => Plans[driver].probe # <<>>
    /\ Keeps /\ Serves
    /\ driver \in Careful => wild = {}
-----------------------------------------------------------------------------
LEMMA FirstStep ==
    ASSUME NEW s \in Seq(StepSet), s # <<>>
    PROVE  /\ Head(s) = s[1] /\ s[1] \in StepSet /\ 1 \in DOMAIN s /\ Len(s) \in Nat \ {0}
           /\ Tail(s) \in Seq(StepSet) /\ Len(Tail(s)) = Len(s) - 1
           /\ DOMAIN s = 1 .. Len(s) /\ DOMAIN Tail(s) = 1 .. Len(s) - 1
           /\ \A i \in DOMAIN Tail(s) : Tail(s)[i] = s[i + 1] /\ i + 1 \in DOMAIN s
<1>1. /\ Len(s) \in Nat \ {0} /\ DOMAIN s = 1 .. Len(s)
      /\ Tail(s) \in Seq(StepSet) /\ Len(Tail(s)) = Len(s) - 1
      /\ Head(s) = s[1] /\ Head(s) \in StepSet
      /\ \A i \in 1 .. Len(Tail(s)) : Tail(s)[i] = s[i + 1]
  BY HeadTailProperties, EmptySeq, LenProperties
<1>2. DOMAIN Tail(s) = 1 .. Len(Tail(s))
  BY <1>1, LenProperties
<1>3. QED
  BY <1>1, <1>2

LEMMA StepFields ==
    ASSUME NEW x \in StepSet
    PROVE  x.undo \in Seq(StepSet)
<1>1. x.undo \in Seq(Simple)
  BY DEF StepSet, StepsWith
<1>2. Simple \subseteq StepSet
  <2>1. <<>> \in Seq(Simple)
    BY EmptySeq
  <2>2. QED
    BY <2>1 DEF Simple, StepSet, StepsWith
<1>3. QED
  BY <1>1, <1>2, SeqMonotonic

(* Carrying out one step of a cleanup leaves a cleanup for what is left.   *)
LEMMA CleansOn ==
    ASSUME NEW d, NEW s \in Seq(StepSet), s # <<>>, NEW H, NEW keep, NEW H2,
           Cleans(d, s, H, keep),
           \A r : r \in H2 <=> r \in H /\ (s[1].given \in H \cup {"always"} => r # s[1].res)
    PROVE  Cleans(d, Tail(s), H2, keep)
<1> DEFINE t == Tail(s)
<1>1. /\ DOMAIN s = 1 .. Len(s) /\ DOMAIN t = 1 .. Len(s) - 1 /\ 1 \in DOMAIN s /\ Len(s) \in Nat
      /\ \A i \in DOMAIN t : t[i] = s[i + 1] /\ i + 1 \in DOMAIN s
  BY FirstStep
<1> HIDE DEF t
<1>2. \A i \in DOMAIN t : t[i].op = "drop" /\ t[i].undo = <<>> /\ t[i].res \notin Inert
  BY <1>1 DEF Cleans
<1>3. ASSUME NEW r \in H2 \ keep
      PROVE  \E i \in DOMAIN t :
                /\ t[i].res = r /\ t[i].given \in {"always", r} \cup H2
                /\ \A j \in 1 .. i - 1 : t[j].res # t[i].given
  <2>1. r \in H \ keep
    OBVIOUS
  <2>2. PICK i \in DOMAIN s : /\ s[i].res = r /\ s[i].given \in {"always", r} \cup H
                              /\ \A j \in 1 .. i - 1 : s[j].res # s[i].given
    BY <2>1 DEF Cleans
  <2>3. i # 1
    BY <2>1, <2>2
  <2>4. i - 1 \in DOMAIN t /\ t[i - 1] = s[i]
    BY <1>1, <2>2, <2>3
  <2>5. s[1].res # s[i].given
    BY <1>1, <2>2, <2>3
  <2>6. s[i].given \in {"always", r} \cup H2
    BY <2>2, <2>5
  <2>7. \A j \in 1 .. (i - 1) - 1 : t[j].res # s[i].given
    <3>1. SUFFICES ASSUME NEW j \in 1 .. (i - 1) - 1 PROVE t[j].res # s[i].given
      OBVIOUS
    <3>2. j \in DOMAIN t /\ j + 1 \in 1 .. i - 1
      BY <1>1, <2>4, <2>2
    <3>3. QED
      BY <1>1, <2>2, <3>2
  <2>8. QED
    BY <2>2, <2>4, <2>6, <2>7
<1>4. ASSUME d \in Careful, NEW i \in DOMAIN t
      PROVE  \/ t[i].given \notin H2 \cup {"always"}
             \/ t[i].res \in Exclusive
             \/ t[i].res \in H2 /\ \A j \in 1 .. i - 1 : t[j].res # t[i].res
  <2>1. i + 1 \in DOMAIN s /\ t[i] = s[i + 1] /\ i \in Nat
    BY <1>1, <1>4
  <2>2. \/ s[i + 1].given \notin H \cup {"always"}
        \/ s[i + 1].res \in Exclusive
        \/ s[i + 1].res \in H /\ \A j \in 1 .. (i + 1) - 1 : s[j].res # s[i + 1].res
    BY <1>4, <2>1 DEF Cleans
  <2>3. CASE s[i + 1].res \in H /\ \A j \in 1 .. (i + 1) - 1 : s[j].res # s[i + 1].res
    <3>1. s[1].res # t[i].res /\ t[i].res \in H2
      BY <1>1, <2>1, <2>3, <1>4
    <3>2. \A j \in 1 .. i - 1 : t[j].res # t[i].res
      <4>1. \A j \in 1 .. i - 1 : j \in DOMAIN t /\ j + 1 \in 1 .. (i + 1) - 1
        BY <1>1, <1>4
      <4>2. QED
        BY <1>1, <2>1, <2>3, <4>1
    <3>3. QED
      BY <3>1, <3>2
  <2>4. QED
    BY <2>1, <2>2, <2>3
<1>5. QED
  BY <1>2, <1>3, <1>4 DEF Cleans, t

(* What is possible before a later step stays so when the first was taken. *)
LEMMA PossibleOn ==
    ASSUME NEW s \in Seq(StepSet), s # <<>>, NEW H, NEW H2,
           \A r \in H : r = "p_region" \/ r \in H2,
           s[1].op \in {"get", "must"} /\ s[1].given = "always" => s[1].res \in H2,
           \A r \in H2 : r \in H \/ (s[1].op \in Acquires /\ r = s[1].res),
           NEW i \in 1 .. Len(s)
    PROVE  /\ Possible(Tail(s), i, H2, H2) \subseteq Possible(s, i + 1, H, H)
           /\ Sure(s, i + 1, H) \subseteq Sure(Tail(s), i, H2)
<1> DEFINE t == Tail(s)
<1>1. /\ DOMAIN s = 1 .. Len(s) /\ DOMAIN t = 1 .. Len(s) - 1 /\ 1 \in DOMAIN s /\ Len(s) \in Nat
      /\ \A k \in DOMAIN t : t[k] = s[k + 1] /\ k + 1 \in DOMAIN s
  BY FirstStep
<1> HIDE DEF t
<1>2. \A k \in 1 .. i - 1 : k \in DOMAIN t /\ k + 1 \in 1 .. (i + 1) - 1 /\ t[k] = s[k + 1]
  BY <1>1
<1>3. \A j \in 1 .. (i + 1) - 1 : j = 1 \/ (j - 1 \in 1 .. i - 1 /\ s[j] = t[j - 1])
  BY <1>1
<1>4. Sure(s, i + 1, H) \subseteq Sure(t, i, H2)
  <2>1. SUFFICES ASSUME NEW r \in Sure(s, i + 1, H) PROVE r \in Sure(t, i, H2)
    OBVIOUS
  <2>2. r # "p_region"
    BY <2>1 DEF Sure
  <2>3. CASE r \in H
    BY <2>2, <2>3 DEF Sure
  <2>4. CASE r \notin H
    <3>1. PICK j \in 1 .. (i + 1) - 1 : s[j].op \in {"get", "must"} /\ s[j].given = "always" /\ s[j].res = r
      BY <2>1, <2>4 DEF Sure
    <3>2. CASE j = 1
      BY <2>2, <3>1, <3>2 DEF Sure
    <3>3. CASE j # 1
      <4>1. j - 1 \in 1 .. i - 1 /\ s[j] = t[j - 1]
        BY <1>3, <3>1, <3>3
      <4>2. QED
        BY <2>2, <3>1, <4>1 DEF Sure
    <3>4. QED
      BY <3>2, <3>3
  <2>5. QED
    BY <2>3, <2>4
<1>5. May(t, i, H2) \subseteq May(s, i + 1, H)
  <2>1. SUFFICES ASSUME NEW r \in May(t, i, H2) PROVE r \in May(s, i + 1, H)
    OBVIOUS
  <2>2. CASE r \in H
    BY <2>2 DEF May
  <2>3. CASE r \notin H /\ r \in H2
    <3>1. r = s[1].res /\ s[1].op \in Acquires /\ 1 \in 1 .. (i + 1) - 1
      BY <2>3
    <3>2. QED
      BY <3>1 DEF May
  <2>4. CASE r \notin H2
    <3>1. PICK k \in 1 .. i - 1 : t[k].op \in Acquires /\ t[k].res = r
      BY <2>1, <2>4 DEF May
    <3>2. k + 1 \in 1 .. (i + 1) - 1 /\ t[k] = s[k + 1]
      BY <1>2, <3>1
    <3>3. QED
      BY <3>1, <3>2 DEF May
  <2>5. QED
    BY <2>2, <2>3, <2>4
<1>6. QED
  BY <1>4, <1>5 DEF Possible, t

(* A load that has taken a step is as safe as it was before.               *)
LEMMA SafeOn ==
    ASSUME NEW d, NEW mode, NEW s \in Seq(StepSet), s # <<>>, NEW H, NEW H2,
           Safe(d, s, H, H, mode),
           \A r \in H : r = "p_region" \/ r \in H2,
           s[1].op \in {"get", "must"} /\ s[1].given = "always" => s[1].res \in H2,
           \A r \in H2 : r \in H \/ (s[1].op \in Acquires /\ r = s[1].res)
    PROVE  Safe(d, Tail(s), H2, H2, mode)
<1> DEFINE t == Tail(s)
<1>1. /\ DOMAIN s = 1 .. Len(s) /\ DOMAIN t = 1 .. Len(s) - 1 /\ 1 \in DOMAIN s /\ Len(s) \in Nat
      /\ Len(t) = Len(s) - 1
      /\ \A k \in DOMAIN t : t[k] = s[k + 1] /\ k + 1 \in DOMAIN s
  BY FirstStep
<1>2. \A i \in 1 .. Len(s) : /\ Possible(t, i, H2, H2) \subseteq Possible(s, i + 1, H, H)
                             /\ Sure(s, i + 1, H) \subseteq Sure(t, i, H2)
  <2>1. SUFFICES ASSUME NEW i \in 1 .. Len(s)
                 PROVE  /\ Possible(t, i, H2, H2) \subseteq Possible(s, i + 1, H, H)
                        /\ Sure(s, i + 1, H) \subseteq Sure(t, i, H2)
    OBVIOUS
  <2>2. QED
    BY PossibleOn
<1> HIDE DEF t
<1>3. Forward(d, t)
  BY <1>1 DEF Safe, Forward
<1>4. Undone(d, t, H2, H2, Back(d, mode))
  <2>1. SUFFICES ASSUME NEW i \in DOMAIN t, t[i].op = "must", NEW K \in Possible(t, i, H2, H2)
                 PROVE  Cleans(d, t[i].undo, K, Back(d, mode))
    BY DEF Undone
  <2>2. t[i] = s[i + 1] /\ i + 1 \in DOMAIN s /\ i \in 1 .. Len(s)
    BY <1>1, <2>1
  <2>3. K \in Possible(s, i + 1, H, H)
    BY <1>2, <2>1, <2>2
  <2>4. Undone(d, s, H, H, Back(d, mode))
    BY DEF Safe
  <2>5. QED
    BY <2>1, <2>2, <2>3, <2>4 DEF Undone
<1>5. Reached(d, t, H2)
  <2>1. SUFFICES ASSUME d \in Opened, NEW i \in DOMAIN t, t[i].op \in Acquires, t[i].res \in Node
                 PROVE  /\ Devs \subseteq Sure(t, i, H2) \cup {t[i].res}
                        /\ \A m \in i + 1 .. Len(t) : t[m].op # "must"
    BY DEF Reached
  <2>2. t[i] = s[i + 1] /\ i + 1 \in DOMAIN s /\ i \in 1 .. Len(s)
    BY <1>1, <2>1
  <2>3. /\ Devs \subseteq Sure(s, i + 1, H) \cup {s[i + 1].res}
        /\ \A m \in (i + 1) + 1 .. Len(s) : s[m].op # "must"
    BY <2>1, <2>2 DEF Safe, Reached
  <2>4. \A m \in i + 1 .. Len(t) : t[m] = s[m + 1] /\ m + 1 \in (i + 1) + 1 .. Len(s)
    BY <1>1, <2>2
  <2>5. QED
    BY <1>2, <2>2, <2>3, <2>4
<1>6. \A K \in Possible(t, Len(t) + 1, H2, H2) : Fine(d, K, mode)
  <2>1. Len(s) \in 1 .. Len(s) /\ Len(t) + 1 = Len(s)
    BY <1>1
  <2>2. Possible(t, Len(t) + 1, H2, H2) \subseteq Possible(s, Len(s) + 1, H, H)
    BY <1>2, <2>1
  <2>3. QED
    BY <2>2 DEF Safe
<1>7. QED
  BY <1>3, <1>4, <1>5, <1>6 DEF Safe, t

(* So is one in which an optional step failed.                             *)
LEMMA SafeWithout ==
    ASSUME NEW d, NEW mode, NEW s \in Seq(StepSet), s # <<>>, NEW H,
           Safe(d, s, H, H, mode), s[1].op = "opt"
    PROVE  /\ s[1].undo \o Tail(s) \in Seq(StepSet)
           /\ Safe(d, s[1].undo \o Tail(s), H, H, mode)
           /\ \A m \in DOMAIN (s[1].undo \o Tail(s)) :
                 (s[1].undo \o Tail(s))[m].op = "must" => \E k \in DOMAIN s : s[k].op = "must"
<1> DEFINE t == Tail(s)
           u == <<Drop("p_region")>> \o t
<1>1. /\ DOMAIN s = 1 .. Len(s) /\ DOMAIN t = 1 .. Len(s) - 1 /\ 1 \in DOMAIN s /\ Len(s) \in Nat \ {0}
      /\ t \in Seq(StepSet) /\ Len(t) = Len(s) - 1 /\ s[1] \in StepSet
      /\ \A k \in DOMAIN t : t[k] = s[k + 1] /\ k + 1 \in DOMAIN s
  BY FirstStep
<1>2. CASE s[1].undo = <<>>
  <2>1. s[1].undo \o t = t
    BY <1>1, <1>2, ConcatEmptySeq
  <2>2. Safe(d, t, H, H, mode)
    BY SafeOn
  <2>3. \A m \in DOMAIN t : t[m].op = "must" => \E k \in DOMAIN s : s[k].op = "must"
    <3> HIDE DEF t
    <3>1. QED
      BY <1>1
  <2>4. QED
    BY <1>1, <2>1, <2>2, <2>3
<1>3. CASE s[1].undo = <<Drop("p_region")>>
  <2> HIDE DEF t
  <2>1. <<Drop("p_region")>> \in Seq(StepSet)
    <3>1. s[1].undo \in Seq(StepSet)
      BY <1>1, StepFields
    <3>2. QED
      BY <1>3, <3>1
  <2>2. /\ u \in Seq(StepSet) /\ Len(u) = Len(s)
        /\ u[1] = Drop("p_region") /\ \A i \in 2 .. Len(s) : u[i] = t[i - 1]
    <3> DEFINE o == <<Drop("p_region")>>
    <3>1. o \in Seq(StepSet) /\ Len(o) = 1 /\ o[1] = Drop("p_region")
      BY <2>1
    <3> HIDE DEF o
    <3>2. /\ o \o t \in Seq(StepSet) /\ Len(o \o t) = 1 + Len(t)
          /\ \A i \in 1 .. 1 + Len(t) : (o \o t)[i] = IF i <= 1 THEN o[i] ELSE t[i - 1]
      <4>1. /\ o \o t \in Seq(StepSet) /\ Len(o \o t) = Len(o) + Len(t)
            /\ \A i \in 1 .. Len(o) + Len(t) :
                  (o \o t)[i] = IF i <= Len(o) THEN o[i] ELSE t[i - Len(o)]
        BY <1>1, <3>1, ConcatProperties, Zenon
      <4>2. QED
        BY <3>1, <4>1
    <3>3. u = o \o t
      BY DEF o
    <3> HIDE DEF u
    <3>4. Len(u) = Len(s)
      <4>1. Len(u) = 1 + Len(t)
        BY <3>2, <3>3
      <4>2. QED
        BY <1>1, <4>1
    <3>5. u[1] = o[1]
      BY <1>1, <3>2, <3>3
    <3>6. \A i \in 2 .. Len(s) : u[i] = t[i - 1]
      BY <1>1, <3>2, <3>3
    <3>7. QED
      BY <3>1, <3>2, <3>3, <3>4, <3>5, <3>6
  <2> HIDE DEF u
  <2>3. DOMAIN u = 1 .. Len(s) /\ \A i \in 2 .. Len(s) : u[i] = s[i]
    <3>1. DOMAIN u = 1 .. Len(s)
      BY <2>2, LenProperties
    <3>2. \A i \in 2 .. Len(s) : i - 1 \in DOMAIN t /\ (i - 1) + 1 = i
      BY <1>1
    <3>3. QED
      BY <1>1, <2>2, <3>1, <3>2
  <2>4. u[1].op = "drop" /\ u[1].res = "p_region" /\ u[1].given = "always" /\ "drop" \notin Acquires
    BY <2>2 DEF Drop, Step, Acquires
  <2>5. \A i \in 1 .. Len(s) + 1 : \A j \in 1 .. i - 1 : j = 1 \/ (j \in 2 .. Len(s) /\ u[j] = s[j])
    BY <1>1, <2>3
  <2>6. \A i \in 1 .. Len(s) + 1 : Sure(s, i, H) \subseteq Sure(u, i, H) /\ May(u, i, H) \subseteq May(s, i, H)
    <3>1. SUFFICES ASSUME NEW i \in 1 .. Len(s) + 1
                   PROVE  Sure(s, i, H) \subseteq Sure(u, i, H) /\ May(u, i, H) \subseteq May(s, i, H)
      OBVIOUS
    <3>2. \A j \in 1 .. i - 1 : j = 1 \/ u[j] = s[j]
      BY <2>5
    <3>3. Sure(s, i, H) \subseteq Sure(u, i, H)
      BY <3>2 DEF Sure
    <3>4. May(u, i, H) \subseteq May(s, i, H)
      BY <2>4, <3>2 DEF May
    <3>5. QED
      BY <3>3, <3>4
  <2>7. \A i \in 1 .. Len(s) + 1 : Possible(u, i, H, H) \subseteq Possible(s, i, H, H)
    BY <2>6 DEF Possible
  <2>8. \A i \in DOMAIN u : i \in DOMAIN s /\ i \in 1 .. Len(s) + 1 /\ (i = 1 \/ u[i] = s[i])
    BY <1>1, <2>3
  <2>9. Forward(d, u)
    <3>1. SUFFICES ASSUME NEW i \in DOMAIN u
                   PROVE  /\ u[i].op \in Acquires \cup {"uses", "drop"}
                          /\ u[i].op = "drop" => u[i].res = "p_region"
                          /\ u[i].op \in {"blind", "uses"} => d \notin Careful /\ u[i].res \notin Inert
                          /\ u[i].op = "opt" => u[i].undo \in {<<>>, <<Drop("p_region")>>}
                          /\ u[i].res = "p_cdevs" => u[i].given = "p_devices"
      BY DEF Forward
    <3>2. CASE i = 1
      BY <2>4, <3>2
    <3>3. CASE i # 1
      <4>1. i \in DOMAIN s /\ u[i] = s[i] /\ Forward(d, s)
        BY <2>8, <3>3 DEF Safe
      <4>2. QED
        BY <4>1 DEF Forward
    <3>4. QED
      BY <3>2, <3>3
  <2>10. Undone(d, u, H, H, Back(d, mode))
    <3>1. SUFFICES ASSUME NEW i \in DOMAIN u, u[i].op = "must", NEW K \in Possible(u, i, H, H)
                   PROVE  Cleans(d, u[i].undo, K, Back(d, mode))
      BY DEF Undone
    <3>2. i \in DOMAIN s /\ i \in 1 .. Len(s) + 1 /\ u[i] = s[i]
      BY <2>4, <2>8, <3>1
    <3>3. K \in Possible(s, i, H, H) /\ Undone(d, s, H, H, Back(d, mode))
      BY <2>7, <3>1, <3>2 DEF Safe
    <3>4. QED
      BY <3>1, <3>2, <3>3 DEF Undone
  <2>11. Reached(d, u, H)
    <3>1. SUFFICES ASSUME d \in Opened, NEW i \in DOMAIN u, u[i].op \in Acquires, u[i].res \in Node
                   PROVE  /\ Devs \subseteq Sure(u, i, H) \cup {u[i].res}
                          /\ \A m \in i + 1 .. Len(u) : u[m].op # "must"
      BY DEF Reached
    <3>2. i \in DOMAIN s /\ i \in 1 .. Len(s) + 1 /\ u[i] = s[i]
      BY <2>4, <2>8, <3>1
    <3>3. /\ Devs \subseteq Sure(s, i, H) \cup {s[i].res}
          /\ \A m \in i + 1 .. Len(s) : s[m].op # "must"
      BY <3>1, <3>2 DEF Safe, Reached
    <3>4. \A m \in i + 1 .. Len(s) : u[m] = s[m]
      <4>1. i \in 1 .. Len(s)
        BY <1>1, <3>2
      <4>2. \A m \in i + 1 .. Len(s) : m \in 2 .. Len(s)
        BY <4>1, <1>1
      <4>3. QED
        BY <2>3, <4>2
    <3>5. QED
      BY <2>2, <2>6, <3>2, <3>3, <3>4
  <2>12. \A K \in Possible(u, Len(u) + 1, H, H) : Fine(d, K, mode)
    <3>1. Len(u) + 1 = Len(s) + 1 /\ Len(s) + 1 \in 1 .. Len(s) + 1
      BY <1>1, <2>2
    <3>2. QED
      BY <2>7, <3>1 DEF Safe
  <2>13. \A m \in DOMAIN u : u[m].op = "must" => \E k \in DOMAIN s : s[k].op = "must"
    BY <2>4, <2>8
  <2>14. Safe(d, u, H, H, mode)
    BY <2>9, <2>10, <2>11, <2>12 DEF Safe
  <2>15. s[1].undo \o t = u
    BY <1>3 DEF u
  <2>16. QED
    BY <2>2, <2>13, <2>14, <2>15 DEF t
<1>4. QED
  BY <1>1, <1>2, <1>3 DEF Safe, Forward

LEMMA SafeFewer ==
    ASSUME NEW d, NEW mode, NEW s, NEW hi, NEW H \in SUBSET hi, Safe(d, s, {}, hi, mode)
    PROVE  Safe(d, s, H, H, mode)
<1>1. \A i : Sure(s, i, {}) \subseteq Sure(s, i, H) /\ May(s, i, H) \subseteq May(s, i, hi)
  BY DEF Sure, May
<1>2. \A i : Possible(s, i, H, H) \subseteq Possible(s, i, {}, hi)
  BY <1>1 DEF Possible
<1>3. Forward(d, s) /\ Undone(d, s, H, H, Back(d, mode)) /\ Reached(d, s, H)
  <2>1. Undone(d, s, H, H, Back(d, mode))
    BY <1>2 DEF Safe, Undone
  <2>2. Reached(d, s, H)
    BY <1>1, Zenon DEF Safe, Reached
  <2>3. QED
    BY <2>1, <2>2 DEF Safe
<1>4. QED
  BY <1>2, <1>3 DEF Safe

(* What is held now is possible now.                                       *)
LEMMA HeldIsPossible ==
    ASSUME NEW s, NEW H, Paired(H)
    PROVE  H \in Possible(s, 1, H, H)
<1>1. Sure(s, 1, H) \subseteq H /\ May(s, 1, H) = H
  BY DEF Sure, May
<1>2. QED
  BY <1>1 DEF Possible

(* The steps of a load or an unload, one by one.                           *)
LEMMA CallsBegin ==
    ASSUME LoadInv, LoadingAssumption, Load \/ Bind \/ Unbind \/ Unload, \A d \in Names : Written(d)
    PROVE  LoadInv'
<1> DEFINE d == driver
<1>1. d \in Names /\ Written(d) /\ driver' = d /\ held' = held /\ bound' = bound /\ users' = users
      /\ wild' = wild
  BY DEF LoadInv, LoadingTypeOK, LoadingAssumption, Load, Bind, Unbind, Unload, Begin
<1>2. /\ Paired(held) => Paired(held') /\ (d \in Careful => wild' = {})
      /\ Inert \cap wild' = {} /\ users' \in BOOLEAN /\ bound' \in BOOLEAN /\ driver' \in Drivers
  BY <1>1 DEF LoadInv, LoadingTypeOK, Paired
<1>3. CASE Load
  <2>1. /\ phase = "out" /\ phase' = "loading" /\ todo' = Plans[d].in /\ loads' = loads + 1
        /\ loads < MaxLoads /\ ~bound /\ held \subseteq Left(d) /\ Paired(held)
    BY <1>3 DEF Load, Begin, LoadInv, Keeps
  <2>2. LoadingTypeOK' /\ todo' \in Seq(StepSet)
    BY <1>1, <1>2, <2>1 DEF LoadInv, LoadingTypeOK, LoadingAssumption, Written
  <2>3. Safe(d, Plans[d].in, held, held, "loading")
    <3>1. Safe(d, Plans[d].in, {}, Left(d), "loading") /\ held \in SUBSET Left(d)
      BY <1>1, <2>1 DEF Written
    <3>2. QED
      BY <3>1, SafeFewer, Zenon
  <2>4. Keeps'
    BY <1>1, <2>1, <2>3, Zenon DEF Keeps
  <2>5. Serves'
    <3>1. d \in Opened => ~users /\ held \cap Node = {}
      BY <1>1, <2>1 DEF LoadInv, Serves, Written
    <3>2. QED
      BY <1>1, <2>1, <3>1 DEF Serves
  <2>6. QED
    BY <1>1, <1>2, <2>1, <2>2, <2>4, <2>5 DEF LoadInv
<1>4. CASE Bind
  <2>1. /\ phase = "in" /\ phase' = "binding" /\ todo' = Plans[d].probe /\ loads' = loads
        /\ ~bound /\ Plans[d].probe # <<>> /\ Fine(d, held, "loading") /\ Paired(held)
    BY <1>4 DEF Bind, Begin, LoadInv, Keeps
  <2>2. LoadingTypeOK' /\ todo' \in Seq(StepSet)
    BY <1>1, <1>2, <2>1 DEF LoadInv, LoadingTypeOK, Written
  <2>3. Safe(d, Plans[d].probe, held, held, "binding")
    <3>1. Safe(d, Plans[d].probe, {}, Loaded(d), "binding") /\ held \in SUBSET Loaded(d)
      BY <1>1, <2>1 DEF Written, Fine
    <3>2. QED
      BY <3>1, SafeFewer, Zenon
  <2>4. Keeps'
    BY <1>1, <2>1, <2>3, Zenon DEF Keeps
  <2>5. Serves'
    BY <1>1, <2>1 DEF Serves, Written
  <2>6. QED
    BY <1>1, <1>2, <2>1, <2>2, <2>4, <2>5 DEF LoadInv
<1>5. CASE Unbind
  <2>1. /\ phase = "in" /\ phase' = "unbinding" /\ todo' = Plans[d].remove /\ loads' = loads
        /\ bound /\ Plans[d].probe # <<>> /\ Fine(d, held, "binding")
    BY <1>5 DEF Unbind, Begin, LoadInv, Keeps
  <2>2. LoadingTypeOK' /\ todo' \in Seq(StepSet)
    BY <1>1, <1>2, <2>1 DEF LoadInv, LoadingTypeOK, Written
  <2>3. Keeps'
    <3>1. Cleans(d, Plans[d].remove, held, Loaded(d))
      BY <2>1 DEF Fine
    <3>2. QED
      BY <1>1, <2>1, <3>1, Zenon DEF Keeps
  <2>4. Serves'
    BY <1>1, <2>1 DEF Serves, Written
  <2>5. QED
    BY <1>1, <1>2, <2>1, <2>2, <2>3, <2>4 DEF LoadInv
<1>6. CASE Unload
  <2>1. /\ phase = "in" /\ phase' = "leaving" /\ loads' = loads /\ ~users
        /\ todo' = (IF bound THEN Plans[d].remove ELSE <<>>) \o Plans[d].exit
        /\ bound => Plans[d].probe # <<>> /\ Fine(d, held, "binding")
        /\ ~bound => Fine(d, held, "loading")
    BY <1>6 DEF Unload, Begin, LoadInv, Keeps
  <2>2. todo' \in Seq(StepSet) /\ Cleans(d, todo', held, Kept(d))
    <3>1. Plans[d].remove \in Seq(StepSet) /\ Plans[d].exit \in Seq(StepSet)
      BY <1>1 DEF Written
    <3>2. CASE bound
      <4>1. todo' = Plans[d].remove \o Plans[d].exit
        BY <2>1, <3>2
      <4>2. QED
        BY <2>1, <3>1, <3>2, <4>1, ConcatProperties DEF Fine
    <3>3. CASE ~bound
      <4>1. todo' = Plans[d].exit
        BY <2>1, <3>1, <3>3, ConcatEmptySeq
      <4>2. QED
        BY <2>1, <3>1, <3>3, <4>1 DEF Fine
    <3>4. QED
      BY <3>2, <3>3
  <2>3. LoadingTypeOK'
    BY <1>1, <1>2, <2>1 DEF LoadInv, LoadingTypeOK
  <2>4. Keeps'
    BY <1>1, <2>1, <2>2, Zenon DEF Keeps
  <2>5. Serves'
    BY <1>1, <2>1 DEF Serves
  <2>6. QED
    BY <1>1, <1>2, <2>1, <2>2, <2>3, <2>4, <2>5 DEF LoadInv
<1>7. QED
  BY <1>3, <1>4, <1>5, <1>6

LEMMA OpensAndCloses ==
    ASSUME LoadInv, LoadingAssumption, OpenDriver \/ Close, \A d \in Names : Written(d)
    PROVE  LoadInv'
<1>1. UNCHANGED <<driver, phase, bound, todo, held, wild, loads>> /\ users' \in BOOLEAN
  BY DEF OpenDriver, Close
<1>2. LoadingTypeOK' /\ todo' \in Seq(StepSet)
  BY <1>1 DEF LoadInv, LoadingTypeOK
<1>3. Keeps'
  <2>1. Keeps
    BY DEF LoadInv
  <2>2. QED
    BY <1>1, <2>1, Zenon DEF Keeps
<1>4. Serves'
  <2>1. driver \in Names /\ Serves /\ Written(driver)
    BY DEF LoadInv, LoadingTypeOK, LoadingAssumption
  <2>2. CASE OpenDriver
    <3>1. held \cap Node # {} /\ phase \in {"loading", "binding", "in"}
      BY <2>2 DEF OpenDriver
    <3>2. driver \in Opened => phase # "binding"
      BY <2>1 DEF LoadInv, Written
    <3>3. QED
      BY <1>1, <2>1, <3>1, <3>2 DEF Serves
  <2>3. CASE Close
    <3>1. users /\ ~users'
      BY <2>3 DEF Close
    <3>2. QED
      BY <1>1, <2>1, <3>1 DEF Serves
  <2>4. QED
    BY <2>2, <2>3
<1>5. QED
  BY <1>1, <1>2, <1>3, <1>4 DEF LoadInv, Paired

(* Where a step is left to do, and what is known of the first.             *)
LEMMA NowIs ==
    ASSUME LoadInv, LoadingAssumption, Proceed, \A d \in Names : Written(d)
    PROVE  /\ todo # <<>> /\ todo \in Seq(StepSet) /\ Now = todo[1] /\ 1 \in DOMAIN todo
           /\ todo[1] \in StepSet /\ Tail(todo) \in Seq(StepSet)
           /\ \A i \in DOMAIN Tail(todo) : \E k \in DOMAIN todo : Tail(todo)[i] = todo[k]
           /\ UNCHANGED <<driver, bound, users, loads>>
           /\ driver \in Names /\ Written(driver)
           /\ \/ phase \in {"loading", "binding"} /\ ~bound /\ Safe(driver, todo, held, held, phase)
                 /\ Forward(driver, todo) /\ Paired(held)
              \/ phase \in {"undoing", "leaving"} /\ Cleans(driver, todo, held, Kept(driver))
              \/ phase \in {"unwinding", "unbinding"} /\ Cleans(driver, todo, held, Loaded(driver))
<1>1. todo # <<>> /\ todo \in Seq(StepSet) /\ driver \in Names /\ Written(driver)
  BY DEF LoadInv, LoadingTypeOK, LoadingAssumption, Proceed
<1>2. /\ Now = todo[1] /\ 1 \in DOMAIN todo /\ todo[1] \in StepSet /\ Tail(todo) \in Seq(StepSet)
      /\ \A i \in DOMAIN Tail(todo) : Tail(todo)[i] = todo[i + 1] /\ i + 1 \in DOMAIN todo
  BY <1>1, FirstStep DEF Now
<1>3. phase \in {"loading", "binding", "unbinding", "undoing", "unwinding", "leaving"}
  BY <1>1 DEF LoadInv, LoadingTypeOK
<1>4. CASE phase \in {"loading", "binding"}
  <2>1. ~bound /\ Safe(driver, todo, held, held, phase) /\ Paired(held)
    BY <1>4 DEF LoadInv, Keeps
  <2>2. QED
    BY <1>1, <1>2, <1>4, <2>1, Zenon DEF Proceed, Safe
<1>5. CASE phase \in {"undoing", "leaving"}
  <2>1. Cleans(driver, todo, held, Kept(driver))
    BY <1>5 DEF LoadInv, Keeps
  <2>2. QED
    BY <1>1, <1>2, <1>5, <2>1, Zenon DEF Proceed
<1>6. CASE phase \in {"unwinding", "unbinding"}
  <2>1. Cleans(driver, todo, held, Loaded(driver))
    BY <1>6 DEF LoadInv, Keeps
  <2>2. QED
    BY <1>1, <1>2, <1>6, <2>1, Zenon DEF Proceed
<1>7. QED
  BY <1>3, <1>4, <1>5, <1>6

(* A step of a load or a probe that goes on.                               *)
LEMMA GoesOn ==
    ASSUME LoadInv, LoadingAssumption, \A d \in Names : Written(d), Proceed,
           phase \in {"loading", "binding"}, phase' = phase, todo' \in Seq(StepSet),
           Safe(driver, todo', held', held', phase), Inert \cap wild' = {},
           driver \in Careful => wild' = {},
           todo[1].res = "p_cdevs" => todo[1].given = "p_devices",
           \A r \in held : r = "p_region" \/ r \in held',
           \A r \in held' : r \in held
                \/ (r = todo[1].res /\ todo[1].op \in Acquires
                    /\ (todo[1].given = "always" \/ todo[1].given \in held)),
           \A i \in DOMAIN todo' : todo'[i].op = "must" => \E k \in DOMAIN todo : todo[k].op = "must",
           held' # held => todo' = Tail(todo)
    PROVE  LoadInv'
<1>1. /\ todo # <<>> /\ todo \in Seq(StepSet) /\ 1 \in DOMAIN todo
      /\ UNCHANGED <<driver, bound, users, loads>> /\ driver \in Names /\ Written(driver)
      /\ ~bound /\ Safe(driver, todo, held, held, phase) /\ Paired(held)
  BY NowIs
<1>2. LoadingTypeOK'
  BY <1>1 DEF LoadInv, LoadingTypeOK
<1>3. Paired(held')
  <2>1. SUFFICES ASSUME "p_cdevs" \in held' PROVE "p_devices" \in held'
    BY DEF Paired
  <2>2. CASE "p_cdevs" \in held
    BY <1>1, <2>2 DEF Paired
  <2>3. CASE "p_cdevs" \notin held
    <3>1. "p_devices" \in held
      BY <2>1, <2>3
    <3>2. QED
      BY <3>1
  <2>4. QED
    BY <2>2, <2>3
<1>4. Keeps'
  <2>1. Safe(driver', todo', held', held', phase')
    BY <1>1
  <2>2. QED
    BY <1>1, <2>1 DEF Keeps
<1>5. Serves'
  <2>1. SUFFICES ASSUME driver \in Opened PROVE Serves'
    BY <1>1 DEF Serves
  <2>2. phase = "loading"
    BY <1>1, <2>1 DEF LoadInv, Written
  <2>3. SUFFICES ASSUME users \/ held' \cap Node # {}
                 PROVE  Devs \subseteq held' /\ \A i \in DOMAIN todo' : todo'[i].op # "must"
    BY <1>1, <2>2 DEF Serves
  <2>4. CASE users \/ held \cap Node # {}
    <3>1. Devs \subseteq held /\ \A i \in DOMAIN todo : todo[i].op # "must"
      BY <2>1, <2>2, <2>4 DEF LoadInv, Serves
    <3>2. Devs \subseteq held'
      BY <3>1 DEF Devs
    <3>3. QED
      BY <3>1, <3>2
  <2>5. CASE ~users /\ held \cap Node = {}
    <3>1. PICK r \in held' : r \in Node /\ r \notin held
      BY <2>3, <2>5
    <3>2. todo[1].op \in Acquires /\ todo[1].res \in Node /\ todo[1].res \in held' /\ held' # held
      BY <3>1
    <3>3. /\ Devs \subseteq Sure(todo, 1, held) \cup {todo[1].res}
          /\ \A m \in 1 + 1 .. Len(todo) : todo[m].op # "must"
      BY <1>1, <2>1, <3>2 DEF Safe, Reached
    <3>4. Devs \subseteq held'
      <4>1. \A x \in Sure(todo, 1, held) : x \in held /\ x # "p_region"
        BY DEF Sure
      <4>2. QED
        BY <3>2, <3>3, <4>1
    <3>5. \A i \in DOMAIN todo' : todo'[i].op # "must"
      <4>1. todo' = Tail(todo)
        BY <3>2
      <4>2. /\ DOMAIN Tail(todo) = 1 .. Len(todo) - 1 /\ Len(todo) \in Nat
            /\ \A i \in DOMAIN Tail(todo) : Tail(todo)[i] = todo[i + 1]
        BY <1>1, FirstStep
      <4>3. \A i \in DOMAIN Tail(todo) : i + 1 \in 1 + 1 .. Len(todo)
        BY <4>2
      <4>4. QED
        BY <3>3, <4>1, <4>2, <4>3
    <3>6. QED
      BY <3>4, <3>5
  <2>6. QED
    BY <2>4, <2>5
<1>6. QED
  BY <1>1, <1>2, <1>3, <1>4, <1>5 DEF LoadInv

(* A step of a cleanup.                                                    *)
LEMMA CleansUp ==
    ASSUME LoadInv, LoadingAssumption, \A d \in Names : Written(d), Proceed, Advance,
           phase \notin {"loading", "binding"},
           \A r : r \in held' <=> r \in held /\ (todo[1].given \in held \cup {"always"} => r # todo[1].res),
           Inert \cap wild' = {}, driver \in Careful => wild' = {}
    PROVE  LoadInv'
<1>1. /\ todo # <<>> /\ todo \in Seq(StepSet) /\ Tail(todo) \in Seq(StepSet)
      /\ UNCHANGED <<driver, bound, users, loads>> /\ driver \in Names /\ Written(driver)
      /\ \/ phase \in {"undoing", "leaving"} /\ Cleans(driver, todo, held, Kept(driver))
         \/ phase \in {"unwinding", "unbinding"} /\ Cleans(driver, todo, held, Loaded(driver))
      /\ phase' = phase /\ todo' = Tail(todo)
  BY NowIs DEF Advance
<1>2. LoadingTypeOK'
  BY <1>1 DEF LoadInv, LoadingTypeOK
<1>3. Keeps'
  <2>1. CASE phase \in {"undoing", "leaving"}
    <3>1. Cleans(driver, Tail(todo), held', Kept(driver))
      BY <1>1, <2>1, CleansOn
    <3>2. QED
      BY <1>1, <2>1, <3>1 DEF Keeps
  <2>2. CASE phase \in {"unwinding", "unbinding"}
    <3>1. Cleans(driver, Tail(todo), held', Loaded(driver))
      BY <1>1, <2>2, CleansOn
    <3>2. QED
      BY <1>1, <2>2, <3>1 DEF Keeps
  <2>3. QED
    BY <1>1, <2>1, <2>2
<1>4. Serves'
  BY <1>1 DEF LoadInv, Serves
<1>5. QED
  BY <1>1, <1>2, <1>3, <1>4 DEF LoadInv

LEMMA StepsOn ==
    ASSUME LoadInv, LoadingAssumption, \A d \in Names : Written(d),
           Skip \/ Acquire \/ Oops \/ GiveBack \/ Touch
    PROVE  LoadInv'
<1> DEFINE s == todo  x == todo[1]
<1>1. Proceed /\ Advance /\ phase' = phase /\ todo' = Tail(todo)
  BY DEF Skip, Acquire, Oops, GiveBack, Touch, Advance
<1>2. /\ s # <<>> /\ s \in Seq(StepSet) /\ Now = x /\ 1 \in DOMAIN s /\ Tail(s) \in Seq(StepSet)
      /\ \A i \in DOMAIN Tail(s) : \E k \in DOMAIN s : Tail(s)[i] = s[k]
      /\ \/ phase \in {"loading", "binding"} /\ Safe(driver, s, held, held, phase)
            /\ Forward(driver, s)
         \/ phase \in {"undoing", "leaving"} /\ Cleans(driver, s, held, Kept(driver))
         \/ phase \in {"unwinding", "unbinding"} /\ Cleans(driver, s, held, Loaded(driver))
  BY <1>1, NowIs
<1>3. Inert \cap wild = {} /\ (driver \in Careful => wild = {})
  BY DEF LoadInv, LoadingTypeOK
<1>4. Skipped <=> x.given # "always" /\ x.given \notin held
  BY <1>2 DEF Skipped
<1>5. ASSUME phase \in {"loading", "binding"},
             \A r \in held : r = "p_region" \/ r \in held',
             x.op \in {"get", "must"} /\ x.given = "always" => x.res \in held',
             \A r \in held' : r \in held \/ (r = x.res /\ x.op \in Acquires
                                                /\ (x.given = "always" \/ x.given \in held)),
             Inert \cap wild' = {}, driver \in Careful => wild' = {}
      PROVE  LoadInv'
  <2>1. Safe(driver, Tail(s), held', held', phase)
    <3>1. Safe(driver, s, held, held, phase)
      BY <1>2, <1>5
    <3>2. \A r \in held' : r \in held \/ (x.op \in Acquires /\ r = x.res)
      BY <1>5
    <3>3. QED
      BY <1>2, <1>5, <3>1, <3>2, SafeOn
  <2>2. x.res = "p_cdevs" => x.given = "p_devices"
    BY <1>2, <1>5 DEF Forward
  <2>3. \A i \in DOMAIN todo' : todo'[i].op = "must" => \E k \in DOMAIN s : s[k].op = "must"
    BY <1>1, <1>2
  <2>4. Safe(driver, todo', held', held', phase) /\ todo' \in Seq(StepSet)
    BY <1>1, <1>2, <2>1
  <2>5. QED
    BY <1>1, <1>5, <2>2, <2>3, <2>4, GoesOn
<1>6. CASE Skip
  <2>1. held' = held /\ wild' = wild /\ x.given # "always" /\ x.given \notin held
    BY <1>4, <1>6 DEF Skip
  <2>2. CASE phase \in {"loading", "binding"}
    BY <1>3, <1>5, <2>1, <2>2
  <2>3. CASE phase \notin {"loading", "binding"}
    BY <1>1, <1>3, <2>1, <2>3, CleansUp
  <2>4. QED
    BY <2>2, <2>3
<1>7. CASE Acquire
  <2>1. /\ held' = held \cup {x.res} /\ wild' = wild /\ x.op \in Acquires
        /\ (x.given = "always" \/ x.given \in held)
    BY <1>2, <1>4, <1>7 DEF Acquire, Acquires
  <2>2. phase \in {"loading", "binding"}
    BY <1>2, <2>1 DEF Cleans, Acquires
  <2>3. QED
    BY <1>3, <1>5, <2>1, <2>2
<1>8. CASE Oops
  <2>1. held' = held /\ wild' = wild \cup {x.res} /\ x.op = "blind"
    BY <1>2, <1>8 DEF Oops
  <2>2. phase \in {"loading", "binding"}
    BY <1>2, <2>1 DEF Cleans
  <2>3. driver \notin Careful /\ x.res \notin Inert
    BY <1>2, <2>1, <2>2 DEF Forward
  <2>4. QED
    BY <1>3, <1>5, <2>1, <2>2, <2>3
<1>9. CASE Touch
  <2>1. /\ held' = held /\ x.op = "uses"
        /\ wild' = IF x.res \in held THEN wild ELSE wild \cup {x.res}
    BY <1>2, <1>9 DEF Touch
  <2>2. phase \in {"loading", "binding"}
    BY <1>2, <2>1 DEF Cleans
  <2>3. driver \notin Careful /\ x.res \notin Inert
    BY <1>2, <2>1, <2>2 DEF Forward
  <2>4. QED
    BY <1>3, <1>5, <2>1, <2>2, <2>3
<1>10. CASE GiveBack
  <2>1. /\ held' = held \ {x.res} /\ x.op = "drop" /\ x.given \in held \cup {"always"}
        /\ wild' = IF x.res \in held \cup Exclusive THEN wild ELSE wild \cup {x.res}
    BY <1>2, <1>4, <1>10 DEF GiveBack
  <2>2. CASE phase \in {"loading", "binding"}
    <3>1. x.res = "p_region" /\ "p_region" \in Exclusive
      BY <1>2, <2>1, <2>2 DEF Forward, Exclusive
    <3>2. QED
      BY <1>3, <1>5, <2>1, <2>2, <3>1
  <2>3. CASE phase \notin {"loading", "binding"}
    <3>1. /\ x.res \notin Inert
          /\ driver \in Careful => x.res \in held \cup Exclusive
      BY <1>2, <2>1, <2>3 DEF Cleans
    <3>2. QED
      BY <1>1, <1>3, <2>1, <2>3, <3>1, CleansUp
  <2>4. QED
    BY <2>2, <2>3
<1>11. QED
  BY <1>6, <1>7, <1>8, <1>9, <1>10

LEMMA GoesOnWithout ==
    ASSUME LoadInv, LoadingAssumption, \A d \in Names : Written(d), GoOn
    PROVE  LoadInv'
<1>1. Proceed /\ phase' = phase /\ held' = held /\ wild' = wild
  BY DEF GoOn
<1>2. /\ todo # <<>> /\ todo \in Seq(StepSet) /\ Now = todo[1] /\ 1 \in DOMAIN todo
      /\ \/ phase \in {"loading", "binding"} /\ Safe(driver, todo, held, held, phase)
            /\ Forward(driver, todo)
         \/ phase \in {"undoing", "leaving"} /\ Cleans(driver, todo, held, Kept(driver))
         \/ phase \in {"unwinding", "unbinding"} /\ Cleans(driver, todo, held, Loaded(driver))
  BY <1>1, NowIs
<1>3. todo[1].op = "opt" /\ todo' = todo[1].undo \o Tail(todo)
  BY <1>2 DEF GoOn
<1>4. phase \in {"loading", "binding"}
  BY <1>2, <1>3 DEF Cleans
<1>5. /\ todo' \in Seq(StepSet) /\ Safe(driver, todo', held, held, phase)
      /\ \A m \in DOMAIN todo' : todo'[m].op = "must" => \E k \in DOMAIN todo : todo[k].op = "must"
  <2>1. Safe(driver, todo, held, held, phase)
    BY <1>2, <1>4
  <2>2. QED
    BY <1>2, <1>3, <2>1, SafeWithout
<1>6. todo[1].res = "p_cdevs" => todo[1].given = "p_devices"
  BY <1>2, <1>4 DEF Forward
<1>7. Inert \cap wild = {} /\ (driver \in Careful => wild = {})
  BY DEF LoadInv, LoadingTypeOK
<1>8. Safe(driver, todo', held', held', phase)
  BY <1>1, <1>5
<1>9. QED
  BY <1>1, <1>4, <1>5, <1>6, <1>7, <1>8, GoesOn

LEMMA FailsClean ==
    ASSUME LoadInv, LoadingAssumption, \A d \in Names : Written(d), Fail
    PROVE  LoadInv'
<1>1. Proceed /\ held' = held /\ wild' = wild
  BY DEF Fail
<1>2. /\ todo # <<>> /\ todo \in Seq(StepSet) /\ Now = todo[1] /\ 1 \in DOMAIN todo
      /\ todo[1] \in StepSet /\ UNCHANGED <<driver, bound, users, loads>>
      /\ driver \in Names /\ Written(driver)
      /\ \/ phase \in {"loading", "binding"} /\ ~bound /\ Safe(driver, todo, held, held, phase)
            /\ Paired(held)
         \/ phase \in {"undoing", "leaving"} /\ Cleans(driver, todo, held, Kept(driver))
         \/ phase \in {"unwinding", "unbinding"} /\ Cleans(driver, todo, held, Loaded(driver))
  BY <1>1, NowIs
<1>3. /\ todo[1].op = "must" /\ todo' = todo[1].undo
      /\ phase' = IF phase = "loading" THEN "undoing" ELSE "unwinding"
  BY <1>2 DEF Fail
<1>4. phase \in {"loading", "binding"} /\ Safe(driver, todo, held, held, phase) /\ ~bound
  BY <1>2, <1>3 DEF Cleans
<1>5. todo' \in Seq(StepSet)
  BY <1>2, <1>3, StepFields
<1>6. Cleans(driver, todo', held, Back(driver, phase))
  <2>1. held \in Possible(todo, 1, held, held)
    BY <1>2, <1>4, HeldIsPossible
  <2>2. Undone(driver, todo, held, held, Back(driver, phase))
    BY <1>4 DEF Safe
  <2>3. QED
    BY <1>2, <1>3, <2>1, <2>2 DEF Undone
<1>7. LoadingTypeOK'
  <2>1. LoadingTypeOK
    BY DEF LoadInv
  <2>2. QED
    BY <1>1, <1>2, <1>3, <1>4, <2>1 DEF LoadingTypeOK
<1>8. Keeps'
  BY <1>1, <1>2, <1>3, <1>4, <1>6 DEF Keeps, Back
<1>9. Serves'
  <2>1. driver \in Opened => phase = "loading"
    BY <1>2, <1>4 DEF LoadInv, Written
  <2>2. driver \in Opened => ~users
    BY <1>2, <1>3, <2>1 DEF LoadInv, Serves
  <2>3. QED
    BY <1>2, <1>3, <2>1, <2>2 DEF Serves
<1>10. phase = "binding" => Plans[driver].probe # <<>>
  BY DEF LoadInv
<1>11. QED
  BY <1>1, <1>2, <1>3, <1>4, <1>5, <1>7, <1>8, <1>9, <1>10 DEF LoadInv

LEMMA EndsWell ==
    ASSUME LoadInv, LoadingAssumption, \A d \in Names : Written(d), End
    PROVE  LoadInv'
<1>1. /\ todo = <<>> /\ phase \notin {"out", "in"}
      /\ phase' = IF phase \in {"undoing", "leaving"} THEN "out" ELSE "in"
      /\ bound' = (phase = "binding")
      /\ held' = IF phase' = "out" THEN held \ Inert ELSE held
      /\ UNCHANGED <<driver, todo, wild, users, loads>>
  BY DEF End
<1>2. /\ phase \in {"loading", "binding", "unbinding", "undoing", "unwinding", "leaving"}
      /\ driver \in Names /\ Written(driver)
  BY <1>1 DEF LoadInv, LoadingTypeOK, LoadingAssumption
<1>3. LoadingTypeOK' /\ todo' \in Seq(StepSet)
  <2>1. LoadingTypeOK /\ todo \in Seq(StepSet)
    BY DEF LoadInv
  <2>2. QED
    BY <1>1, <2>1 DEF LoadingTypeOK
<1>4. DOMAIN todo = {} /\ Len(todo) + 1 = 1
  BY <1>1
<1>5. driver \in Careful => wild' = {}
  BY <1>1 DEF LoadInv
<1>6. CASE phase \in {"undoing", "leaving"}
  <2>1. phase' = "out" /\ ~bound' /\ held' = held \ Inert
    BY <1>1, <1>6
  <2>2. Cleans(driver, todo, held, Kept(driver))
    BY <1>6 DEF LoadInv, Keeps
  <2>3. held' \subseteq Left(driver)
    BY <1>4, <2>1, <2>2 DEF Cleans, Kept
  <2>4. Paired(held')
    BY <1>2, <2>3 DEF Paired, Written
  <2>5. Keeps'
    BY <1>1, <2>1, <2>3 DEF Keeps
  <2>6. Serves'
    BY <1>1, <1>6, <2>1 DEF LoadInv, Serves
  <2>7. QED
    BY <1>1, <1>3, <1>5, <2>1, <2>4, <2>5, <2>6 DEF LoadInv
<1>7. CASE phase \in {"unwinding", "unbinding"}
  <2>1. phase' = "in" /\ ~bound' /\ held' = held
    BY <1>1, <1>7
  <2>2. Cleans(driver, todo, held, Loaded(driver)) /\ Plans[driver].probe # <<>>
    BY <1>7 DEF LoadInv, Keeps
  <2>3. held \subseteq Loaded(driver)
    BY <1>4, <2>2 DEF Cleans
  <2>4. Fine(driver, held, "loading") /\ Paired(held)
    BY <1>2, <2>2, <2>3 DEF Written, Paired
  <2>5. Keeps'
    BY <1>1, <2>1, <2>4 DEF Keeps
  <2>6. Serves'
    BY <1>1, <1>2, <2>2 DEF Serves, Written
  <2>7. Paired(held')
    BY <2>1, <2>4
  <2>8. QED
    BY <1>1, <1>3, <1>5, <2>1, <2>5, <2>6, <2>7 DEF LoadInv
<1>8. CASE phase \in {"loading", "binding"}
  <2>1. phase' = "in" /\ held' = held /\ (bound' <=> phase = "binding")
    BY <1>1, <1>8
  <2>2. Safe(driver, todo, held, held, phase) /\ Paired(held)
    BY <1>8 DEF LoadInv, Keeps
  <2>3. Fine(driver, held, phase)
    <3>1. held \in Possible(todo, 1, held, held)
      BY <2>2, HeldIsPossible
    <3>2. QED
      BY <1>4, <2>2, <3>1 DEF Safe
  <2>4. Keeps'
    BY <1>1, <1>8, <2>1, <2>3 DEF Keeps
  <2>5. Serves'
    <3>1. driver \in Opened => phase = "loading"
      BY <1>2, <1>8 DEF LoadInv, Written
    <3>2. QED
      BY <1>1, <2>1, <3>1 DEF LoadInv, Serves
  <2>6. phase = "binding" => Plans[driver].probe # <<>>
    BY DEF LoadInv
  <2>7. Paired(held')
    BY <2>1, <2>2
  <2>8. QED
    BY <1>1, <1>3, <1>5, <2>1, <2>4, <2>5, <2>6, <2>7 DEF LoadInv
<1>9. QED
  BY <1>2, <1>6, <1>7, <1>8
-----------------------------------------------------------------------------
(* What is held before step i, in the words of the list.                   *)
LEMMA PossibleMeans ==
    ASSUME NEW s, NEW i, NEW lo, NEW hi, NEW H \in Possible(s, i, lo, hi)
    PROVE  /\ \A j \in 1 .. i - 1 :
                 s[j].op \in {"get", "must"} /\ s[j].given = "always" /\ s[j].res # "p_region"
                    => s[j].res \in H
           /\ \A r \in H : r \in hi \/ \E j \in 1 .. i - 1 : s[j].op \in Acquires /\ s[j].res = r
           /\ Paired(H)
  BY DEF Possible, Sure, May

(* The steps are steps, and what is made of them.                           *)
LEMMA SmallSteps == Simple \subseteq StepSet /\ Seq(Simple) \subseteq Seq(StepSet)
<1>1. Simple \subseteq StepSet
  <2>1. <<>> \in Seq(Simple)
    BY EmptySeq
  <2>2. QED
    BY <2>1 DEF Simple, StepSet, StepsWith
<1>2. QED
  BY <1>1, SeqMonotonic
LEMMA StepTypes ==
    /\ \A r \in Resources : {Get(r), Opt(r), Blind(r), Uses(r), Drop(r)} \subseteq Simple
    /\ \A r, g \in Resources : DropIf(r, g) \in Simple
    /\ \A s \in Simple, g \in Resources : Given(g, s) \in Simple
    /\ \A s \in StepSet, g \in Resources : Given(g, s) \in StepSet
    /\ \A r \in Resources, u \in Seq(Simple) : Must(r, u) \in StepSet /\ Step("opt", r, u, "always") \in StepSet
    /\ <<>> \in Seq(Simple)
    /\ \A r \in Resources : <<Drop(r)>> \in Seq(Simple)
    /\ \A r, g \in Resources : <<DropIf(r, g)>> \in Seq(Simple)
<1> DEFINE G == Resources \cup {"always"}
<1>1. {"get", "must", "opt", "blind", "uses", "drop"} \subseteq Actions
  BY DEF Actions, Acquires
<1>2. \A o \in Actions, r \in Resources, g \in G : \A U : \A u \in U : Step(o, r, u, g) \in StepsWith(U)
  BY DEF Step, StepsWith
<1>3. \A U : \A s \in StepsWith(U) : \A g \in Resources : Given(g, s) \in StepsWith(U)
  BY DEF Given, StepsWith
<1>4. <<>> \in Seq(Simple)
  BY EmptySeq
<1>5. \A o \in Actions, r \in Resources, g \in G : Step(o, r, <<>>, g) \in Simple
  BY <1>2 DEF Simple
<1>6. \A o \in Actions, r \in Resources, g \in G : \A u \in Seq(Simple) : Step(o, r, u, g) \in StepSet
  BY <1>2 DEF StepSet
<1>7. \A r \in Resources : {Get(r), Opt(r), Blind(r), Uses(r), Drop(r)} \subseteq Simple
  BY <1>1, <1>5 DEF Get, Opt, Blind, Uses, Drop
<1>8. \A r, g \in Resources : DropIf(r, g) \in Simple
  BY <1>7, <1>3 DEF DropIf, Simple
<1>9. \A r \in Resources, u \in Seq(Simple) : Must(r, u) \in StepSet /\ Step("opt", r, u, "always") \in StepSet
  BY <1>1, <1>6 DEF Must
<1>10. /\ \A r \in Resources : <<Drop(r)>> \in Seq(Simple)
       /\ \A r, g \in Resources : <<DropIf(r, g)>> \in Seq(Simple)
  BY <1>7, <1>8
<1>11. QED
  BY <1>3, <1>4, <1>7, <1>8, <1>9, <1>10 DEF Simple, StepSet

LEMMA Added ==
    ASSUME NEW S, NEW s \in Seq(S), NEW x \in S, Len(s) = 2
    PROVE  /\ Append(s, x) \in Seq(S) /\ Len(Append(s, x)) = 3
           /\ Append(s, x)[1] = s[1] /\ Append(s, x)[2] = s[2] /\ Append(s, x)[3] = x
<1> DEFINE t == Append(s, x)
<1>1. t \in Seq(S)
  OBVIOUS
<1>5. Len(t) = Len(s) + 1
  BY AppendProperties
<1>2. \A i \in 1 .. Len(s) : t[i] = s[i]
  BY AppendProperties
<1>3. t[Len(s) + 1] = x
  BY AppendProperties
<1> HIDE DEF t
<1>4. QED
  BY <1>1, <1>2, <1>3, <1>5 DEF t

LEMMA SureMeans ==
    ASSUME NEW s, NEW i, NEW lo, NEW j \in 1 .. i - 1,
           s[j].op \in {"get", "must"}, s[j].given = "always", s[j].res # "p_region"
    PROVE  s[j].res \in Sure(s, i, lo)
  BY DEF Sure

(* A module that is not bound to a device.                                 *)
LEMMA PlainIsWritten ==
    ASSUME NEW d, NEW s \in Seq(StepSet), NEW c \in Seq(StepSet), Plans[d] = Plain(s, c),
           Forward(d, s), Undone(d, s, {}, Left(d), Kept(d)), Reached(d, s, {}),
           \A H \in Possible(s, Len(s) + 1, {}, Left(d)) : Cleans(d, c, H, Kept(d)),
           "p_cdevs" \notin Left(d), d \in Opened => Left(d) \cap Node = {}
    PROVE  Written(d)
<1>1. Plans[d].in = s /\ Plans[d].exit = c /\ Plans[d].probe = <<>> /\ Plans[d].remove = <<>>
  BY DEF Plain, Life
<1>2. <<>> \in Seq(StepSet)
  BY EmptySeq
<1>3. Safe(d, s, {}, Left(d), "loading")
  BY <1>1 DEF Safe, Fine, Back
<1>4. QED
  BY <1>1, <1>2, <1>3 DEF Written

(* A module that is bound to a device; nobody can open what it makes       *)
(* before it is ready, or nothing is asked of it.                          *)
LEMMA ProbedIsWritten ==
    ASSUME NEW d, NEW s \in Seq(StepSet), NEW p \in Seq(StepSet), NEW r \in Seq(StepSet),
           NEW c \in Seq(StepSet), Plans[d] = Life(s, p, r, c), p # <<>>, d \notin Opened,
           Forward(d, s), Undone(d, s, {}, Left(d), Kept(d)),
           \A H \in Possible(s, Len(s) + 1, {}, Left(d)) : H \subseteq Loaded(d),
           \A H \in SUBSET Loaded(d) : Cleans(d, c, H, Kept(d)),
           Forward(d, p), Undone(d, p, {}, Loaded(d), Loaded(d)),
           \A H \in Possible(p, Len(p) + 1, {}, Loaded(d)) :
               Cleans(d, r \o c, H, Kept(d)) /\ Cleans(d, r, H, Loaded(d)),
           "p_cdevs" \notin Loaded(d)
    PROVE  Written(d)
<1>1. Plans[d].in = s /\ Plans[d].exit = c /\ Plans[d].probe = p /\ Plans[d].remove = r
  BY DEF Life
<1>2. \A H \in SUBSET Loaded(d) : Fine(d, H, "loading")
  BY <1>1 DEF Fine
<1>3. Safe(d, s, {}, Left(d), "loading")
  BY <1>1, <1>2 DEF Safe, Back, Reached
<1>4. Safe(d, p, {}, Loaded(d), "binding")
  BY <1>1 DEF Safe, Back, Reached, Fine
<1>5. "p_cdevs" \notin Left(d)
  BY DEF Loaded, Kept
<1>6. QED
  BY <1>1, <1>2, <1>3, <1>4, <1>5 DEF Written

(* Steps that give back what they name, and meet what they undo, clean up. *)
Returns(s, i, H) ==
    s[i].given \in {"always", s[i].res} \cup H /\ \A j \in 1 .. i - 1 : s[j].res # s[i].given
Proper(s, i, H) ==
    \/ s[i].given \notin H \cup {"always"}
    \/ s[i].res \in Exclusive
    \/ s[i].res \in H /\ \A j \in 1 .. i - 1 : s[j].res # s[i].res

LEMMA CleansWhen ==
    ASSUME NEW d, NEW s, NEW H, NEW keep,
           \A i \in DOMAIN s : s[i].op = "drop" /\ s[i].undo = <<>> /\ s[i].res \notin Inert,
           \A r \in H \ keep : \E i \in DOMAIN s : s[i].res = r /\ Returns(s, i, H),
           d \in Careful => \A i \in DOMAIN s : Proper(s, i, H)
    PROVE  Cleans(d, s, H, keep)
<1>1. \A r \in H \ keep : \E i \in DOMAIN s :
          /\ s[i].res = r /\ s[i].given \in {"always", r} \cup H
          /\ \A j \in 1 .. i - 1 : s[j].res # s[i].given
  BY DEF Returns
<1>2. QED
  BY <1>1 DEF Cleans, Proper

LEMMA OneDrop ==
    ASSUME NEW d, NEW r, NEW H, NEW keep, d \notin Careful, r \notin Inert, H \subseteq keep \cup {r}
    PROVE  Cleans(d, <<Drop(r)>>, H, keep)
<1> DEFINE u == <<Drop(r)>>
<1>1. DOMAIN u = 1 .. 1 /\ u[1].op = "drop" /\ u[1].undo = <<>> /\ u[1].res = r /\ u[1].given = "always"
  BY DEF Drop, Step
<1> HIDE DEF u
<1>2. Returns(u, 1, H)
  BY <1>1 DEF Returns
<1>3. Cleans(d, u, H, keep)
  BY <1>1, <1>2, CleansWhen
<1>4. QED
  BY <1>3 DEF u

(* scullp and scullv: a cleanup that looks at what there is.               *)
LEMMA ScullpIsWritten == ASSUME NEW d \in {"scullp", "scullv"} PROVE Written(d)
<1> DEFINE s == scullp_init_module  c == scullp_cleanup_module
<1>1. {"region", "devices", "sem", "cdevs"} \subseteq Resources
  BY DEF Resources
<1>2. /\ c \in Seq(StepSet) /\ Len(c) = 3 /\ DOMAIN c = 1 .. 3 /\ c \in Seq(Simple)
      /\ c[1] = Step("drop", "cdevs", <<>>, "devices")
      /\ c[2] = Step("drop", "devices", <<>>, "devices")
      /\ c[3] = Step("drop", "region", <<>>, "always")
  <2>1. {DropIf("cdevs", "devices"), DropIf("devices", "devices"),
                                            Drop("region")} \subseteq Simple
    BY <1>1, StepTypes
  <2> DEFINE k == scullp_cleanup_kept
  <2>2. /\ k \in Seq(Simple) /\ Len(k) = 2
        /\ k[1] = DropIf("cdevs", "devices") /\ k[2] = DropIf("devices", "devices")
    BY <2>1 DEF scullp_cleanup_kept
  <2> HIDE DEF k
  <2>3. /\ c \in Seq(Simple) /\ Len(c) = 3
        /\ c[1] = k[1] /\ c[2] = k[2] /\ c[3] = Drop("region")
    BY <2>1, <2>2, Added DEF scullp_cleanup_module, k
  <2>4. QED
    BY <2>2, <2>3, SmallSteps, LenProperties DEF DropIf, Drop, Given, Step
<1>3. /\ s \in Seq(StepSet) /\ Len(s) = 4 /\ DOMAIN s = 1 .. 4
      /\ s[1] = Step("must", "region", <<>>, "always")
      /\ s[2] = Step("must", "devices", c, "always")
      /\ s[3] = Step("get", "sem", <<>>, "always")
      /\ s[4] = Step("get", "cdevs", <<>>, "always")
  <2>1. {Must("region", <<>>), Must("devices", c), Get("sem")} \subseteq StepSet
    BY <1>1, <1>2, StepTypes, SmallSteps
  <2>2. {Get("cdevs")} \subseteq StepSet
    BY <1>1, <1>2, StepTypes, SmallSteps
  <2>3. s \in Seq(StepSet)
    BY <2>1, <2>2 DEF scullp_init_module
  <2>4. QED
    BY <2>3, SmallSteps DEF scullp_init_module, Must, Get, Opt, Blind, Uses, Given, Step
<1>4. Plans[d] = Plain(s, c)
  BY DEF Plans, scullv_init_module, scullv_cleanup_module
<1> HIDE DEF s, c
<1>5. Left(d) = {} /\ Kept(d) = {} \cup Inert
  BY DEF Left, Leftovers, Kept
<1>6. Forward(d, s)
  BY <1>3 DEF Forward, Acquires, Careful, Step, Inert
<1>7. /\ \A i \in DOMAIN c : c[i].op = "drop" /\ c[i].undo = <<>> /\ c[i].res \notin Inert
      /\ \A H : "devices" \in H => Returns(c, 1, H)
      /\ \A H : Returns(c, 2, H)
      /\ \A H : Returns(c, 3, H)
  <2>1. \A i \in DOMAIN c : c[i].op = "drop" /\ c[i].undo = <<>> /\ c[i].res \notin Inert
    BY <1>2 DEF Inert, Step
  <2>2. \A H : "devices" \in H => Returns(c, 1, H)
    BY <1>2 DEF Returns, Step
  <2>3. \A H : Returns(c, 2, H)
    BY <1>2 DEF Returns, Step
  <2>4. \A H : Returns(c, 3, H)
    BY <1>2 DEF Returns, Step
  <2>5. QED
    BY <2>1, <2>2, <2>3, <2>4
<1>8. ASSUME NEW H \in Possible(s, 1, {}, Left(d))
      PROVE  Cleans(d, s[1].undo, H, Kept(d))
  <2>1. Paired(H)
    BY <1>8, PossibleMeans
  <2>2. H \subseteq {}
    BY <1>8, <1>5, PossibleMeans
  <2>3. Paired(H)
    BY <1>8, PossibleMeans
  <2>4. QED
    BY <1>3, <1>5, <2>1, <2>2 DEF Cleans, Inert, Exclusive, Drop, DropIf, Given, Step
<1>9. ASSUME NEW H \in Possible(s, 2, {}, Left(d))
      PROVE  Cleans(d, s[2].undo, H, Kept(d))
  <2>1. {"region"} \subseteq H
    <3>1. \A j \in {1} : s[j].op \in {"get", "must"} /\ s[j].given = "always"
      BY <1>3 DEF Step
    <3>2. s[1].res = "region"
      BY <1>3 DEF Step
    <3>3. \A j \in {1} : s[j].res # "p_region"
      BY <3>2
    <3>4. QED
      BY <3>1, <3>2, <3>3, <1>9, PossibleMeans
  <2>2. H \subseteq {"region"}
    <3>1. \A j \in 1 .. 1 : s[j].op \in Acquires => s[j].res \in {"region"}
      BY <1>3 DEF Acquires, Step
    <3>2. QED
      BY <3>1, <1>9, <1>5, PossibleMeans
  <2>3. Paired(H)
    BY <1>9, PossibleMeans
  <2>4. s[2].undo = c
    BY <1>3 DEF Step
  <2>5. \A x \in H \ Kept(d) : \E i \in DOMAIN c : c[i].res = x /\ Returns(c, i, H)
    BY <1>2, <1>7, <1>5, <2>1, <2>2, <2>3 DEF Inert, Paired, Step
  <2>6. d \in Careful => \A i \in DOMAIN c : Proper(c, i, H)
    BY <1>2, <2>1, <2>2, <2>3 DEF Proper, Exclusive, Step
  <2>7. QED
    BY <2>4, <1>7, <2>5, <2>6, CleansWhen
<1>10. Undone(d, s, {}, Left(d), Kept(d))
  <2>1. SUFFICES ASSUME NEW i \in 1 .. 4, s[i].op = "must",
                        NEW H \in Possible(s, i, {}, Left(d))
                 PROVE  Cleans(d, s[i].undo, H, Kept(d))
    BY <1>3 DEF Undone
  <2>2. i \in {1, 2}
    BY <1>3, <2>1 DEF Step
  <2>3. QED
    BY <1>8, <1>9, <2>1, <2>2
<1>11. ASSUME NEW H \in Possible(s, 5, {}, Left(d))
      PROVE  Cleans(d, c, H, Kept(d))
  <2>1. {"region", "devices", "sem", "cdevs"} \subseteq H
    <3>1. \A j \in {1, 2, 3, 4} : s[j].op \in {"get", "must"} /\ s[j].given = "always"
      BY <1>3 DEF Step
    <3>2. s[1].res = "region" /\ s[2].res = "devices" /\ s[3].res = "sem" /\ s[4].res = "cdevs"
      BY <1>3 DEF Step
    <3>3. \A j \in {1, 2, 3, 4} : s[j].res # "p_region"
      BY <3>2
    <3>4. QED
      BY <3>1, <3>2, <3>3, <1>11, PossibleMeans
  <2>2. H \subseteq {"region", "devices", "sem", "cdevs"}
    <3>1. \A j \in 1 .. 4 : s[j].op \in Acquires =>
              s[j].res \in {"region", "devices", "sem", "cdevs"}
      BY <1>3 DEF Acquires, Step
    <3>2. QED
      BY <3>1, <1>11, <1>5, PossibleMeans
  <2>3. Paired(H)
    BY <1>11, PossibleMeans
  <2>4. \A x \in H \ Kept(d) : \E i \in DOMAIN c : c[i].res = x /\ Returns(c, i, H)
    BY <1>2, <1>7, <1>5, <2>1, <2>2, <2>3 DEF Inert, Paired, Step
  <2>5. d \in Careful => \A i \in DOMAIN c : Proper(c, i, H)
    BY <1>2, <2>1, <2>2, <2>3 DEF Proper, Exclusive, Step
  <2>6. QED
    BY <1>7, <2>4, <2>5, CleansWhen
<1>12. Reached(d, s, {})
  <2>1. SUFFICES ASSUME NEW i \in 1 .. 4, s[i].op \in Acquires, s[i].res \in Node
                 PROVE  /\ Devs \subseteq Sure(s, i, {}) \cup {s[i].res}
                        /\ \A m \in i + 1 .. Len(s) : s[m].op # "must"
    BY <1>3 DEF Reached
  <2>2. i \in {4}
    BY <1>3, <2>1 DEF Node, Step
  <2>3. {"devices", "sem"} \subseteq Sure(s, 4, {})
    <3>1. \A j \in {2, 3} : s[j].op \in {"get", "must"} /\ s[j].given = "always"
      BY <1>3 DEF Step
    <3>2. s[2].res = "devices" /\ s[3].res = "sem"
      BY <1>3 DEF Step
    <3>3. \A j \in {2, 3} : s[j].res # "p_region" /\ j \in 1 .. 4 - 1
      BY <3>2
    <3>4. QED
      BY <3>1, <3>2, <3>3, SureMeans
  <2>4. \A m \in 3 .. 4 : s[m].op # "must"
    BY <1>3 DEF Step
  <2>5. QED
    BY <1>3, <2>2, <2>3, <2>4 DEF Devs, Step
<1>13. Len(s) + 1 = 5 /\ "p_cdevs" \notin Left(d) /\ Left(d) \cap Node = {}
  BY <1>3, <1>5 DEF Node
<1>14. QED
  BY <1>2, <1>3, <1>4, <1>5, <1>6, <1>11, <1>10, <1>12, <1>13, PlainIsWritten

(* scullc: the cache comes last.                                           *)
LEMMA ScullcIsWritten == Written("scullc")
<1> DEFINE s == scullc_init_module  c == scullc_cleanup_module
<1>1. {"region", "devices", "sem", "cdevs", "cache"} \subseteq Resources
  BY DEF Resources
<1>2. /\ c \in Seq(StepSet) /\ Len(c) = 4 /\ DOMAIN c = 1 .. 4 /\ c \in Seq(Simple)
      /\ c[1] = Step("drop", "cdevs", <<>>, "devices")
      /\ c[2] = Step("drop", "devices", <<>>, "devices")
      /\ c[3] = Step("drop", "cache", <<>>, "cache")
      /\ c[4] = Step("drop", "region", <<>>, "always")
  <2>1. {DropIf("cdevs", "devices"), DropIf("devices", "devices"),
           DropIf("cache", "cache")} \subseteq Simple
    BY <1>1, StepTypes
  <2>2. {Drop("region")} \subseteq Simple
    BY <1>1, StepTypes
  <2>3. c \in Seq(Simple)
    BY <2>1, <2>2 DEF scullc_cleanup_module
  <2>4. QED
    BY <2>3, SmallSteps DEF scullc_cleanup_module, DropIf, Drop, Given, Step
<1>3. /\ s \in Seq(StepSet) /\ Len(s) = 5 /\ DOMAIN s = 1 .. 5
      /\ s[1] = Step("must", "region", <<>>, "always")
      /\ s[2] = Step("must", "devices", c, "always")
      /\ s[3] = Step("get", "sem", <<>>, "always")
      /\ s[4] = Step("get", "cdevs", <<>>, "always")
      /\ s[5] = Step("must", "cache", c, "always")
  <2>1. {Must("region", <<>>), Must("devices", c), Get("sem")} \subseteq StepSet
    BY <1>1, <1>2, StepTypes, SmallSteps
  <2>2. {Get("cdevs"), Must("cache", c)} \subseteq StepSet
    BY <1>1, <1>2, StepTypes, SmallSteps
  <2>3. s \in Seq(StepSet)
    BY <2>1, <2>2 DEF scullc_init_module
  <2>4. QED
    BY <2>3, SmallSteps DEF scullc_init_module, Must, Get, Opt, Blind, Uses, Given, Step
<1>4. Plans["scullc"] = Plain(s, c)
  BY DEF Plans
<1> HIDE DEF s, c
<1>5. Left("scullc") = {} /\ Kept("scullc") = {} \cup Inert
  BY DEF Left, Leftovers, Kept
<1>6. Forward("scullc", s)
  BY <1>3 DEF Forward, Acquires, Careful, Step, Inert
<1>7. /\ \A i \in DOMAIN c : c[i].op = "drop" /\ c[i].undo = <<>> /\ c[i].res \notin Inert
      /\ \A H : "devices" \in H => Returns(c, 1, H)
      /\ \A H : Returns(c, 2, H)
      /\ \A H : Returns(c, 3, H)
      /\ \A H : Returns(c, 4, H)
  <2>1. \A i \in DOMAIN c : c[i].op = "drop" /\ c[i].undo = <<>> /\ c[i].res \notin Inert
    BY <1>2 DEF Inert, Step
  <2>2. \A H : "devices" \in H => Returns(c, 1, H)
    BY <1>2 DEF Returns, Step
  <2>3. \A H : Returns(c, 2, H)
    BY <1>2 DEF Returns, Step
  <2>4. \A H : Returns(c, 3, H)
    BY <1>2 DEF Returns, Step
  <2>5. \A H : Returns(c, 4, H)
    BY <1>2 DEF Returns, Step
  <2>6. QED
    BY <2>1, <2>2, <2>3, <2>4, <2>5
<1>8. ASSUME NEW H \in Possible(s, 1, {}, Left("scullc"))
      PROVE  Cleans("scullc", s[1].undo, H, Kept("scullc"))
  <2>1. Paired(H)
    BY <1>8, PossibleMeans
  <2>2. H \subseteq {}
    BY <1>8, <1>5, PossibleMeans
  <2>3. Paired(H)
    BY <1>8, PossibleMeans
  <2>4. QED
    BY <1>3, <1>5, <2>1, <2>2 DEF Cleans, Inert, Exclusive, Drop, DropIf, Given, Step
<1>9. ASSUME NEW H \in Possible(s, 2, {}, Left("scullc"))
      PROVE  Cleans("scullc", s[2].undo, H, Kept("scullc"))
  <2>1. {"region"} \subseteq H
    <3>1. \A j \in {1} : s[j].op \in {"get", "must"} /\ s[j].given = "always"
      BY <1>3 DEF Step
    <3>2. s[1].res = "region"
      BY <1>3 DEF Step
    <3>3. \A j \in {1} : s[j].res # "p_region"
      BY <3>2
    <3>4. QED
      BY <3>1, <3>2, <3>3, <1>9, PossibleMeans
  <2>2. H \subseteq {"region"}
    <3>1. \A j \in 1 .. 1 : s[j].op \in Acquires => s[j].res \in {"region"}
      BY <1>3 DEF Acquires, Step
    <3>2. QED
      BY <3>1, <1>9, <1>5, PossibleMeans
  <2>3. Paired(H)
    BY <1>9, PossibleMeans
  <2>4. s[2].undo = c
    BY <1>3 DEF Step
  <2>5. \A x \in H \ Kept("scullc") : \E i \in DOMAIN c : c[i].res = x /\ Returns(c, i, H)
    BY <1>2, <1>7, <1>5, <2>1, <2>2, <2>3 DEF Inert, Paired, Step
  <2>6. "scullc" \in Careful => \A i \in DOMAIN c : Proper(c, i, H)
    BY <1>2, <2>1, <2>2, <2>3 DEF Proper, Exclusive, Step
  <2>7. QED
    BY <2>4, <1>7, <2>5, <2>6, CleansWhen
<1>10. ASSUME NEW H \in Possible(s, 5, {}, Left("scullc"))
      PROVE  Cleans("scullc", s[5].undo, H, Kept("scullc"))
  <2>1. {"region", "devices", "sem", "cdevs"} \subseteq H
    <3>1. \A j \in {1, 2, 3, 4} : s[j].op \in {"get", "must"} /\ s[j].given = "always"
      BY <1>3 DEF Step
    <3>2. s[1].res = "region" /\ s[2].res = "devices" /\ s[3].res = "sem" /\ s[4].res = "cdevs"
      BY <1>3 DEF Step
    <3>3. \A j \in {1, 2, 3, 4} : s[j].res # "p_region"
      BY <3>2
    <3>4. QED
      BY <3>1, <3>2, <3>3, <1>10, PossibleMeans
  <2>2. H \subseteq {"region", "devices", "sem", "cdevs"}
    <3>1. \A j \in 1 .. 4 : s[j].op \in Acquires =>
              s[j].res \in {"region", "devices", "sem", "cdevs"}
      BY <1>3 DEF Acquires, Step
    <3>2. QED
      BY <3>1, <1>10, <1>5, PossibleMeans
  <2>3. Paired(H)
    BY <1>10, PossibleMeans
  <2>4. s[5].undo = c
    BY <1>3 DEF Step
  <2>5. \A x \in H \ Kept("scullc") : \E i \in DOMAIN c : c[i].res = x /\ Returns(c, i, H)
    BY <1>2, <1>7, <1>5, <2>1, <2>2, <2>3 DEF Inert, Paired, Step
  <2>6. "scullc" \in Careful => \A i \in DOMAIN c : Proper(c, i, H)
    BY <1>2, <2>1, <2>2, <2>3 DEF Proper, Exclusive, Step
  <2>7. QED
    BY <2>4, <1>7, <2>5, <2>6, CleansWhen
<1>11. Undone("scullc", s, {}, Left("scullc"), Kept("scullc"))
  <2>1. SUFFICES ASSUME NEW i \in 1 .. 5, s[i].op = "must",
                        NEW H \in Possible(s, i, {}, Left("scullc"))
                 PROVE  Cleans("scullc", s[i].undo, H, Kept("scullc"))
    BY <1>3 DEF Undone
  <2>2. i \in {1, 2, 5}
    BY <1>3, <2>1 DEF Step
  <2>3. QED
    BY <1>8, <1>9, <1>10, <2>1, <2>2
<1>12. ASSUME NEW H \in Possible(s, 6, {}, Left("scullc"))
      PROVE  Cleans("scullc", c, H, Kept("scullc"))
  <2>1. {"region", "devices", "sem", "cdevs", "cache"} \subseteq H
    <3>1. \A j \in {1, 2, 3, 4, 5} : s[j].op \in {"get", "must"} /\ s[j].given = "always"
      BY <1>3 DEF Step
    <3>2. s[1].res = "region" /\ s[2].res = "devices" /\ s[3].res = "sem" /\ s[4].res = "cdevs"
          /\ s[5].res = "cache"
      BY <1>3 DEF Step
    <3>3. \A j \in {1, 2, 3, 4, 5} : s[j].res # "p_region"
      BY <3>2
    <3>4. QED
      BY <3>1, <3>2, <3>3, <1>12, PossibleMeans
  <2>2. H \subseteq {"region", "devices", "sem", "cdevs", "cache"}
    <3>1. \A j \in 1 .. 5 : s[j].op \in Acquires =>
              s[j].res \in {"region", "devices", "sem", "cdevs", "cache"}
      BY <1>3 DEF Acquires, Step
    <3>2. QED
      BY <3>1, <1>12, <1>5, PossibleMeans
  <2>3. Paired(H)
    BY <1>12, PossibleMeans
  <2>4. \A x \in H \ Kept("scullc") : \E i \in DOMAIN c : c[i].res = x /\ Returns(c, i, H)
    BY <1>2, <1>7, <1>5, <2>1, <2>2, <2>3 DEF Inert, Paired, Step
  <2>5. "scullc" \in Careful => \A i \in DOMAIN c : Proper(c, i, H)
    BY <1>2, <2>1, <2>2, <2>3 DEF Proper, Exclusive, Step
  <2>6. QED
    BY <1>7, <2>4, <2>5, CleansWhen
<1>13. Reached("scullc", s, {})
  BY DEF Reached, Opened
<1>14. Len(s) + 1 = 6 /\ "p_cdevs" \notin Left("scullc") /\ Left("scullc") \cap Node = {}
  BY <1>3, <1>5 DEF Node
<1>15. QED
  BY <1>2, <1>3, <1>4, <1>5, <1>6, <1>12, <1>11, <1>13, <1>14, PlainIsWritten

(* lddbus: nothing undoes the bus when ldd0 fails.                         *)
LEMMA LddbusIsWritten == Written("lddbus")
<1> DEFINE s == ldd_bus_init  c == ldd_bus_exit
<1>1. {"bus", "busfile", "ldd0"} \subseteq Resources
  BY DEF Resources
<1>2. /\ c \in Seq(StepSet) /\ Len(c) = 3 /\ DOMAIN c = 1 .. 3 /\ c \in Seq(Simple)
      /\ c[1] = Step("drop", "ldd0", <<>>, "always")
      /\ c[2] = Step("drop", "busfile", <<>>, "busfile")
      /\ c[3] = Step("drop", "bus", <<>>, "always")
  <2>1. {Drop("ldd0"), DropIf("busfile", "busfile"), Drop("bus")} \subseteq Simple
    BY <1>1, StepTypes
  <2>2. c \in Seq(Simple)
    BY <2>1 DEF ldd_bus_exit
  <2>3. QED
    BY <2>2, SmallSteps DEF ldd_bus_exit, DropIf, Drop, Given, Step
<1>3. /\ s \in Seq(StepSet) /\ Len(s) = 3 /\ DOMAIN s = 1 .. 3
      /\ s[1] = Step("must", "bus", <<>>, "always")
      /\ s[2] = Step("opt", "busfile", <<>>, "always")
      /\ s[3] = Step("must", "ldd0", <<>>, "always")
  <2>1. {Must("bus", <<>>), Opt("busfile"), Must("ldd0", <<>>)} \subseteq StepSet
    BY <1>1, <1>2, StepTypes, SmallSteps
  <2>2. s \in Seq(StepSet)
    BY <2>1 DEF ldd_bus_init
  <2>3. QED
    BY <2>2, SmallSteps DEF ldd_bus_init, Must, Get, Opt, Blind, Uses, Given, Step
<1>4. Plans["lddbus"] = Plain(s, c)
  BY DEF Plans
<1> HIDE DEF s, c
<1>5. Left("lddbus") = {"bus", "busfile"} /\ Kept("lddbus") = {"bus", "busfile"} \cup Inert
  BY DEF Left, Leftovers, Kept
<1>6. Forward("lddbus", s)
  BY <1>3 DEF Forward, Acquires, Careful, Step, Inert
<1>7. /\ \A i \in DOMAIN c : c[i].op = "drop" /\ c[i].undo = <<>> /\ c[i].res \notin Inert
      /\ \A H : Returns(c, 1, H)
      /\ \A H : Returns(c, 2, H)
      /\ \A H : Returns(c, 3, H)
  <2>1. \A i \in DOMAIN c : c[i].op = "drop" /\ c[i].undo = <<>> /\ c[i].res \notin Inert
    BY <1>2 DEF Inert, Step
  <2>2. \A H : Returns(c, 1, H)
    BY <1>2 DEF Returns, Step
  <2>3. \A H : Returns(c, 2, H)
    BY <1>2 DEF Returns, Step
  <2>4. \A H : Returns(c, 3, H)
    BY <1>2 DEF Returns, Step
  <2>5. QED
    BY <2>1, <2>2, <2>3, <2>4
<1>8. ASSUME NEW H \in Possible(s, 1, {}, Left("lddbus"))
      PROVE  Cleans("lddbus", s[1].undo, H, Kept("lddbus"))
  <2>1. Paired(H)
    BY <1>8, PossibleMeans
  <2>2. H \subseteq {"bus", "busfile"}
    BY <1>8, <1>5, PossibleMeans
  <2>3. Paired(H)
    BY <1>8, PossibleMeans
  <2>4. QED
    BY <1>3, <1>5, <2>1, <2>2 DEF Cleans, Inert, Exclusive, Drop, DropIf, Given, Step
<1>9. ASSUME NEW H \in Possible(s, 3, {}, Left("lddbus"))
      PROVE  Cleans("lddbus", s[3].undo, H, Kept("lddbus"))
  <2>1. {"bus"} \subseteq H
    <3>1. \A j \in {1} : s[j].op \in {"get", "must"} /\ s[j].given = "always"
      BY <1>3 DEF Step
    <3>2. s[1].res = "bus"
      BY <1>3 DEF Step
    <3>3. \A j \in {1} : s[j].res # "p_region"
      BY <3>2
    <3>4. QED
      BY <3>1, <3>2, <3>3, <1>9, PossibleMeans
  <2>2. H \subseteq {"bus", "busfile"}
    <3>1. \A j \in 1 .. 2 : s[j].op \in Acquires => s[j].res \in {"bus", "busfile"}
      BY <1>3 DEF Acquires, Step
    <3>2. QED
      BY <3>1, <1>9, <1>5, PossibleMeans
  <2>3. Paired(H)
    BY <1>9, PossibleMeans
  <2>4. QED
    BY <1>3, <1>5, <2>1, <2>2 DEF Cleans, Inert, Exclusive, Drop, DropIf, Given, Step
<1>10. Undone("lddbus", s, {}, Left("lddbus"), Kept("lddbus"))
  <2>1. SUFFICES ASSUME NEW i \in 1 .. 3, s[i].op = "must",
                        NEW H \in Possible(s, i, {}, Left("lddbus"))
                 PROVE  Cleans("lddbus", s[i].undo, H, Kept("lddbus"))
    BY <1>3 DEF Undone
  <2>2. i \in {1, 3}
    BY <1>3, <2>1 DEF Step
  <2>3. QED
    BY <1>8, <1>9, <2>1, <2>2
<1>11. ASSUME NEW H \in Possible(s, 4, {}, Left("lddbus"))
      PROVE  Cleans("lddbus", c, H, Kept("lddbus"))
  <2>1. {"bus", "ldd0"} \subseteq H
    <3>1. \A j \in {1, 3} : s[j].op \in {"get", "must"} /\ s[j].given = "always"
      BY <1>3 DEF Step
    <3>2. s[1].res = "bus" /\ s[3].res = "ldd0"
      BY <1>3 DEF Step
    <3>3. \A j \in {1, 3} : s[j].res # "p_region"
      BY <3>2
    <3>4. QED
      BY <3>1, <3>2, <3>3, <1>11, PossibleMeans
  <2>2. H \subseteq {"bus", "busfile", "ldd0"}
    <3>1. \A j \in 1 .. 3 : s[j].op \in Acquires => s[j].res \in {"bus", "busfile", "ldd0"}
      BY <1>3 DEF Acquires, Step
    <3>2. QED
      BY <3>1, <1>11, <1>5, PossibleMeans
  <2>3. Paired(H)
    BY <1>11, PossibleMeans
  <2>4. \A x \in H \ Kept("lddbus") : \E i \in DOMAIN c : c[i].res = x /\ Returns(c, i, H)
    BY <1>2, <1>7, <1>5, <2>1, <2>2, <2>3 DEF Inert, Paired, Step
  <2>5. "lddbus" \in Careful => \A i \in DOMAIN c : Proper(c, i, H)
    BY <1>2, <2>1, <2>2, <2>3 DEF Proper, Exclusive, Step
  <2>6. QED
    BY <1>7, <2>4, <2>5, CleansWhen
<1>12. Reached("lddbus", s, {})
  BY DEF Reached, Opened
<1>13. Len(s) + 1 = 4 /\ "p_cdevs" \notin Left("lddbus") /\ Left("lddbus") \cap Node = {}
  BY <1>3, <1>5 DEF Node
<1>14. QED
  BY <1>2, <1>3, <1>4, <1>5, <1>6, <1>11, <1>10, <1>12, <1>13, PlainIsWritten

(* shortprint.                                                             *)
LEMMA ShortPrintIsWritten == Written("shortprint")
<1> DEFINE s == shortp_init  c == shortp_cleanup
<1>1. {"ports", "chrdev", "in_page", "out_page", "sem", "workqueue", "irq"} \subseteq Resources
  BY DEF Resources
<1>2. /\ c \in Seq(StepSet) /\ Len(c) = 6 /\ DOMAIN c = 1 .. 6 /\ c \in Seq(Simple)
      /\ c[1] = Step("drop", "irq", <<>>, "irq")
      /\ c[2] = Step("drop", "chrdev", <<>>, "always")
      /\ c[3] = Step("drop", "ports", <<>>, "always")
      /\ c[4] = Step("drop", "workqueue", <<>>, "always")
      /\ c[5] = Step("drop", "in_page", <<>>, "in_page")
      /\ c[6] = Step("drop", "out_page", <<>>, "out_page")
  <2>1. {DropIf("irq", "irq"), Drop("chrdev"), Drop("ports")} \subseteq Simple
    BY <1>1, StepTypes
  <2>2. {Drop("workqueue"), DropIf("in_page", "in_page"),
           DropIf("out_page", "out_page")} \subseteq Simple
    BY <1>1, StepTypes
  <2>3. c \in Seq(Simple)
    BY <2>1, <2>2 DEF shortp_cleanup
  <2>4. QED
    BY <2>3, SmallSteps DEF shortp_cleanup, DropIf, Drop, Given, Step
<1>3. /\ s \in Seq(StepSet) /\ Len(s) = 7 /\ DOMAIN s = 1 .. 7
      /\ s[1] = Step("must", "ports", <<>>, "always")
      /\ s[2] = Step("must", "chrdev", <<Drop("ports")>>, "always")
      /\ s[3] = Step("opt", "in_page", <<>>, "always")
      /\ s[4] = Step("opt", "out_page", <<>>, "always")
      /\ s[5] = Step("get", "sem", <<>>, "always")
      /\ s[6] = Step("opt", "workqueue", <<>>, "always")
      /\ s[7] = Step("must", "irq", c, "always")
  <2>1. {Must("ports", <<>>), Must("chrdev", <<Drop("ports")>>), Opt("in_page")} \subseteq StepSet
    BY <1>1, <1>2, StepTypes, SmallSteps
  <2>2. {Opt("out_page"), Get("sem"), Opt("workqueue")} \subseteq StepSet
    BY <1>1, <1>2, StepTypes, SmallSteps
  <2>3. {Must("irq", c)} \subseteq StepSet
    BY <1>1, <1>2, StepTypes, SmallSteps
  <2>4. s \in Seq(StepSet)
    BY <2>1, <2>2, <2>3 DEF shortp_init
  <2>5. QED
    BY <2>4, SmallSteps DEF shortp_init, Must, Get, Opt, Blind, Uses, Given, Step
<1>4. Plans["shortprint"] = Plain(s, c)
  BY DEF Plans
<1> HIDE DEF s, c
<1>5. Left("shortprint") = {} /\ Kept("shortprint") = {} \cup Inert
  BY DEF Left, Leftovers, Kept
<1>6. Forward("shortprint", s)
  BY <1>3 DEF Forward, Acquires, Careful, Step, Inert
<1>7. /\ \A i \in DOMAIN c : c[i].op = "drop" /\ c[i].undo = <<>> /\ c[i].res \notin Inert
      /\ \A H : Returns(c, 1, H)
      /\ \A H : Returns(c, 2, H)
      /\ \A H : Returns(c, 3, H)
      /\ \A H : Returns(c, 4, H)
      /\ \A H : Returns(c, 5, H)
      /\ \A H : Returns(c, 6, H)
  <2>1. \A i \in DOMAIN c : c[i].op = "drop" /\ c[i].undo = <<>> /\ c[i].res \notin Inert
    BY <1>2 DEF Inert, Step
  <2>2. \A H : Returns(c, 1, H)
    BY <1>2 DEF Returns, Step
  <2>3. \A H : Returns(c, 2, H)
    BY <1>2 DEF Returns, Step
  <2>4. \A H : Returns(c, 3, H)
    BY <1>2 DEF Returns, Step
  <2>5. \A H : Returns(c, 4, H)
    BY <1>2 DEF Returns, Step
  <2>6. \A H : Returns(c, 5, H)
    BY <1>2 DEF Returns, Step
  <2>7. \A H : Returns(c, 6, H)
    BY <1>2 DEF Returns, Step
  <2>8. QED
    BY <2>1, <2>2, <2>3, <2>4, <2>5, <2>6, <2>7
<1>8. ASSUME NEW H \in Possible(s, 1, {}, Left("shortprint"))
      PROVE  Cleans("shortprint", s[1].undo, H, Kept("shortprint"))
  <2>1. Paired(H)
    BY <1>8, PossibleMeans
  <2>2. H \subseteq {}
    BY <1>8, <1>5, PossibleMeans
  <2>3. Paired(H)
    BY <1>8, PossibleMeans
  <2>4. QED
    BY <1>3, <1>5, <2>1, <2>2 DEF Cleans, Inert, Exclusive, Drop, DropIf, Given, Step
<1>9. ASSUME NEW H \in Possible(s, 2, {}, Left("shortprint"))
      PROVE  Cleans("shortprint", s[2].undo, H, Kept("shortprint"))
  <2>1. {"ports"} \subseteq H
    <3>1. \A j \in {1} : s[j].op \in {"get", "must"} /\ s[j].given = "always"
      BY <1>3 DEF Step
    <3>2. s[1].res = "ports"
      BY <1>3 DEF Step
    <3>3. \A j \in {1} : s[j].res # "p_region"
      BY <3>2
    <3>4. QED
      BY <3>1, <3>2, <3>3, <1>9, PossibleMeans
  <2>2. H \subseteq {"ports"}
    <3>1. \A j \in 1 .. 1 : s[j].op \in Acquires => s[j].res \in {"ports"}
      BY <1>3 DEF Acquires, Step
    <3>2. QED
      BY <3>1, <1>9, <1>5, PossibleMeans
  <2>3. Paired(H)
    BY <1>9, PossibleMeans
  <2>4. s[2].undo = <<Drop("ports")>> /\ "shortprint" \notin Careful
    BY <1>3 DEF Step, Careful
  <2>5. H \subseteq Kept("shortprint") \cup {"ports"} /\ "ports" \notin Inert
    BY <2>2, <1>5 DEF Inert
  <2>6. QED
    BY <2>4, <2>5, OneDrop
<1>10. ASSUME NEW H \in Possible(s, 7, {}, Left("shortprint"))
      PROVE  Cleans("shortprint", s[7].undo, H, Kept("shortprint"))
  <2>1. {"ports", "chrdev", "sem"} \subseteq H
    <3>1. \A j \in {1, 2, 5} : s[j].op \in {"get", "must"} /\ s[j].given = "always"
      BY <1>3 DEF Step
    <3>2. s[1].res = "ports" /\ s[2].res = "chrdev" /\ s[5].res = "sem"
      BY <1>3 DEF Step
    <3>3. \A j \in {1, 2, 5} : s[j].res # "p_region"
      BY <3>2
    <3>4. QED
      BY <3>1, <3>2, <3>3, <1>10, PossibleMeans
  <2>2. H \subseteq {"ports", "chrdev", "in_page", "out_page", "sem", "workqueue"}
    <3>1. \A j \in 1 .. 6 : s[j].op \in Acquires =>
              s[j].res \in {"ports", "chrdev", "in_page", "out_page", "sem", "workqueue"}
      BY <1>3 DEF Acquires, Step
    <3>2. QED
      BY <3>1, <1>10, <1>5, PossibleMeans
  <2>3. Paired(H)
    BY <1>10, PossibleMeans
  <2>4. s[7].undo = c
    BY <1>3 DEF Step
  <2>5. \A x \in H \ Kept("shortprint") : \E i \in DOMAIN c : c[i].res = x /\ Returns(c, i, H)
    BY <1>2, <1>7, <1>5, <2>1, <2>2, <2>3 DEF Inert, Paired, Step
  <2>6. "shortprint" \in Careful => \A i \in DOMAIN c : Proper(c, i, H)
    BY DEF Careful
  <2>7. QED
    BY <2>4, <1>7, <2>5, <2>6, CleansWhen
<1>11. Undone("shortprint", s, {}, Left("shortprint"), Kept("shortprint"))
  <2>1. SUFFICES ASSUME NEW i \in 1 .. 7, s[i].op = "must",
                        NEW H \in Possible(s, i, {}, Left("shortprint"))
                 PROVE  Cleans("shortprint", s[i].undo, H, Kept("shortprint"))
    BY <1>3 DEF Undone
  <2>2. i \in {1, 2, 7}
    BY <1>3, <2>1 DEF Step
  <2>3. QED
    BY <1>8, <1>9, <1>10, <2>1, <2>2
<1>12. ASSUME NEW H \in Possible(s, 8, {}, Left("shortprint"))
      PROVE  Cleans("shortprint", c, H, Kept("shortprint"))
  <2>1. {"ports", "chrdev", "sem", "irq"} \subseteq H
    <3>1. \A j \in {1, 2, 5, 7} : s[j].op \in {"get", "must"} /\ s[j].given = "always"
      BY <1>3 DEF Step
    <3>2. s[1].res = "ports" /\ s[2].res = "chrdev" /\ s[5].res = "sem" /\ s[7].res = "irq"
      BY <1>3 DEF Step
    <3>3. \A j \in {1, 2, 5, 7} : s[j].res # "p_region"
      BY <3>2
    <3>4. QED
      BY <3>1, <3>2, <3>3, <1>12, PossibleMeans
  <2>2. H \subseteq {"ports", "chrdev", "in_page", "out_page", "sem", "workqueue", "irq"}
    <3>1. \A j \in 1 .. 7 : s[j].op \in Acquires =>
              s[j].res \in {"ports", "chrdev", "in_page", "out_page", "sem", "workqueue", "irq"}
      BY <1>3 DEF Acquires, Step
    <3>2. QED
      BY <3>1, <1>12, <1>5, PossibleMeans
  <2>3. Paired(H)
    BY <1>12, PossibleMeans
  <2>4. \A x \in H \ Kept("shortprint") : \E i \in DOMAIN c : c[i].res = x /\ Returns(c, i, H)
    BY <1>2, <1>7, <1>5, <2>1, <2>2, <2>3 DEF Inert, Paired, Step
  <2>5. "shortprint" \in Careful => \A i \in DOMAIN c : Proper(c, i, H)
    BY DEF Careful
  <2>6. QED
    BY <1>7, <2>4, <2>5, CleansWhen
<1>13. Reached("shortprint", s, {})
  BY DEF Reached, Opened
<1>14. Len(s) + 1 = 8 /\ "p_cdevs" \notin Left("shortprint") /\ Left("shortprint") \cap Node = {}
  BY <1>3, <1>5 DEF Node
<1>15. QED
  BY <1>2, <1>3, <1>4, <1>5, <1>6, <1>12, <1>11, <1>13, <1>14, PlainIsWritten

(* jiq and jit: files of /proc.                                            *)
LEMMA JiqIsWritten == ASSUME NEW d \in {"jiq", "jit"} PROVE Written(d)
<1> DEFINE s == jiq_init  c == jiq_exit
<1>1. {"proc", "proc2", "proc3", "proc4"} \subseteq Resources
  BY DEF Resources
<1>2. /\ c \in Seq(StepSet) /\ Len(c) = 4 /\ DOMAIN c = 1 .. 4 /\ c \in Seq(Simple)
      /\ c[1] = Step("drop", "proc", <<>>, "always")
      /\ c[2] = Step("drop", "proc2", <<>>, "always")
      /\ c[3] = Step("drop", "proc3", <<>>, "always")
      /\ c[4] = Step("drop", "proc4", <<>>, "always")
  <2>1. {Drop("proc"), Drop("proc2"), Drop("proc3")} \subseteq Simple
    BY <1>1, StepTypes
  <2>2. {Drop("proc4")} \subseteq Simple
    BY <1>1, StepTypes
  <2>3. c \in Seq(Simple)
    BY <2>1, <2>2 DEF jiq_exit
  <2>4. QED
    BY <2>3, SmallSteps DEF jiq_exit, DropIf, Drop, Given, Step
<1>3. /\ s \in Seq(StepSet) /\ Len(s) = 4 /\ DOMAIN s = 1 .. 4
      /\ s[1] = Step("opt", "proc", <<>>, "always")
      /\ s[2] = Step("opt", "proc2", <<>>, "always")
      /\ s[3] = Step("opt", "proc3", <<>>, "always")
      /\ s[4] = Step("opt", "proc4", <<>>, "always")
  <2>1. {Opt("proc"), Opt("proc2"), Opt("proc3")} \subseteq StepSet
    BY <1>1, <1>2, StepTypes, SmallSteps
  <2>2. {Opt("proc4")} \subseteq StepSet
    BY <1>1, <1>2, StepTypes, SmallSteps
  <2>3. s \in Seq(StepSet)
    BY <2>1, <2>2 DEF jiq_init
  <2>4. QED
    BY <2>3, SmallSteps DEF jiq_init, Must, Get, Opt, Blind, Uses, Given, Step
<1>4. Plans[d] = Plain(s, c)
  BY DEF Plans, jit_init, jit_exit
<1> HIDE DEF s, c
<1>5. Left(d) = {} /\ Kept(d) = {} \cup Inert
  BY DEF Left, Leftovers, Kept
<1>6. Forward(d, s)
  BY <1>3 DEF Forward, Acquires, Careful, Step, Inert
<1>7. /\ \A i \in DOMAIN c : c[i].op = "drop" /\ c[i].undo = <<>> /\ c[i].res \notin Inert
      /\ \A H : Returns(c, 1, H)
      /\ \A H : Returns(c, 2, H)
      /\ \A H : Returns(c, 3, H)
      /\ \A H : Returns(c, 4, H)
  <2>1. \A i \in DOMAIN c : c[i].op = "drop" /\ c[i].undo = <<>> /\ c[i].res \notin Inert
    BY <1>2 DEF Inert, Step
  <2>2. \A H : Returns(c, 1, H)
    BY <1>2 DEF Returns, Step
  <2>3. \A H : Returns(c, 2, H)
    BY <1>2 DEF Returns, Step
  <2>4. \A H : Returns(c, 3, H)
    BY <1>2 DEF Returns, Step
  <2>5. \A H : Returns(c, 4, H)
    BY <1>2 DEF Returns, Step
  <2>6. QED
    BY <2>1, <2>2, <2>3, <2>4, <2>5
<1>8. Undone(d, s, {}, Left(d), Kept(d))
  BY <1>3 DEF Undone, Step
<1>9. ASSUME NEW H \in Possible(s, 5, {}, Left(d))
      PROVE  Cleans(d, c, H, Kept(d))
  <2>1. Paired(H)
    BY <1>9, PossibleMeans
  <2>2. H \subseteq {"proc", "proc2", "proc3", "proc4"}
    <3>1. \A j \in 1 .. 4 : s[j].op \in Acquires =>
              s[j].res \in {"proc", "proc2", "proc3", "proc4"}
      BY <1>3 DEF Acquires, Step
    <3>2. QED
      BY <3>1, <1>9, <1>5, PossibleMeans
  <2>3. Paired(H)
    BY <1>9, PossibleMeans
  <2>4. \A x \in H \ Kept(d) : \E i \in DOMAIN c : c[i].res = x /\ Returns(c, i, H)
    BY <1>2, <1>7, <1>5, <2>1, <2>2, <2>3 DEF Inert, Paired, Step
  <2>5. d \in Careful => \A i \in DOMAIN c : Proper(c, i, H)
    BY DEF Careful
  <2>6. QED
    BY <1>7, <2>4, <2>5, CleansWhen
<1>10. Reached(d, s, {})
  BY DEF Reached, Opened
<1>11. Len(s) + 1 = 5 /\ "p_cdevs" \notin Left(d) /\ Left(d) \cap Node = {}
  BY <1>3, <1>5 DEF Node
<1>12. QED
  BY <1>2, <1>3, <1>4, <1>5, <1>6, <1>9, <1>8, <1>10, <1>11, PlainIsWritten

(* seq.                                                                    *)
LEMMA SeqIsWritten == Written("seq")
<1> DEFINE s == seq_module_init  c == seq_module_exit
<1>1. {"proc"} \subseteq Resources
  BY DEF Resources
<1>2. /\ c \in Seq(StepSet) /\ Len(c) = 1 /\ DOMAIN c = 1 .. 1 /\ c \in Seq(Simple)
      /\ c[1] = Step("drop", "proc", <<>>, "always")
  <2>1. {Drop("proc")} \subseteq Simple
    BY <1>1, StepTypes
  <2>2. c \in Seq(Simple)
    BY <2>1 DEF seq_module_exit
  <2>3. QED
    BY <2>2, SmallSteps DEF seq_module_exit, DropIf, Drop, Given, Step
<1>3. /\ s \in Seq(StepSet) /\ Len(s) = 1 /\ DOMAIN s = 1 .. 1
      /\ s[1] = Step("opt", "proc", <<>>, "always")
  <2>1. {Opt("proc")} \subseteq StepSet
    BY <1>1, <1>2, StepTypes, SmallSteps
  <2>2. s \in Seq(StepSet)
    BY <2>1 DEF seq_module_init
  <2>3. QED
    BY <2>2, SmallSteps DEF seq_module_init, Must, Get, Opt, Blind, Uses, Given, Step
<1>4. Plans["seq"] = Plain(s, c)
  BY DEF Plans
<1> HIDE DEF s, c
<1>5. Left("seq") = {} /\ Kept("seq") = {} \cup Inert
  BY DEF Left, Leftovers, Kept
<1>6. Forward("seq", s)
  BY <1>3 DEF Forward, Acquires, Careful, Step, Inert
<1>7. /\ \A i \in DOMAIN c : c[i].op = "drop" /\ c[i].undo = <<>> /\ c[i].res \notin Inert
      /\ \A H : Returns(c, 1, H)
  <2>1. \A i \in DOMAIN c : c[i].op = "drop" /\ c[i].undo = <<>> /\ c[i].res \notin Inert
    BY <1>2 DEF Inert, Step
  <2>2. \A H : Returns(c, 1, H)
    BY <1>2 DEF Returns, Step
  <2>3. QED
    BY <2>1, <2>2
<1>8. Undone("seq", s, {}, Left("seq"), Kept("seq"))
  BY <1>3 DEF Undone, Step
<1>9. ASSUME NEW H \in Possible(s, 2, {}, Left("seq"))
      PROVE  Cleans("seq", c, H, Kept("seq"))
  <2>1. Paired(H)
    BY <1>9, PossibleMeans
  <2>2. H \subseteq {"proc"}
    <3>1. \A j \in 1 .. 1 : s[j].op \in Acquires => s[j].res \in {"proc"}
      BY <1>3 DEF Acquires, Step
    <3>2. QED
      BY <3>1, <1>9, <1>5, PossibleMeans
  <2>3. Paired(H)
    BY <1>9, PossibleMeans
  <2>4. \A x \in H \ Kept("seq") : \E i \in DOMAIN c : c[i].res = x /\ Returns(c, i, H)
    BY <1>2, <1>7, <1>5, <2>1, <2>2, <2>3 DEF Inert, Paired, Step
  <2>5. "seq" \in Careful => \A i \in DOMAIN c : Proper(c, i, H)
    BY DEF Careful
  <2>6. QED
    BY <1>7, <2>4, <2>5, CleansWhen
<1>10. Reached("seq", s, {})
  BY DEF Reached, Opened
<1>11. Len(s) + 1 = 2 /\ "p_cdevs" \notin Left("seq") /\ Left("seq") \cap Node = {}
  BY <1>3, <1>5 DEF Node
<1>12. QED
  BY <1>2, <1>3, <1>4, <1>5, <1>6, <1>9, <1>8, <1>10, <1>11, PlainIsWritten

(* ofdev.                                                                  *)
LEMMA OfdevIsWritten == Written("ofdev")
<1> DEFINE s == of_chrdrv_init  c == of_chrdrv_exit
<1>1. {"region", "devices", "sem", "cdevs", "class", "device"} \subseteq Resources
  BY DEF Resources
<1>2. /\ c \in Seq(StepSet) /\ Len(c) = 5 /\ DOMAIN c = 1 .. 5 /\ c \in Seq(Simple)
      /\ c[1] = Step("drop", "device", <<>>, "always")
      /\ c[2] = Step("drop", "class", <<>>, "always")
      /\ c[3] = Step("drop", "cdevs", <<>>, "always")
      /\ c[4] = Step("drop", "region", <<>>, "always")
      /\ c[5] = Step("drop", "devices", <<>>, "always")
  <2>1. {Drop("device"), Drop("class"), Drop("cdevs")} \subseteq Simple
    BY <1>1, StepTypes
  <2>2. {Drop("region"), Drop("devices")} \subseteq Simple
    BY <1>1, StepTypes
  <2>3. c \in Seq(Simple)
    BY <2>1, <2>2 DEF of_chrdrv_exit
  <2>4. QED
    BY <2>3, SmallSteps DEF of_chrdrv_exit, DropIf, Drop, Given, Step
<1>3. /\ s \in Seq(StepSet) /\ Len(s) = 6 /\ DOMAIN s = 1 .. 6
      /\ s[1] = Step("must", "region", <<>>, "always")
      /\ s[2] = Step("blind", "devices", <<>>, "always")
      /\ s[3] = Step("get", "sem", <<>>, "always")
      /\ s[4] = Step("get", "cdevs", <<>>, "always")
      /\ s[5] = Step("opt", "class", <<>>, "always")
      /\ s[6] = Step("opt", "device", <<>>, "always")
  <2>1. {Must("region", <<>>), Blind("devices"), Get("sem")} \subseteq StepSet
    BY <1>1, <1>2, StepTypes, SmallSteps
  <2>2. {Get("cdevs"), Opt("class"), Opt("device")} \subseteq StepSet
    BY <1>1, <1>2, StepTypes, SmallSteps
  <2>3. s \in Seq(StepSet)
    BY <2>1, <2>2 DEF of_chrdrv_init
  <2>4. QED
    BY <2>3, SmallSteps DEF of_chrdrv_init, Must, Get, Opt, Blind, Uses, Given, Step
<1>4. Plans["ofdev"] = Plain(s, c)
  BY DEF Plans
<1> HIDE DEF s, c
<1>5. Left("ofdev") = {} /\ Kept("ofdev") = {} \cup Inert
  BY DEF Left, Leftovers, Kept
<1>6. Forward("ofdev", s)
  BY <1>3 DEF Forward, Acquires, Careful, Step, Inert
<1>7. /\ \A i \in DOMAIN c : c[i].op = "drop" /\ c[i].undo = <<>> /\ c[i].res \notin Inert
      /\ \A H : Returns(c, 1, H)
      /\ \A H : Returns(c, 2, H)
      /\ \A H : Returns(c, 3, H)
      /\ \A H : Returns(c, 4, H)
      /\ \A H : Returns(c, 5, H)
  <2>1. \A i \in DOMAIN c : c[i].op = "drop" /\ c[i].undo = <<>> /\ c[i].res \notin Inert
    BY <1>2 DEF Inert, Step
  <2>2. \A H : Returns(c, 1, H)
    BY <1>2 DEF Returns, Step
  <2>3. \A H : Returns(c, 2, H)
    BY <1>2 DEF Returns, Step
  <2>4. \A H : Returns(c, 3, H)
    BY <1>2 DEF Returns, Step
  <2>5. \A H : Returns(c, 4, H)
    BY <1>2 DEF Returns, Step
  <2>6. \A H : Returns(c, 5, H)
    BY <1>2 DEF Returns, Step
  <2>7. QED
    BY <2>1, <2>2, <2>3, <2>4, <2>5, <2>6
<1>8. ASSUME NEW H \in Possible(s, 1, {}, Left("ofdev"))
      PROVE  Cleans("ofdev", s[1].undo, H, Kept("ofdev"))
  <2>1. Paired(H)
    BY <1>8, PossibleMeans
  <2>2. H \subseteq {}
    BY <1>8, <1>5, PossibleMeans
  <2>3. Paired(H)
    BY <1>8, PossibleMeans
  <2>4. QED
    BY <1>3, <1>5, <2>1, <2>2 DEF Cleans, Inert, Exclusive, Drop, DropIf, Given, Step
<1>9. Undone("ofdev", s, {}, Left("ofdev"), Kept("ofdev"))
  <2>1. SUFFICES ASSUME NEW i \in 1 .. 6, s[i].op = "must",
                        NEW H \in Possible(s, i, {}, Left("ofdev"))
                 PROVE  Cleans("ofdev", s[i].undo, H, Kept("ofdev"))
    BY <1>3 DEF Undone
  <2>2. i \in {1}
    BY <1>3, <2>1 DEF Step
  <2>3. QED
    BY <1>8, <2>1, <2>2
<1>10. ASSUME NEW H \in Possible(s, 7, {}, Left("ofdev"))
      PROVE  Cleans("ofdev", c, H, Kept("ofdev"))
  <2>1. {"region", "sem", "cdevs"} \subseteq H
    <3>1. \A j \in {1, 3, 4} : s[j].op \in {"get", "must"} /\ s[j].given = "always"
      BY <1>3 DEF Step
    <3>2. s[1].res = "region" /\ s[3].res = "sem" /\ s[4].res = "cdevs"
      BY <1>3 DEF Step
    <3>3. \A j \in {1, 3, 4} : s[j].res # "p_region"
      BY <3>2
    <3>4. QED
      BY <3>1, <3>2, <3>3, <1>10, PossibleMeans
  <2>2. H \subseteq {"region", "devices", "sem", "cdevs", "class", "device"}
    <3>1. \A j \in 1 .. 6 : s[j].op \in Acquires =>
              s[j].res \in {"region", "devices", "sem", "cdevs", "class", "device"}
      BY <1>3 DEF Acquires, Step
    <3>2. QED
      BY <3>1, <1>10, <1>5, PossibleMeans
  <2>3. Paired(H)
    BY <1>10, PossibleMeans
  <2>4. \A x \in H \ Kept("ofdev") : \E i \in DOMAIN c : c[i].res = x /\ Returns(c, i, H)
    BY <1>2, <1>7, <1>5, <2>1, <2>2, <2>3 DEF Inert, Paired, Step
  <2>5. "ofdev" \in Careful => \A i \in DOMAIN c : Proper(c, i, H)
    BY DEF Careful
  <2>6. QED
    BY <1>7, <2>4, <2>5, CleansWhen
<1>11. Reached("ofdev", s, {})
  BY DEF Reached, Opened
<1>12. Len(s) + 1 = 7 /\ "p_cdevs" \notin Left("ofdev") /\ Left("ofdev") \cap Node = {}
  BY <1>3, <1>5 DEF Node
<1>13. QED
  BY <1>2, <1>3, <1>4, <1>5, <1>6, <1>10, <1>9, <1>11, <1>12, PlainIsWritten

(* The usb skeleton.                                                       *)
LEMMA UsbIsWritten == Written("usb")
<1> DEFINE s == skel_init  c == skel_exit
<1>1. {"driver"} \subseteq Resources
  BY DEF Resources
<1>2. /\ c \in Seq(StepSet) /\ Len(c) = 1 /\ DOMAIN c = 1 .. 1 /\ c \in Seq(Simple)
      /\ c[1] = Step("drop", "driver", <<>>, "always")
  <2>1. {Drop("driver")} \subseteq Simple
    BY <1>1, StepTypes
  <2>2. c \in Seq(Simple)
    BY <2>1 DEF skel_exit
  <2>3. QED
    BY <2>2, SmallSteps DEF skel_exit, DropIf, Drop, Given, Step
<1>3. /\ s \in Seq(StepSet) /\ Len(s) = 1 /\ DOMAIN s = 1 .. 1
      /\ s[1] = Step("must", "driver", <<>>, "always")
  <2>1. {Must("driver", <<>>)} \subseteq StepSet
    BY <1>1, <1>2, StepTypes, SmallSteps
  <2>2. s \in Seq(StepSet)
    BY <2>1 DEF skel_init
  <2>3. QED
    BY <2>2, SmallSteps DEF skel_init, Must, Get, Opt, Blind, Uses, Given, Step
<1>4. Plans["usb"] = Plain(s, c)
  BY DEF Plans
<1> HIDE DEF s, c
<1>5. Left("usb") = {} /\ Kept("usb") = {} \cup Inert
  BY DEF Left, Leftovers, Kept
<1>6. Forward("usb", s)
  BY <1>3 DEF Forward, Acquires, Careful, Step, Inert
<1>7. /\ \A i \in DOMAIN c : c[i].op = "drop" /\ c[i].undo = <<>> /\ c[i].res \notin Inert
      /\ \A H : Returns(c, 1, H)
  <2>1. \A i \in DOMAIN c : c[i].op = "drop" /\ c[i].undo = <<>> /\ c[i].res \notin Inert
    BY <1>2 DEF Inert, Step
  <2>2. \A H : Returns(c, 1, H)
    BY <1>2 DEF Returns, Step
  <2>3. QED
    BY <2>1, <2>2
<1>8. ASSUME NEW H \in Possible(s, 1, {}, Left("usb"))
      PROVE  Cleans("usb", s[1].undo, H, Kept("usb"))
  <2>1. Paired(H)
    BY <1>8, PossibleMeans
  <2>2. H \subseteq {}
    BY <1>8, <1>5, PossibleMeans
  <2>3. Paired(H)
    BY <1>8, PossibleMeans
  <2>4. QED
    BY <1>3, <1>5, <2>1, <2>2 DEF Cleans, Inert, Exclusive, Drop, DropIf, Given, Step
<1>9. Undone("usb", s, {}, Left("usb"), Kept("usb"))
  <2>1. SUFFICES ASSUME NEW i \in 1 .. 1, s[i].op = "must",
                        NEW H \in Possible(s, i, {}, Left("usb"))
                 PROVE  Cleans("usb", s[i].undo, H, Kept("usb"))
    BY <1>3 DEF Undone
  <2>2. i \in {1}
    BY <1>3, <2>1 DEF Step
  <2>3. QED
    BY <1>8, <2>1, <2>2
<1>10. ASSUME NEW H \in Possible(s, 2, {}, Left("usb"))
      PROVE  Cleans("usb", c, H, Kept("usb"))
  <2>1. {"driver"} \subseteq H
    <3>1. \A j \in {1} : s[j].op \in {"get", "must"} /\ s[j].given = "always"
      BY <1>3 DEF Step
    <3>2. s[1].res = "driver"
      BY <1>3 DEF Step
    <3>3. \A j \in {1} : s[j].res # "p_region"
      BY <3>2
    <3>4. QED
      BY <3>1, <3>2, <3>3, <1>10, PossibleMeans
  <2>2. H \subseteq {"driver"}
    <3>1. \A j \in 1 .. 1 : s[j].op \in Acquires => s[j].res \in {"driver"}
      BY <1>3 DEF Acquires, Step
    <3>2. QED
      BY <3>1, <1>10, <1>5, PossibleMeans
  <2>3. Paired(H)
    BY <1>10, PossibleMeans
  <2>4. \A x \in H \ Kept("usb") : \E i \in DOMAIN c : c[i].res = x /\ Returns(c, i, H)
    BY <1>2, <1>7, <1>5, <2>1, <2>2, <2>3 DEF Inert, Paired, Step
  <2>5. "usb" \in Careful => \A i \in DOMAIN c : Proper(c, i, H)
    BY <1>2, <2>1, <2>2, <2>3 DEF Proper, Exclusive, Step
  <2>6. QED
    BY <1>7, <2>4, <2>5, CleansWhen
<1>11. Reached("usb", s, {})
  BY DEF Reached, Opened
<1>12. Len(s) + 1 = 2 /\ "p_cdevs" \notin Left("usb") /\ Left("usb") \cap Node = {}
  BY <1>3, <1>5 DEF Node
<1>13. QED
  BY <1>2, <1>3, <1>4, <1>5, <1>6, <1>10, <1>9, <1>11, <1>12, PlainIsWritten

(* sleepy, complete and faulty: a number.                                  *)
LEMMA MiscIsWritten == ASSUME NEW d \in {"sleepy", "complete", "faulty"} PROVE Written(d)
<1> DEFINE s == sleepy_init  c == sleepy_exit
<1>1. {"chrdev"} \subseteq Resources
  BY DEF Resources
<1>2. /\ c \in Seq(StepSet) /\ Len(c) = 1 /\ DOMAIN c = 1 .. 1 /\ c \in Seq(Simple)
      /\ c[1] = Step("drop", "chrdev", <<>>, "always")
  <2>1. {Drop("chrdev")} \subseteq Simple
    BY <1>1, StepTypes
  <2>2. c \in Seq(Simple)
    BY <2>1 DEF sleepy_exit
  <2>3. QED
    BY <2>2, SmallSteps DEF sleepy_exit, DropIf, Drop, Given, Step
<1>3. /\ s \in Seq(StepSet) /\ Len(s) = 1 /\ DOMAIN s = 1 .. 1
      /\ s[1] = Step("must", "chrdev", <<>>, "always")
  <2>1. {Must("chrdev", <<>>)} \subseteq StepSet
    BY <1>1, <1>2, StepTypes, SmallSteps
  <2>2. s \in Seq(StepSet)
    BY <2>1 DEF sleepy_init
  <2>3. QED
    BY <2>2, SmallSteps DEF sleepy_init, Must, Get, Opt, Blind, Uses, Given, Step
<1>4. Plans[d] = Plain(s, c)
  <2>1. CASE d = "sleepy"
    BY <2>1 DEF Plans, sleepy_init, sleepy_exit, complete_init, complete_exit, faulty_init,
       faulty_exit
  <2>2. CASE d = "complete"
    BY <2>2 DEF Plans, sleepy_init, sleepy_exit, complete_init, complete_exit, faulty_init,
       faulty_exit
  <2>3. CASE d = "faulty"
    BY <2>3 DEF Plans, sleepy_init, sleepy_exit, complete_init, complete_exit, faulty_init,
       faulty_exit
  <2>4. QED
    BY <2>1, <2>2, <2>3
<1> HIDE DEF s, c
<1>5. Left(d) = {} /\ Kept(d) = {} \cup Inert
  BY DEF Left, Leftovers, Kept
<1>6. Forward(d, s)
  BY <1>3 DEF Forward, Acquires, Careful, Step, Inert
<1>7. /\ \A i \in DOMAIN c : c[i].op = "drop" /\ c[i].undo = <<>> /\ c[i].res \notin Inert
      /\ \A H : Returns(c, 1, H)
  <2>1. \A i \in DOMAIN c : c[i].op = "drop" /\ c[i].undo = <<>> /\ c[i].res \notin Inert
    BY <1>2 DEF Inert, Step
  <2>2. \A H : Returns(c, 1, H)
    BY <1>2 DEF Returns, Step
  <2>3. QED
    BY <2>1, <2>2
<1>8. ASSUME NEW H \in Possible(s, 1, {}, Left(d))
      PROVE  Cleans(d, s[1].undo, H, Kept(d))
  <2>1. Paired(H)
    BY <1>8, PossibleMeans
  <2>2. H \subseteq {}
    BY <1>8, <1>5, PossibleMeans
  <2>3. Paired(H)
    BY <1>8, PossibleMeans
  <2>4. QED
    BY <1>3, <1>5, <2>1, <2>2 DEF Cleans, Inert, Exclusive, Drop, DropIf, Given, Step
<1>9. Undone(d, s, {}, Left(d), Kept(d))
  <2>1. SUFFICES ASSUME NEW i \in 1 .. 1, s[i].op = "must",
                        NEW H \in Possible(s, i, {}, Left(d))
                 PROVE  Cleans(d, s[i].undo, H, Kept(d))
    BY <1>3 DEF Undone
  <2>2. i \in {1}
    BY <1>3, <2>1 DEF Step
  <2>3. QED
    BY <1>8, <2>1, <2>2
<1>10. ASSUME NEW H \in Possible(s, 2, {}, Left(d))
      PROVE  Cleans(d, c, H, Kept(d))
  <2>1. {"chrdev"} \subseteq H
    <3>1. \A j \in {1} : s[j].op \in {"get", "must"} /\ s[j].given = "always"
      BY <1>3 DEF Step
    <3>2. s[1].res = "chrdev"
      BY <1>3 DEF Step
    <3>3. \A j \in {1} : s[j].res # "p_region"
      BY <3>2
    <3>4. QED
      BY <3>1, <3>2, <3>3, <1>10, PossibleMeans
  <2>2. H \subseteq {"chrdev"}
    <3>1. \A j \in 1 .. 1 : s[j].op \in Acquires => s[j].res \in {"chrdev"}
      BY <1>3 DEF Acquires, Step
    <3>2. QED
      BY <3>1, <1>10, <1>5, PossibleMeans
  <2>3. Paired(H)
    BY <1>10, PossibleMeans
  <2>4. \A x \in H \ Kept(d) : \E i \in DOMAIN c : c[i].res = x /\ Returns(c, i, H)
    BY <1>2, <1>7, <1>5, <2>1, <2>2, <2>3 DEF Inert, Paired, Step
  <2>5. d \in Careful => \A i \in DOMAIN c : Proper(c, i, H)
    BY <1>2, <2>1, <2>2, <2>3 DEF Proper, Exclusive, Step
  <2>6. QED
    BY <1>7, <2>4, <2>5, CleansWhen
<1>11. Reached(d, s, {})
  BY DEF Reached, Opened
<1>12. Len(s) + 1 = 2 /\ "p_cdevs" \notin Left(d) /\ Left(d) \cap Node = {}
  BY <1>3, <1>5 DEF Node
<1>13. QED
  BY <1>2, <1>3, <1>4, <1>5, <1>6, <1>10, <1>9, <1>11, <1>12, PlainIsWritten

(* sculld: its driver stays when its devices fail.                         *)
LEMMA SculldIsWritten == Written("sculld")
<1> DEFINE s == sculld_init  c == sculld_cleanup
<1>1. {"region", "driver", "devices", "sem", "cdevs", "lddevs"} \subseteq Resources
  BY DEF Resources
<1>2. /\ c \in Seq(StepSet) /\ Len(c) = 5 /\ DOMAIN c = 1 .. 5 /\ c \in Seq(Simple)
      /\ c[1] = Step("drop", "lddevs", <<>>, "always")
      /\ c[2] = Step("drop", "cdevs", <<>>, "always")
      /\ c[3] = Step("drop", "devices", <<>>, "always")
      /\ c[4] = Step("drop", "driver", <<>>, "always")
      /\ c[5] = Step("drop", "region", <<>>, "always")
  <2>1. {Drop("lddevs"), Drop("cdevs"), Drop("devices")} \subseteq Simple
    BY <1>1, StepTypes
  <2>2. {Drop("driver"), Drop("region")} \subseteq Simple
    BY <1>1, StepTypes
  <2>3. c \in Seq(Simple)
    BY <2>1, <2>2 DEF sculld_cleanup
  <2>4. QED
    BY <2>3, SmallSteps DEF sculld_cleanup, DropIf, Drop, Given, Step
<1>3. /\ s \in Seq(StepSet) /\ Len(s) = 6 /\ DOMAIN s = 1 .. 6
      /\ s[1] = Step("must", "region", <<>>, "always")
      /\ s[2] = Step("opt", "driver", <<>>, "always")
      /\ s[3] = Step("must", "devices", <<Drop("region")>>, "always")
      /\ s[4] = Step("get", "sem", <<>>, "always")
      /\ s[5] = Step("get", "cdevs", <<>>, "always")
      /\ s[6] = Step("opt", "lddevs", <<>>, "always")
  <2>1. {Must("region", <<>>), Opt("driver"), Must("devices",
                                                   <<Drop("region")>>)} \subseteq StepSet
    BY <1>1, <1>2, StepTypes, SmallSteps
  <2>2. {Get("sem"), Get("cdevs"), Opt("lddevs")} \subseteq StepSet
    BY <1>1, <1>2, StepTypes, SmallSteps
  <2>3. s \in Seq(StepSet)
    BY <2>1, <2>2 DEF sculld_init
  <2>4. QED
    BY <2>3, SmallSteps DEF sculld_init, Must, Get, Opt, Blind, Uses, Given, Step
<1>4. Plans["sculld"] = Plain(s, c)
  BY DEF Plans
<1> HIDE DEF s, c
<1>5. Left("sculld") = {"driver", "lddevs"} /\ Kept("sculld") = {"driver", "lddevs"} \cup Inert
  BY DEF Left, Leftovers, Kept
<1>6. Forward("sculld", s)
  BY <1>3 DEF Forward, Acquires, Careful, Step, Inert
<1>7. /\ \A i \in DOMAIN c : c[i].op = "drop" /\ c[i].undo = <<>> /\ c[i].res \notin Inert
      /\ \A H : Returns(c, 1, H)
      /\ \A H : Returns(c, 2, H)
      /\ \A H : Returns(c, 3, H)
      /\ \A H : Returns(c, 4, H)
      /\ \A H : Returns(c, 5, H)
  <2>1. \A i \in DOMAIN c : c[i].op = "drop" /\ c[i].undo = <<>> /\ c[i].res \notin Inert
    BY <1>2 DEF Inert, Step
  <2>2. \A H : Returns(c, 1, H)
    BY <1>2 DEF Returns, Step
  <2>3. \A H : Returns(c, 2, H)
    BY <1>2 DEF Returns, Step
  <2>4. \A H : Returns(c, 3, H)
    BY <1>2 DEF Returns, Step
  <2>5. \A H : Returns(c, 4, H)
    BY <1>2 DEF Returns, Step
  <2>6. \A H : Returns(c, 5, H)
    BY <1>2 DEF Returns, Step
  <2>7. QED
    BY <2>1, <2>2, <2>3, <2>4, <2>5, <2>6
<1>8. ASSUME NEW H \in Possible(s, 1, {}, Left("sculld"))
      PROVE  Cleans("sculld", s[1].undo, H, Kept("sculld"))
  <2>1. Paired(H)
    BY <1>8, PossibleMeans
  <2>2. H \subseteq {"driver", "lddevs"}
    BY <1>8, <1>5, PossibleMeans
  <2>3. Paired(H)
    BY <1>8, PossibleMeans
  <2>4. QED
    BY <1>3, <1>5, <2>1, <2>2 DEF Cleans, Inert, Exclusive, Drop, DropIf, Given, Step
<1>9. ASSUME NEW H \in Possible(s, 3, {}, Left("sculld"))
      PROVE  Cleans("sculld", s[3].undo, H, Kept("sculld"))
  <2>1. {"region"} \subseteq H
    <3>1. \A j \in {1} : s[j].op \in {"get", "must"} /\ s[j].given = "always"
      BY <1>3 DEF Step
    <3>2. s[1].res = "region"
      BY <1>3 DEF Step
    <3>3. \A j \in {1} : s[j].res # "p_region"
      BY <3>2
    <3>4. QED
      BY <3>1, <3>2, <3>3, <1>9, PossibleMeans
  <2>2. H \subseteq {"driver", "lddevs", "region"}
    <3>1. \A j \in 1 .. 2 : s[j].op \in Acquires => s[j].res \in {"region", "driver"}
      BY <1>3 DEF Acquires, Step
    <3>2. QED
      BY <3>1, <1>9, <1>5, PossibleMeans
  <2>3. Paired(H)
    BY <1>9, PossibleMeans
  <2>4. s[3].undo = <<Drop("region")>> /\ "sculld" \notin Careful
    BY <1>3 DEF Step, Careful
  <2>5. H \subseteq Kept("sculld") \cup {"region"} /\ "region" \notin Inert
    BY <2>2, <1>5 DEF Inert
  <2>6. QED
    BY <2>4, <2>5, OneDrop
<1>10. Undone("sculld", s, {}, Left("sculld"), Kept("sculld"))
  <2>1. SUFFICES ASSUME NEW i \in 1 .. 6, s[i].op = "must",
                        NEW H \in Possible(s, i, {}, Left("sculld"))
                 PROVE  Cleans("sculld", s[i].undo, H, Kept("sculld"))
    BY <1>3 DEF Undone
  <2>2. i \in {1, 3}
    BY <1>3, <2>1 DEF Step
  <2>3. QED
    BY <1>8, <1>9, <2>1, <2>2
<1>11. ASSUME NEW H \in Possible(s, 7, {}, Left("sculld"))
      PROVE  Cleans("sculld", c, H, Kept("sculld"))
  <2>1. {"region", "devices", "sem", "cdevs"} \subseteq H
    <3>1. \A j \in {1, 3, 4, 5} : s[j].op \in {"get", "must"} /\ s[j].given = "always"
      BY <1>3 DEF Step
    <3>2. s[1].res = "region" /\ s[3].res = "devices" /\ s[4].res = "sem" /\ s[5].res = "cdevs"
      BY <1>3 DEF Step
    <3>3. \A j \in {1, 3, 4, 5} : s[j].res # "p_region"
      BY <3>2
    <3>4. QED
      BY <3>1, <3>2, <3>3, <1>11, PossibleMeans
  <2>2. H \subseteq {"driver", "lddevs", "region", "devices", "sem", "cdevs"}
    <3>1. \A j \in 1 .. 6 : s[j].op \in Acquires =>
              s[j].res \in {"region", "driver", "devices", "sem", "cdevs", "lddevs"}
      BY <1>3 DEF Acquires, Step
    <3>2. QED
      BY <3>1, <1>11, <1>5, PossibleMeans
  <2>3. Paired(H)
    BY <1>11, PossibleMeans
  <2>4. \A x \in H \ Kept("sculld") : \E i \in DOMAIN c : c[i].res = x /\ Returns(c, i, H)
    BY <1>2, <1>7, <1>5, <2>1, <2>2, <2>3 DEF Inert, Paired, Step
  <2>5. "sculld" \in Careful => \A i \in DOMAIN c : Proper(c, i, H)
    BY DEF Careful
  <2>6. QED
    BY <1>7, <2>4, <2>5, CleansWhen
<1>12. Reached("sculld", s, {})
  <2>1. SUFFICES ASSUME NEW i \in 1 .. 6, s[i].op \in Acquires, s[i].res \in Node
                 PROVE  /\ Devs \subseteq Sure(s, i, {}) \cup {s[i].res}
                        /\ \A m \in i + 1 .. Len(s) : s[m].op # "must"
    BY <1>3 DEF Reached
  <2>2. i \in {5}
    BY <1>3, <2>1 DEF Node, Step
  <2>3. {"devices", "sem"} \subseteq Sure(s, 5, {})
    <3>1. \A j \in {3, 4} : s[j].op \in {"get", "must"} /\ s[j].given = "always"
      BY <1>3 DEF Step
    <3>2. s[3].res = "devices" /\ s[4].res = "sem"
      BY <1>3 DEF Step
    <3>3. \A j \in {3, 4} : s[j].res # "p_region" /\ j \in 1 .. 5 - 1
      BY <3>2
    <3>4. QED
      BY <3>1, <3>2, <3>3, SureMeans
  <2>4. \A m \in 4 .. 6 : s[m].op # "must"
    BY <1>3 DEF Step
  <2>5. QED
    BY <1>3, <2>2, <2>3, <2>4 DEF Devs, Step
<1>13. Len(s) + 1 = 7 /\ "p_cdevs" \notin Left("sculld") /\ Left("sculld") \cap Node = {}
  BY <1>3, <1>5 DEF Node
<1>14. QED
  BY <1>2, <1>3, <1>4, <1>5, <1>6, <1>11, <1>10, <1>12, <1>13, PlainIsWritten

(* short over ports.                                                       *)
LEMMA ShortIsWritten == Written("short")
<1> DEFINE s == short_init(FALSE)  c == short_cleanup(FALSE)
<1>1. {"ports", "chrdev", "page", "irq"} \subseteq Resources
  BY DEF Resources
<1>2. /\ c \in Seq(StepSet) /\ Len(c) = 4 /\ DOMAIN c = 1 .. 4 /\ c \in Seq(Simple)
      /\ c[1] = Step("drop", "irq", <<>>, "irq")
      /\ c[2] = Step("drop", "chrdev", <<>>, "always")
      /\ c[3] = Step("drop", "ports", <<>>, "always")
      /\ c[4] = Step("drop", "page", <<>>, "page")
  <2> DEFINE u == <<DropIf("irq", "irq"), Drop("chrdev")>>
             v == <<Drop("ports")>>
             w == <<DropIf("page", "page")>>
  <2>1. /\ u \in Seq(Simple) /\ Len(u) = 2
        /\ u[1] = Step("drop", "irq", <<>>, "irq")
        /\ u[2] = Step("drop", "chrdev", <<>>, "always")
    <3>1. {DropIf("irq", "irq"), Drop("chrdev")} \subseteq Simple
      BY <1>1, StepTypes
    <3>2. u \in Seq(Simple)
      BY <3>1
    <3>3. QED
      BY <3>2 DEF DropIf, Drop, Given, Step
  <2>2. /\ v \in Seq(Simple) /\ Len(v) = 1
        /\ v[1] = Step("drop", "ports", <<>>, "always")
    <3>1. {Drop("ports")} \subseteq Simple
      BY <1>1, StepTypes
    <3>2. v \in Seq(Simple)
      BY <3>1
    <3>3. QED
      BY <3>2 DEF DropIf, Drop, Given, Step
  <2>3. /\ w \in Seq(Simple) /\ Len(w) = 1
        /\ w[1] = Step("drop", "page", <<>>, "page")
    <3>1. {DropIf("page", "page")} \subseteq Simple
      BY <1>1, StepTypes
    <3>2. w \in Seq(Simple)
      BY <3>1
    <3>3. QED
      BY <3>2 DEF DropIf, Drop, Given, Step
  <2>4. c = u \o v \o w
    BY DEF short_cleanup
  <2> HIDE DEF u, v, w, c
  <2> DEFINE j == u \o v
  <2>5. j \in Seq(Simple)
    BY <2>1, <2>2, <2>3
  <2>6. /\ Len(j) = Len(u) + Len(v)
        /\ \A i \in 1 .. Len(u) + Len(v) : j[i] = IF i <= Len(u) THEN u[i] ELSE v[i - Len(u)]
    BY <2>1, <2>2, <2>3, ConcatProperties
  <2> HIDE DEF j
  <2>7. /\ Len(j) = 3 /\ j[1] = u[1] /\ j[2] = u[2] /\ j[3] = v[1]
    BY <2>1, <2>2, <2>3, <2>6
  <2> DEFINE t == j \o w
  <2>8. t \in Seq(Simple)
    BY <2>1, <2>2, <2>3, <2>5, <2>7
  <2>9. /\ Len(t) = Len(j) + Len(w)
        /\ \A i \in 1 .. Len(j) + Len(w) : t[i] = IF i <= Len(j) THEN j[i] ELSE w[i - Len(j)]
    BY <2>1, <2>2, <2>3, <2>5, <2>7, ConcatProperties
  <2> HIDE DEF t
  <2>10. /\ Len(t) = 4 /\ t[1] = j[1] /\ t[2] = j[2] /\ t[3] = j[3] /\ t[4] = w[1]
    BY <2>1, <2>2, <2>3, <2>5, <2>7, <2>9
  <2>11. c = t
    BY <2>4 DEF j, t
  <2>12. /\ c \in Seq(Simple) /\ Len(c) = 4
         /\ c[1] = u[1] /\ c[2] = u[2] /\ c[3] = v[1] /\ c[4] = w[1]
    BY <2>5, <2>7, <2>8, <2>10, <2>11
  <2>13. QED
    BY <2>1, <2>2, <2>3, <2>12, SmallSteps, LenProperties
<1>3. /\ s \in Seq(StepSet) /\ Len(s) = 4 /\ DOMAIN s = 1 .. 4
      /\ s[1] = Step("must", "ports", <<>>, "always")
      /\ s[2] = Step("must", "chrdev", <<DropIf("ports", "ports")>>, "always")
      /\ s[3] = Step("opt", "page", <<>>, "always")
      /\ s[4] = Step("opt", "irq", <<>>, "always")
  <2> DEFINE u == <<Must("ports", <<>>)>>
             v == <<Must("chrdev", <<DropIf("ports", "ports")>>), Opt("page"), Opt("irq")>>
  <2>1. /\ u \in Seq(StepSet) /\ Len(u) = 1
        /\ u[1] = Step("must", "ports", <<>>, "always")
    <3>1. {Must("ports", <<>>)} \subseteq StepSet
      BY <1>1, <1>2, StepTypes, SmallSteps
    <3>2. u \in Seq(StepSet)
      BY <3>1
    <3>3. QED
      BY <3>2 DEF Must, Get, Opt, Blind, Uses, Given, Step
  <2>2. /\ v \in Seq(StepSet) /\ Len(v) = 3
        /\ v[1] = Step("must", "chrdev", <<DropIf("ports", "ports")>>, "always")
        /\ v[2] = Step("opt", "page", <<>>, "always")
        /\ v[3] = Step("opt", "irq", <<>>, "always")
    <3>1. {Must("chrdev", <<DropIf("ports", "ports")>>), Opt("page"),
                                                             Opt("irq")} \subseteq StepSet
      BY <1>1, <1>2, StepTypes, SmallSteps
    <3>2. v \in Seq(StepSet)
      BY <3>1
    <3>3. QED
      BY <3>2 DEF Must, Get, Opt, Blind, Uses, Given, Step
  <2>3. s = u \o v
    BY DEF short_init
  <2> HIDE DEF u, v, s
  <2> DEFINE j == u \o v
  <2>4. j \in Seq(StepSet)
    BY <2>1, <2>2
  <2>5. /\ Len(j) = Len(u) + Len(v)
        /\ \A i \in 1 .. Len(u) + Len(v) : j[i] = IF i <= Len(u) THEN u[i] ELSE v[i - Len(u)]
    BY <2>1, <2>2, ConcatProperties
  <2> HIDE DEF j
  <2>6. /\ Len(j) = 4 /\ j[1] = u[1] /\ j[2] = v[1] /\ j[3] = v[2] /\ j[4] = v[3]
    BY <2>1, <2>2, <2>5
  <2>7. s = j
    BY <2>3 DEF j
  <2>8. /\ s \in Seq(StepSet) /\ Len(s) = 4
        /\ s[1] = u[1] /\ s[2] = v[1] /\ s[3] = v[2] /\ s[4] = v[3]
    BY <2>4, <2>6, <2>7
  <2>9. QED
    BY <2>1, <2>2, <2>8, SmallSteps, LenProperties
<1>4. Plans["short"] = Plain(s, c)
  BY DEF Plans
<1> HIDE DEF s, c
<1>5. Left("short") = {} /\ Kept("short") = {} \cup Inert
  BY DEF Left, Leftovers, Kept
<1>6. Forward("short", s)
  BY <1>3 DEF Forward, Acquires, Careful, Step, Inert
<1>7. /\ \A i \in DOMAIN c : c[i].op = "drop" /\ c[i].undo = <<>> /\ c[i].res \notin Inert
      /\ \A H : Returns(c, 1, H)
      /\ \A H : Returns(c, 2, H)
      /\ \A H : Returns(c, 3, H)
      /\ \A H : Returns(c, 4, H)
  <2>1. \A i \in DOMAIN c : c[i].op = "drop" /\ c[i].undo = <<>> /\ c[i].res \notin Inert
    BY <1>2 DEF Inert, Step
  <2>2. \A H : Returns(c, 1, H)
    BY <1>2 DEF Returns, Step
  <2>3. \A H : Returns(c, 2, H)
    BY <1>2 DEF Returns, Step
  <2>4. \A H : Returns(c, 3, H)
    BY <1>2 DEF Returns, Step
  <2>5. \A H : Returns(c, 4, H)
    BY <1>2 DEF Returns, Step
  <2>6. QED
    BY <2>1, <2>2, <2>3, <2>4, <2>5
<1>8. ASSUME NEW H \in Possible(s, 1, {}, Left("short"))
      PROVE  Cleans("short", s[1].undo, H, Kept("short"))
  <2>1. Paired(H)
    BY <1>8, PossibleMeans
  <2>2. H \subseteq {}
    BY <1>8, <1>5, PossibleMeans
  <2>3. Paired(H)
    BY <1>8, PossibleMeans
  <2>4. QED
    BY <1>3, <1>5, <2>1, <2>2 DEF Cleans, Inert, Exclusive, Drop, DropIf, Given, Step
<1>9. ASSUME NEW H \in Possible(s, 2, {}, Left("short"))
      PROVE  Cleans("short", s[2].undo, H, Kept("short"))
  <2>1. {"ports"} \subseteq H
    <3>1. \A j \in {1} : s[j].op \in {"get", "must"} /\ s[j].given = "always"
      BY <1>3 DEF Step
    <3>2. s[1].res = "ports"
      BY <1>3 DEF Step
    <3>3. \A j \in {1} : s[j].res # "p_region"
      BY <3>2
    <3>4. QED
      BY <3>1, <3>2, <3>3, <1>9, PossibleMeans
  <2>2. H \subseteq {"ports"}
    <3>1. \A j \in 1 .. 1 : s[j].op \in Acquires => s[j].res \in {"ports"}
      BY <1>3 DEF Acquires, Step
    <3>2. QED
      BY <3>1, <1>9, <1>5, PossibleMeans
  <2>3. Paired(H)
    BY <1>9, PossibleMeans
  <2>4. QED
    BY <1>3, <1>5, <2>1, <2>2 DEF Cleans, Inert, Exclusive, Drop, DropIf, Given, Step
<1>10. Undone("short", s, {}, Left("short"), Kept("short"))
  <2>1. SUFFICES ASSUME NEW i \in 1 .. 4, s[i].op = "must",
                        NEW H \in Possible(s, i, {}, Left("short"))
                 PROVE  Cleans("short", s[i].undo, H, Kept("short"))
    BY <1>3 DEF Undone
  <2>2. i \in {1, 2}
    BY <1>3, <2>1 DEF Step
  <2>3. QED
    BY <1>8, <1>9, <2>1, <2>2
<1>11. ASSUME NEW H \in Possible(s, 5, {}, Left("short"))
      PROVE  Cleans("short", c, H, Kept("short"))
  <2>1. {"ports", "chrdev"} \subseteq H
    <3>1. \A j \in {1, 2} : s[j].op \in {"get", "must"} /\ s[j].given = "always"
      BY <1>3 DEF Step
    <3>2. s[1].res = "ports" /\ s[2].res = "chrdev"
      BY <1>3 DEF Step
    <3>3. \A j \in {1, 2} : s[j].res # "p_region"
      BY <3>2
    <3>4. QED
      BY <3>1, <3>2, <3>3, <1>11, PossibleMeans
  <2>2. H \subseteq {"ports", "chrdev", "page", "irq"}
    <3>1. \A j \in 1 .. 4 : s[j].op \in Acquires =>
              s[j].res \in {"ports", "chrdev", "page", "irq"}
      BY <1>3 DEF Acquires, Step
    <3>2. QED
      BY <3>1, <1>11, <1>5, PossibleMeans
  <2>3. Paired(H)
    BY <1>11, PossibleMeans
  <2>4. \A x \in H \ Kept("short") : \E i \in DOMAIN c : c[i].res = x /\ Returns(c, i, H)
    BY <1>2, <1>7, <1>5, <2>1, <2>2, <2>3 DEF Inert, Paired, Step
  <2>5. "short" \in Careful => \A i \in DOMAIN c : Proper(c, i, H)
    BY <1>2, <2>1, <2>2, <2>3 DEF Proper, Exclusive, Step
  <2>6. QED
    BY <1>7, <2>4, <2>5, CleansWhen
<1>12. Reached("short", s, {})
  BY DEF Reached, Opened
<1>13. Len(s) + 1 = 5 /\ "p_cdevs" \notin Left("short") /\ Left("short") \cap Node = {}
  BY <1>3, <1>5 DEF Node
<1>14. QED
  BY <1>2, <1>3, <1>4, <1>5, <1>6, <1>11, <1>10, <1>12, <1>13, PlainIsWritten

(* short over memory: nothing undoes it without a number.                  *)
LEMMA ShortMemIsWritten == Written("short_mem")
<1> DEFINE s == short_init(TRUE)  c == short_cleanup(TRUE)
<1>1. {"iomem", "ioremap", "chrdev", "ports", "page", "irq"} \subseteq Resources
  BY DEF Resources
<1>2. /\ c \in Seq(StepSet) /\ Len(c) = 5 /\ DOMAIN c = 1 .. 5 /\ c \in Seq(Simple)
      /\ c[1] = Step("drop", "irq", <<>>, "irq")
      /\ c[2] = Step("drop", "chrdev", <<>>, "always")
      /\ c[3] = Step("drop", "ioremap", <<>>, "always")
      /\ c[4] = Step("drop", "iomem", <<>>, "always")
      /\ c[5] = Step("drop", "page", <<>>, "page")
  <2> DEFINE u == <<DropIf("irq", "irq"), Drop("chrdev")>>
             v == <<Drop("ioremap"), Drop("iomem")>>
             w == <<DropIf("page", "page")>>
  <2>1. /\ u \in Seq(Simple) /\ Len(u) = 2
        /\ u[1] = Step("drop", "irq", <<>>, "irq")
        /\ u[2] = Step("drop", "chrdev", <<>>, "always")
    <3>1. {DropIf("irq", "irq"), Drop("chrdev")} \subseteq Simple
      BY <1>1, StepTypes
    <3>2. u \in Seq(Simple)
      BY <3>1
    <3>3. QED
      BY <3>2 DEF DropIf, Drop, Given, Step
  <2>2. /\ v \in Seq(Simple) /\ Len(v) = 2
        /\ v[1] = Step("drop", "ioremap", <<>>, "always")
        /\ v[2] = Step("drop", "iomem", <<>>, "always")
    <3>1. {Drop("ioremap"), Drop("iomem")} \subseteq Simple
      BY <1>1, StepTypes
    <3>2. v \in Seq(Simple)
      BY <3>1
    <3>3. QED
      BY <3>2 DEF DropIf, Drop, Given, Step
  <2>3. /\ w \in Seq(Simple) /\ Len(w) = 1
        /\ w[1] = Step("drop", "page", <<>>, "page")
    <3>1. {DropIf("page", "page")} \subseteq Simple
      BY <1>1, StepTypes
    <3>2. w \in Seq(Simple)
      BY <3>1
    <3>3. QED
      BY <3>2 DEF DropIf, Drop, Given, Step
  <2>4. c = u \o v \o w
    BY DEF short_cleanup
  <2> HIDE DEF u, v, w, c
  <2> DEFINE j == u \o v
  <2>5. j \in Seq(Simple)
    BY <2>1, <2>2, <2>3
  <2>6. /\ Len(j) = Len(u) + Len(v)
        /\ \A i \in 1 .. Len(u) + Len(v) : j[i] = IF i <= Len(u) THEN u[i] ELSE v[i - Len(u)]
    BY <2>1, <2>2, <2>3, ConcatProperties
  <2> HIDE DEF j
  <2>7. /\ Len(j) = 4 /\ j[1] = u[1] /\ j[2] = u[2] /\ j[3] = v[1] /\ j[4] = v[2]
    BY <2>1, <2>2, <2>3, <2>6
  <2> DEFINE t == j \o w
  <2>8. t \in Seq(Simple)
    BY <2>1, <2>2, <2>3, <2>5, <2>7
  <2>9. /\ Len(t) = Len(j) + Len(w)
        /\ \A i \in 1 .. Len(j) + Len(w) : t[i] = IF i <= Len(j) THEN j[i] ELSE w[i - Len(j)]
    BY <2>1, <2>2, <2>3, <2>5, <2>7, ConcatProperties
  <2> HIDE DEF t
  <2>10. /\ Len(t) = 5 /\ t[1] = j[1] /\ t[2] = j[2] /\ t[3] = j[3] /\ t[4] = j[4]
         /\ t[5] = w[1]
    BY <2>1, <2>2, <2>3, <2>5, <2>7, <2>9
  <2>11. c = t
    BY <2>4 DEF j, t
  <2>12. /\ c \in Seq(Simple) /\ Len(c) = 5
         /\ c[1] = u[1] /\ c[2] = u[2] /\ c[3] = v[1] /\ c[4] = v[2] /\ c[5] = w[1]
    BY <2>5, <2>7, <2>8, <2>10, <2>11
  <2>13. QED
    BY <2>1, <2>2, <2>3, <2>12, SmallSteps, LenProperties
<1>3. /\ s \in Seq(StepSet) /\ Len(s) = 5 /\ DOMAIN s = 1 .. 5
      /\ s[1] = Step("must", "iomem", <<>>, "always")
      /\ s[2] = Step("get", "ioremap", <<>>, "always")
      /\ s[3] = Step("must", "chrdev", <<DropIf("ports", "ports")>>, "always")
      /\ s[4] = Step("opt", "page", <<>>, "always")
      /\ s[5] = Step("opt", "irq", <<>>, "always")
  <2> DEFINE u == <<Must("iomem", <<>>), Get("ioremap")>>
             v == <<Must("chrdev", <<DropIf("ports", "ports")>>), Opt("page"), Opt("irq")>>
  <2>1. /\ u \in Seq(StepSet) /\ Len(u) = 2
        /\ u[1] = Step("must", "iomem", <<>>, "always")
        /\ u[2] = Step("get", "ioremap", <<>>, "always")
    <3>1. {Must("iomem", <<>>), Get("ioremap")} \subseteq StepSet
      BY <1>1, <1>2, StepTypes, SmallSteps
    <3>2. u \in Seq(StepSet)
      BY <3>1
    <3>3. QED
      BY <3>2 DEF Must, Get, Opt, Blind, Uses, Given, Step
  <2>2. /\ v \in Seq(StepSet) /\ Len(v) = 3
        /\ v[1] = Step("must", "chrdev", <<DropIf("ports", "ports")>>, "always")
        /\ v[2] = Step("opt", "page", <<>>, "always")
        /\ v[3] = Step("opt", "irq", <<>>, "always")
    <3>1. {Must("chrdev", <<DropIf("ports", "ports")>>), Opt("page"),
                                                             Opt("irq")} \subseteq StepSet
      BY <1>1, <1>2, StepTypes, SmallSteps
    <3>2. v \in Seq(StepSet)
      BY <3>1
    <3>3. QED
      BY <3>2 DEF Must, Get, Opt, Blind, Uses, Given, Step
  <2>3. s = u \o v
    BY DEF short_init
  <2> HIDE DEF u, v, s
  <2> DEFINE j == u \o v
  <2>4. j \in Seq(StepSet)
    BY <2>1, <2>2
  <2>5. /\ Len(j) = Len(u) + Len(v)
        /\ \A i \in 1 .. Len(u) + Len(v) : j[i] = IF i <= Len(u) THEN u[i] ELSE v[i - Len(u)]
    BY <2>1, <2>2, ConcatProperties
  <2> HIDE DEF j
  <2>6. /\ Len(j) = 5 /\ j[1] = u[1] /\ j[2] = u[2] /\ j[3] = v[1] /\ j[4] = v[2]
        /\ j[5] = v[3]
    BY <2>1, <2>2, <2>5
  <2>7. s = j
    BY <2>3 DEF j
  <2>8. /\ s \in Seq(StepSet) /\ Len(s) = 5
        /\ s[1] = u[1] /\ s[2] = u[2] /\ s[3] = v[1] /\ s[4] = v[2] /\ s[5] = v[3]
    BY <2>4, <2>6, <2>7
  <2>9. QED
    BY <2>1, <2>2, <2>8, SmallSteps, LenProperties
<1>4. Plans["short_mem"] = Plain(s, c)
  BY DEF Plans
<1> HIDE DEF s, c
<1>5. Left("short_mem") = {"iomem", "ioremap"}
      /\ Kept("short_mem") = {"iomem", "ioremap"} \cup Inert
  BY DEF Left, Leftovers, Kept
<1>6. Forward("short_mem", s)
  BY <1>3 DEF Forward, Acquires, Careful, Step, Inert
<1>7. /\ \A i \in DOMAIN c : c[i].op = "drop" /\ c[i].undo = <<>> /\ c[i].res \notin Inert
      /\ \A H : Returns(c, 1, H)
      /\ \A H : Returns(c, 2, H)
      /\ \A H : Returns(c, 3, H)
      /\ \A H : Returns(c, 4, H)
      /\ \A H : Returns(c, 5, H)
  <2>1. \A i \in DOMAIN c : c[i].op = "drop" /\ c[i].undo = <<>> /\ c[i].res \notin Inert
    BY <1>2 DEF Inert, Step
  <2>2. \A H : Returns(c, 1, H)
    BY <1>2 DEF Returns, Step
  <2>3. \A H : Returns(c, 2, H)
    BY <1>2 DEF Returns, Step
  <2>4. \A H : Returns(c, 3, H)
    BY <1>2 DEF Returns, Step
  <2>5. \A H : Returns(c, 4, H)
    BY <1>2 DEF Returns, Step
  <2>6. \A H : Returns(c, 5, H)
    BY <1>2 DEF Returns, Step
  <2>7. QED
    BY <2>1, <2>2, <2>3, <2>4, <2>5, <2>6
<1>8. ASSUME NEW H \in Possible(s, 1, {}, Left("short_mem"))
      PROVE  Cleans("short_mem", s[1].undo, H, Kept("short_mem"))
  <2>1. Paired(H)
    BY <1>8, PossibleMeans
  <2>2. H \subseteq {"iomem", "ioremap"}
    BY <1>8, <1>5, PossibleMeans
  <2>3. Paired(H)
    BY <1>8, PossibleMeans
  <2>4. QED
    BY <1>3, <1>5, <2>1, <2>2 DEF Cleans, Inert, Exclusive, Drop, DropIf, Given, Step
<1>9. ASSUME NEW H \in Possible(s, 3, {}, Left("short_mem"))
      PROVE  Cleans("short_mem", s[3].undo, H, Kept("short_mem"))
  <2>1. {"iomem", "ioremap"} \subseteq H
    <3>1. \A j \in {1, 2} : s[j].op \in {"get", "must"} /\ s[j].given = "always"
      BY <1>3 DEF Step
    <3>2. s[1].res = "iomem" /\ s[2].res = "ioremap"
      BY <1>3 DEF Step
    <3>3. \A j \in {1, 2} : s[j].res # "p_region"
      BY <3>2
    <3>4. QED
      BY <3>1, <3>2, <3>3, <1>9, PossibleMeans
  <2>2. H \subseteq {"iomem", "ioremap"}
    <3>1. \A j \in 1 .. 2 : s[j].op \in Acquires => s[j].res \in {"iomem", "ioremap"}
      BY <1>3 DEF Acquires, Step
    <3>2. QED
      BY <3>1, <1>9, <1>5, PossibleMeans
  <2>3. Paired(H)
    BY <1>9, PossibleMeans
  <2>4. QED
    BY <1>3, <1>5, <2>1, <2>2 DEF Cleans, Inert, Exclusive, Drop, DropIf, Given, Step
<1>10. Undone("short_mem", s, {}, Left("short_mem"), Kept("short_mem"))
  <2>1. SUFFICES ASSUME NEW i \in 1 .. 5, s[i].op = "must",
                        NEW H \in Possible(s, i, {}, Left("short_mem"))
                 PROVE  Cleans("short_mem", s[i].undo, H, Kept("short_mem"))
    BY <1>3 DEF Undone
  <2>2. i \in {1, 3}
    BY <1>3, <2>1 DEF Step
  <2>3. QED
    BY <1>8, <1>9, <2>1, <2>2
<1>11. ASSUME NEW H \in Possible(s, 6, {}, Left("short_mem"))
      PROVE  Cleans("short_mem", c, H, Kept("short_mem"))
  <2>1. {"iomem", "ioremap", "chrdev"} \subseteq H
    <3>1. \A j \in {1, 2, 3} : s[j].op \in {"get", "must"} /\ s[j].given = "always"
      BY <1>3 DEF Step
    <3>2. s[1].res = "iomem" /\ s[2].res = "ioremap" /\ s[3].res = "chrdev"
      BY <1>3 DEF Step
    <3>3. \A j \in {1, 2, 3} : s[j].res # "p_region"
      BY <3>2
    <3>4. QED
      BY <3>1, <3>2, <3>3, <1>11, PossibleMeans
  <2>2. H \subseteq {"iomem", "ioremap", "chrdev", "page", "irq"}
    <3>1. \A j \in 1 .. 5 : s[j].op \in Acquires =>
              s[j].res \in {"iomem", "ioremap", "chrdev", "page", "irq"}
      BY <1>3 DEF Acquires, Step
    <3>2. QED
      BY <3>1, <1>11, <1>5, PossibleMeans
  <2>3. Paired(H)
    BY <1>11, PossibleMeans
  <2>4. \A x \in H \ Kept("short_mem") : \E i \in DOMAIN c : c[i].res = x /\ Returns(c, i, H)
    BY <1>2, <1>7, <1>5, <2>1, <2>2, <2>3 DEF Inert, Paired, Step
  <2>5. "short_mem" \in Careful => \A i \in DOMAIN c : Proper(c, i, H)
    BY <1>2, <2>1, <2>2, <2>3 DEF Proper, Exclusive, Step
  <2>6. QED
    BY <1>7, <2>4, <2>5, CleansWhen
<1>12. Reached("short_mem", s, {})
  BY DEF Reached, Opened
<1>13. Len(s) + 1 = 6 /\ "p_cdevs" \notin Left("short_mem") /\ Left("short_mem") \cap Node = {}
  BY <1>3, <1>5 DEF Node
<1>14. QED
  BY <1>2, <1>3, <1>4, <1>5, <1>6, <1>11, <1>10, <1>12, <1>13, PlainIsWritten

(* scull with its friends: the pipes' devices follow the pipes' region.    *)
LEMMA ScullIsWritten == Written("scull")
<1> DEFINE s == scull_init_module  c == scull_cleanup_module
<1>1. {"region", "devices", "sem", "cdevs", "p_region", "p_devices", "p_cdevs",
       "a_region", "a_cdevs"} \subseteq Resources
  BY DEF Resources
<1>2. /\ c \in Seq(StepSet) /\ Len(c) = 7 /\ DOMAIN c = 1 .. 7 /\ c \in Seq(Simple)
      /\ c[1] = Step("drop", "cdevs", <<>>, "devices")
      /\ c[2] = Step("drop", "devices", <<>>, "devices")
      /\ c[3] = Step("drop", "region", <<>>, "always")
      /\ c[4] = Step("drop", "p_cdevs", <<>>, "p_devices")
      /\ c[5] = Step("drop", "p_devices", <<>>, "p_devices")
      /\ c[6] = Step("drop", "p_region", <<>>, "p_region")
      /\ c[7] = Step("drop", "a_cdevs", <<>>, "always")
  <2> DEFINE u == <<DropIf("cdevs", "devices"), DropIf("devices", "devices"), Drop("region")>>
             v == scull_p_cleanup
             w == scull_access_cleanup
  <2>1. /\ u \in Seq(Simple) /\ Len(u) = 3
        /\ u[1] = Step("drop", "cdevs", <<>>, "devices")
        /\ u[2] = Step("drop", "devices", <<>>, "devices")
        /\ u[3] = Step("drop", "region", <<>>, "always")
    <3>1. {DropIf("cdevs", "devices"), DropIf("devices", "devices"),
                                              Drop("region")} \subseteq Simple
      BY <1>1, StepTypes
    <3>2. u \in Seq(Simple)
      BY <3>1
    <3>3. QED
      BY <3>2 DEF DropIf, Drop, Given, Step
  <2>2. /\ v \in Seq(Simple) /\ Len(v) = 3
        /\ v[1] = Step("drop", "p_cdevs", <<>>, "p_devices")
        /\ v[2] = Step("drop", "p_devices", <<>>, "p_devices")
        /\ v[3] = Step("drop", "p_region", <<>>, "p_region")
    <3>1. {DropIf("p_cdevs", "p_devices"), DropIf("p_devices", "p_devices"),
             DropIf("p_region", "p_region")} \subseteq Simple
      BY <1>1, StepTypes
    <3>2. v \in Seq(Simple)
      BY <3>1 DEF scull_p_cleanup
    <3>3. QED
      BY <3>2 DEF scull_p_cleanup, DropIf, Drop, Given, Step
  <2>3. /\ w \in Seq(Simple) /\ Len(w) = 1
        /\ w[1] = Step("drop", "a_cdevs", <<>>, "always")
    <3>1. {Drop("a_cdevs")} \subseteq Simple
      BY <1>1, StepTypes
    <3>2. w \in Seq(Simple)
      BY <3>1 DEF scull_access_cleanup
    <3>3. QED
      BY <3>2 DEF scull_access_cleanup, DropIf, Drop, Given, Step
  <2>4. c = u \o v \o w
    BY DEF scull_cleanup_module
  <2> HIDE DEF u, v, w, c
  <2> DEFINE j == u \o v
  <2>5. j \in Seq(Simple)
    BY <2>1, <2>2, <2>3
  <2>6. /\ Len(j) = Len(u) + Len(v)
        /\ \A i \in 1 .. Len(u) + Len(v) : j[i] = IF i <= Len(u) THEN u[i] ELSE v[i - Len(u)]
    BY <2>1, <2>2, <2>3, ConcatProperties
  <2> HIDE DEF j
  <2>7. /\ Len(j) = 6 /\ j[1] = u[1] /\ j[2] = u[2] /\ j[3] = u[3] /\ j[4] = v[1]
        /\ j[5] = v[2] /\ j[6] = v[3]
    BY <2>1, <2>2, <2>3, <2>6
  <2> DEFINE t == j \o w
  <2>8. t \in Seq(Simple)
    BY <2>1, <2>2, <2>3, <2>5, <2>7
  <2>9. /\ Len(t) = Len(j) + Len(w)
        /\ \A i \in 1 .. Len(j) + Len(w) : t[i] = IF i <= Len(j) THEN j[i] ELSE w[i - Len(j)]
    BY <2>1, <2>2, <2>3, <2>5, <2>7, ConcatProperties
  <2> HIDE DEF t
  <2>10. /\ Len(t) = 7 /\ t[1] = j[1] /\ t[2] = j[2] /\ t[3] = j[3] /\ t[4] = j[4]
         /\ t[5] = j[5] /\ t[6] = j[6] /\ t[7] = w[1]
    BY <2>1, <2>2, <2>3, <2>5, <2>7, <2>9
  <2>11. c = t
    BY <2>4 DEF j, t
  <2>12. /\ c \in Seq(Simple) /\ Len(c) = 7
         /\ c[1] = u[1] /\ c[2] = u[2] /\ c[3] = u[3] /\ c[4] = v[1] /\ c[5] = v[2]
         /\ c[6] = v[3] /\ c[7] = w[1]
    BY <2>5, <2>7, <2>8, <2>10, <2>11
  <2>13. QED
    BY <2>1, <2>2, <2>3, <2>12, SmallSteps, LenProperties
<1>3. /\ s \in Seq(StepSet) /\ Len(s) = 9 /\ DOMAIN s = 1 .. 9
      /\ s[1] = Step("must", "region", <<>>, "always")
      /\ s[2] = Step("must", "devices", c, "always")
      /\ s[3] = Step("get", "sem", <<>>, "always")
      /\ s[4] = Step("get", "cdevs", <<>>, "always")
      /\ s[5] = Step("opt", "p_region", <<>>, "always")
      /\ s[6] = Step("opt", "p_devices", <<Drop("p_region")>>, "p_region")
      /\ s[7] = Step("get", "p_cdevs", <<>>, "p_devices")
      /\ s[8] = Step("opt", "a_region", <<>>, "always")
      /\ s[9] = Step("get", "a_cdevs", <<>>, "a_region")
  <2> DEFINE u == <<Must("region", <<>>), Must("devices", c), Get("sem"), Get("cdevs")>>
             v == scull_p_init
             w == scull_access_init
  <2>1. /\ u \in Seq(StepSet) /\ Len(u) = 4
        /\ u[1] = Step("must", "region", <<>>, "always")
        /\ u[2] = Step("must", "devices", c, "always")
        /\ u[3] = Step("get", "sem", <<>>, "always")
        /\ u[4] = Step("get", "cdevs", <<>>, "always")
    <3>1. {Must("region", <<>>), Must("devices", c), Get("sem")} \subseteq StepSet
      BY <1>1, <1>2, StepTypes, SmallSteps
    <3>2. {Get("cdevs")} \subseteq StepSet
      BY <1>1, <1>2, StepTypes, SmallSteps
    <3>3. u \in Seq(StepSet)
      BY <3>1, <3>2
    <3>4. QED
      BY <3>3 DEF Must, Get, Opt, Blind, Uses, Given, Step
  <2>2. /\ v \in Seq(StepSet) /\ Len(v) = 3
        /\ v[1] = Step("opt", "p_region", <<>>, "always")
        /\ v[2] = Step("opt", "p_devices", <<Drop("p_region")>>, "p_region")
        /\ v[3] = Step("get", "p_cdevs", <<>>, "p_devices")
    <3>1. {Opt("p_region"),
             Given("p_region", Step("opt", "p_devices", <<Drop("p_region")>>, "always")),
             Given("p_devices", Get("p_cdevs"))} \subseteq StepSet
      BY <1>1, <1>2, StepTypes, SmallSteps
    <3>2. v \in Seq(StepSet)
      BY <3>1 DEF scull_p_init
    <3>3. QED
      BY <3>2 DEF scull_p_init, Must, Get, Opt, Blind, Uses, Given, Step
  <2>3. /\ w \in Seq(StepSet) /\ Len(w) = 2
        /\ w[1] = Step("opt", "a_region", <<>>, "always")
        /\ w[2] = Step("get", "a_cdevs", <<>>, "a_region")
    <3>1. {Opt("a_region"), Given("a_region", Get("a_cdevs"))} \subseteq StepSet
      BY <1>1, <1>2, StepTypes, SmallSteps
    <3>2. w \in Seq(StepSet)
      BY <3>1 DEF scull_access_init
    <3>3. QED
      BY <3>2 DEF scull_access_init, Must, Get, Opt, Blind, Uses, Given, Step
  <2>4. s = u \o v \o w
    BY DEF scull_init_module
  <2> HIDE DEF u, v, w, s
  <2> DEFINE j == u \o v
  <2>5. j \in Seq(StepSet)
    BY <2>1, <2>2, <2>3
  <2>6. /\ Len(j) = Len(u) + Len(v)
        /\ \A i \in 1 .. Len(u) + Len(v) : j[i] = IF i <= Len(u) THEN u[i] ELSE v[i - Len(u)]
    BY <2>1, <2>2, <2>3, ConcatProperties
  <2> HIDE DEF j
  <2>7. /\ Len(j) = 7 /\ j[1] = u[1] /\ j[2] = u[2] /\ j[3] = u[3] /\ j[4] = u[4]
        /\ j[5] = v[1] /\ j[6] = v[2] /\ j[7] = v[3]
    BY <2>1, <2>2, <2>3, <2>6
  <2> DEFINE t == j \o w
  <2>8. t \in Seq(StepSet)
    BY <2>1, <2>2, <2>3, <2>5, <2>7
  <2>9. /\ Len(t) = Len(j) + Len(w)
        /\ \A i \in 1 .. Len(j) + Len(w) : t[i] = IF i <= Len(j) THEN j[i] ELSE w[i - Len(j)]
    BY <2>1, <2>2, <2>3, <2>5, <2>7, ConcatProperties
  <2> HIDE DEF t
  <2>10. /\ Len(t) = 9 /\ t[1] = j[1] /\ t[2] = j[2] /\ t[3] = j[3] /\ t[4] = j[4]
         /\ t[5] = j[5] /\ t[6] = j[6] /\ t[7] = j[7] /\ t[8] = w[1] /\ t[9] = w[2]
    BY <2>1, <2>2, <2>3, <2>5, <2>7, <2>9
  <2>11. s = t
    BY <2>4 DEF j, t
  <2>12. /\ s \in Seq(StepSet) /\ Len(s) = 9
         /\ s[1] = u[1] /\ s[2] = u[2] /\ s[3] = u[3] /\ s[4] = u[4] /\ s[5] = v[1]
         /\ s[6] = v[2] /\ s[7] = v[3] /\ s[8] = w[1] /\ s[9] = w[2]
    BY <2>5, <2>7, <2>8, <2>10, <2>11
  <2>13. QED
    BY <2>1, <2>2, <2>3, <2>12, SmallSteps, LenProperties
<1>4. Plans["scull"] = Plain(s, c)
  BY DEF Plans
<1> HIDE DEF s, c
<1>5. Left("scull") = {"a_region"} /\ Kept("scull") = {"a_region"} \cup Inert
  BY DEF Left, Leftovers, Kept
<1>6. Forward("scull", s)
  BY <1>3 DEF Forward, Acquires, Careful, Step, Inert
<1>7. /\ \A i \in DOMAIN c : c[i].op = "drop" /\ c[i].undo = <<>> /\ c[i].res \notin Inert
      /\ \A H : "devices" \in H => Returns(c, 1, H)
      /\ \A H : Returns(c, 2, H)
      /\ \A H : Returns(c, 3, H)
      /\ \A H : "p_devices" \in H => Returns(c, 4, H)
      /\ \A H : Returns(c, 5, H)
      /\ \A H : Returns(c, 6, H)
      /\ \A H : Returns(c, 7, H)
  <2>1. \A i \in DOMAIN c : c[i].op = "drop" /\ c[i].undo = <<>> /\ c[i].res \notin Inert
    BY <1>2 DEF Inert, Step
  <2>2. \A H : "devices" \in H => Returns(c, 1, H)
    BY <1>2 DEF Returns, Step
  <2>3. \A H : Returns(c, 2, H)
    BY <1>2 DEF Returns, Step
  <2>4. \A H : Returns(c, 3, H)
    BY <1>2 DEF Returns, Step
  <2>5. \A H : "p_devices" \in H => Returns(c, 4, H)
    BY <1>2 DEF Returns, Step
  <2>6. \A H : Returns(c, 5, H)
    BY <1>2 DEF Returns, Step
  <2>7. \A H : Returns(c, 6, H)
    BY <1>2 DEF Returns, Step
  <2>8. \A H : Returns(c, 7, H)
    BY <1>2 DEF Returns, Step
  <2>9. QED
    BY <2>1, <2>2, <2>3, <2>4, <2>5, <2>6, <2>7, <2>8
<1>8. ASSUME NEW H \in Possible(s, 1, {}, Left("scull"))
      PROVE  Cleans("scull", s[1].undo, H, Kept("scull"))
  <2>1. Paired(H)
    BY <1>8, PossibleMeans
  <2>2. H \subseteq {"a_region"}
    BY <1>8, <1>5, PossibleMeans
  <2>3. Paired(H)
    BY <1>8, PossibleMeans
  <2>4. QED
    BY <1>3, <1>5, <2>1, <2>2 DEF Cleans, Inert, Exclusive, Drop, DropIf, Given, Step
<1>9. ASSUME NEW H \in Possible(s, 2, {}, Left("scull"))
      PROVE  Cleans("scull", s[2].undo, H, Kept("scull"))
  <2>1. {"region"} \subseteq H
    <3>1. \A j \in {1} : s[j].op \in {"get", "must"} /\ s[j].given = "always"
      BY <1>3 DEF Step
    <3>2. s[1].res = "region"
      BY <1>3 DEF Step
    <3>3. \A j \in {1} : s[j].res # "p_region"
      BY <3>2
    <3>4. QED
      BY <3>1, <3>2, <3>3, <1>9, PossibleMeans
  <2>2. H \subseteq {"a_region", "region"}
    <3>1. \A j \in 1 .. 1 : s[j].op \in Acquires => s[j].res \in {"region"}
      BY <1>3 DEF Acquires, Step
    <3>2. QED
      BY <3>1, <1>9, <1>5, PossibleMeans
  <2>3. Paired(H)
    BY <1>9, PossibleMeans
  <2>4. s[2].undo = c
    BY <1>3 DEF Step
  <2>5. \A x \in H \ Kept("scull") : \E i \in DOMAIN c : c[i].res = x /\ Returns(c, i, H)
    BY <1>2, <1>7, <1>5, <2>1, <2>2, <2>3 DEF Inert, Paired, Step
  <2>6. "scull" \in Careful => \A i \in DOMAIN c : Proper(c, i, H)
    BY DEF Careful
  <2>7. QED
    BY <2>4, <1>7, <2>5, <2>6, CleansWhen
<1>10. Undone("scull", s, {}, Left("scull"), Kept("scull"))
  <2>1. SUFFICES ASSUME NEW i \in 1 .. 9, s[i].op = "must",
                        NEW H \in Possible(s, i, {}, Left("scull"))
                 PROVE  Cleans("scull", s[i].undo, H, Kept("scull"))
    BY <1>3 DEF Undone
  <2>2. i \in {1, 2}
    BY <1>3, <2>1 DEF Step
  <2>3. QED
    BY <1>8, <1>9, <2>1, <2>2
<1>11. ASSUME NEW H \in Possible(s, 10, {}, Left("scull"))
      PROVE  Cleans("scull", c, H, Kept("scull"))
  <2>1. {"region", "devices", "sem", "cdevs"} \subseteq H
    <3>1. \A j \in {1, 2, 3, 4} : s[j].op \in {"get", "must"} /\ s[j].given = "always"
      BY <1>3 DEF Step
    <3>2. s[1].res = "region" /\ s[2].res = "devices" /\ s[3].res = "sem" /\ s[4].res = "cdevs"
      BY <1>3 DEF Step
    <3>3. \A j \in {1, 2, 3, 4} : s[j].res # "p_region"
      BY <3>2
    <3>4. QED
      BY <3>1, <3>2, <3>3, <1>11, PossibleMeans
  <2>2. H \subseteq {"a_region", "region", "devices", "sem", "cdevs", "p_region",
                   "p_devices", "p_cdevs", "a_cdevs"}
    <3>1. \A j \in 1 .. 9 : s[j].op \in Acquires =>
              s[j].res \in {"region", "devices", "sem", "cdevs", "p_region", "p_devices",
                            "p_cdevs",
              "a_region", "a_cdevs"}
      BY <1>3 DEF Acquires, Step
    <3>2. QED
      BY <3>1, <1>11, <1>5, PossibleMeans
  <2>3. Paired(H)
    BY <1>11, PossibleMeans
  <2>4. \A x \in H \ Kept("scull") : \E i \in DOMAIN c : c[i].res = x /\ Returns(c, i, H)
    BY <1>2, <1>7, <1>5, <2>1, <2>2, <2>3 DEF Inert, Paired, Step
  <2>5. "scull" \in Careful => \A i \in DOMAIN c : Proper(c, i, H)
    BY DEF Careful
  <2>6. QED
    BY <1>7, <2>4, <2>5, CleansWhen
<1>12. Reached("scull", s, {})
  <2>1. SUFFICES ASSUME NEW i \in 1 .. 9, s[i].op \in Acquires, s[i].res \in Node
                 PROVE  /\ Devs \subseteq Sure(s, i, {}) \cup {s[i].res}
                        /\ \A m \in i + 1 .. Len(s) : s[m].op # "must"
    BY <1>3 DEF Reached
  <2>2. i \in {4, 7, 9}
    BY <1>3, <2>1 DEF Node, Step
  <2>3. {"devices", "sem"} \subseteq Sure(s, 4, {})
    <3>1. \A j \in {2, 3} : s[j].op \in {"get", "must"} /\ s[j].given = "always"
      BY <1>3 DEF Step
    <3>2. s[2].res = "devices" /\ s[3].res = "sem"
      BY <1>3 DEF Step
    <3>3. \A j \in {2, 3} : s[j].res # "p_region" /\ j \in 1 .. 4 - 1
      BY <3>2
    <3>4. QED
      BY <3>1, <3>2, <3>3, SureMeans
  <2>4. {"devices", "sem", "cdevs"} \subseteq Sure(s, 7, {})
    <3>1. \A j \in {2, 3, 4} : s[j].op \in {"get", "must"} /\ s[j].given = "always"
      BY <1>3 DEF Step
    <3>2. s[2].res = "devices" /\ s[3].res = "sem" /\ s[4].res = "cdevs"
      BY <1>3 DEF Step
    <3>3. \A j \in {2, 3, 4} : s[j].res # "p_region" /\ j \in 1 .. 7 - 1
      BY <3>2
    <3>4. QED
      BY <3>1, <3>2, <3>3, SureMeans
  <2>5. {"devices", "sem", "cdevs"} \subseteq Sure(s, 9, {})
    <3>1. \A j \in {2, 3, 4} : s[j].op \in {"get", "must"} /\ s[j].given = "always"
      BY <1>3 DEF Step
    <3>2. s[2].res = "devices" /\ s[3].res = "sem" /\ s[4].res = "cdevs"
      BY <1>3 DEF Step
    <3>3. \A j \in {2, 3, 4} : s[j].res # "p_region" /\ j \in 1 .. 9 - 1
      BY <3>2
    <3>4. QED
      BY <3>1, <3>2, <3>3, SureMeans
  <2>6. \A m \in 3 .. 9 : s[m].op # "must"
    BY <1>3 DEF Step
  <2>7. QED
    BY <1>3, <2>2, <2>3, <2>4, <2>5, <2>6 DEF Devs, Step
<1>13. Len(s) + 1 = 10 /\ "p_cdevs" \notin Left("scull") /\ Left("scull") \cap Node = {}
  BY <1>3, <1>5 DEF Node
<1>14. QED
  BY <1>2, <1>3, <1>4, <1>5, <1>6, <1>11, <1>10, <1>12, <1>13, PlainIsWritten

(* The pci skeleton.                                                       *)
LEMMA PciIsWritten == Written("pci")
<1> DEFINE s == pci_skel_init  p == pci_probe  r == pci_remove  c == pci_skel_exit
<1>1. {"driver", "enabled"} \subseteq Resources
  BY DEF Resources
<1>2. /\ c \in Seq(StepSet) /\ Len(c) = 1 /\ DOMAIN c = 1 .. 1 /\ c \in Seq(Simple)
      /\ c[1] = Step("drop", "driver", <<>>, "always")
  <2>1. {Drop("driver")} \subseteq Simple
    BY <1>1, StepTypes
  <2>2. c \in Seq(Simple)
    BY <2>1 DEF pci_skel_exit
  <2>3. QED
    BY <2>2, SmallSteps DEF pci_skel_exit, DropIf, Drop, Given, Step
<1>3. /\ r \in Seq(StepSet) /\ Len(r) = 0 /\ DOMAIN r = 1 .. 0 /\ r \in Seq(Simple)
  BY StepTypes, SmallSteps DEF pci_remove
<1>4. /\ s \in Seq(StepSet) /\ Len(s) = 1 /\ DOMAIN s = 1 .. 1
      /\ s[1] = Step("must", "driver", <<>>, "always")
  <2>1. {Must("driver", <<>>)} \subseteq StepSet
    BY <1>1, StepTypes, SmallSteps
  <2>2. s \in Seq(StepSet)
    BY <2>1 DEF pci_skel_init
  <2>3. QED
    BY <2>2, SmallSteps DEF pci_skel_init, Must, Get, Opt, Blind, Uses, Given, Step
<1>5. /\ p \in Seq(StepSet) /\ Len(p) = 1 /\ DOMAIN p = 1 .. 1
      /\ p[1] = Step("get", "enabled", <<>>, "always")
  <2>1. {Get("enabled")} \subseteq StepSet
    BY <1>1, StepTypes, SmallSteps
  <2>2. p \in Seq(StepSet)
    BY <2>1 DEF pci_probe
  <2>3. QED
    BY <2>2, SmallSteps DEF pci_probe, Must, Get, Opt, Blind, Uses, Given, Step
<1>6. Plans["pci"] = Life(s, p, r, c) /\ p # <<>> /\ "pci" \notin Opened
  <2>1. Plans["pci"] = Life(s, p, r, c)
    BY DEF Plans
  <2>2. p # <<>>
    BY DEF pci_probe
  <2>3. "pci" \notin Opened
    BY DEF Opened
  <2>4. QED
    BY <2>1, <2>2, <2>3
<1> HIDE DEF s, p, r, c
<1>7. /\ Left("pci") = {"enabled"} /\ Kept("pci") = {"enabled"} \cup Inert
      /\ Loaded("pci") = {"enabled", "sem", "gpio", "defio_mem", "panel", "driver"}
         /\ "p_cdevs" \notin Loaded("pci")
  <2>1. Left("pci") = {"enabled"} /\ Kept("pci") = {"enabled"} \cup Inert
    BY DEF Left, Leftovers, Kept
  <2>2. {Plans["pci"].in[j].res : j \in DOMAIN Plans["pci"].in} = {"driver"}
    BY <1>4, <1>6 DEF Life, Step
  <2>3. QED
    BY <2>1, <2>2 DEF Loaded, Inert
<1>8. Forward("pci", s)
  BY <1>4 DEF Forward, Acquires, Careful, Step, Inert
<1>9. Forward("pci", p)
  BY <1>5 DEF Forward, Acquires, Careful, Step, Inert
<1>10. /\ \A i \in DOMAIN c : c[i].op = "drop" /\ c[i].undo = <<>> /\ c[i].res \notin Inert
       /\ \A H : Returns(c, 1, H)
  <2>1. \A i \in DOMAIN c : c[i].op = "drop" /\ c[i].undo = <<>> /\ c[i].res \notin Inert
    BY <1>2 DEF Inert, Step
  <2>2. \A H : Returns(c, 1, H)
    BY <1>2 DEF Returns, Step
  <2>3. QED
    BY <2>1, <2>2
<1>11. /\ \A i \in DOMAIN r : r[i].op = "drop" /\ r[i].undo = <<>> /\ r[i].res \notin Inert
  BY <1>3
<1>12. ASSUME NEW H \in Possible(s, 1, {}, Left("pci"))
      PROVE  Cleans("pci", s[1].undo, H, Kept("pci"))
  <2>1. Paired(H)
    BY <1>12, PossibleMeans
  <2>2. H \subseteq {"enabled"}
    BY <1>12, <1>7, PossibleMeans
  <2>3. Paired(H)
    BY <1>12, PossibleMeans
  <2>4. QED
    BY <1>4, <1>7, <2>1, <2>2 DEF Cleans, Inert, Exclusive, Drop, DropIf, Given, Step
<1>13. Undone("pci", s, {}, Left("pci"), Kept("pci"))
  <2>1. SUFFICES ASSUME NEW i \in 1 .. 1, s[i].op = "must",
                        NEW H \in Possible(s, i, {}, Left("pci"))
                 PROVE  Cleans("pci", s[i].undo, H, Kept("pci"))
    BY <1>4 DEF Undone
  <2>2. i \in {1}
    BY <1>4, <2>1 DEF Step
  <2>3. QED
    BY <1>12, <2>1, <2>2
<1>14. ASSUME NEW H \in Possible(s, 2, {}, Left("pci"))
      PROVE  H \subseteq Loaded("pci")
  <2>1. {"driver"} \subseteq H
    <3>1. \A j \in {1} : s[j].op \in {"get", "must"} /\ s[j].given = "always"
      BY <1>4 DEF Step
    <3>2. s[1].res = "driver"
      BY <1>4 DEF Step
    <3>3. \A j \in {1} : s[j].res # "p_region"
      BY <3>2
    <3>4. QED
      BY <3>1, <3>2, <3>3, <1>14, PossibleMeans
  <2>2. H \subseteq {"enabled", "driver"}
    <3>1. \A j \in 1 .. 1 : s[j].op \in Acquires => s[j].res \in {"driver"}
      BY <1>4 DEF Acquires, Step
    <3>2. QED
      BY <3>1, <1>14, <1>7, PossibleMeans
  <2>3. Paired(H)
    BY <1>14, PossibleMeans
  <2>4. QED
    BY <1>7, <2>2
<1>15. ASSUME NEW H \in SUBSET Loaded("pci")
      PROVE  Cleans("pci", c, H, Kept("pci"))
  <2>1. H \subseteq {"enabled", "sem", "gpio", "defio_mem", "panel", "driver"}
    BY <1>7
  <2>2. \A i \in DOMAIN c : "pci" \in Careful => Proper(c, i, H)
    BY <1>2, <2>1 DEF Proper, Exclusive, Step
  <2>3. \A x \in H \ Kept("pci") : \E i \in DOMAIN c : c[i].res = x /\ Returns(c, i, H)
    BY <1>2, <1>10, <1>7, <2>1 DEF Inert, Step
  <2>4. QED
    BY <1>10, <2>2, <2>3, CleansWhen
<1>16. Undone("pci", p, {}, Loaded("pci"), Loaded("pci"))
  BY <1>5 DEF Undone, Step
<1> DEFINE b == r \o c
<1>17. /\ DOMAIN b = 1 .. 1
       /\ b[1] = Step("drop", "driver", <<>>, "always")
  <2>1. /\ Len(b) = Len(r) + Len(c)
        /\ \A i \in 1 .. Len(r) + Len(c) : b[i] = IF i <= Len(r) THEN r[i] ELSE c[i - Len(r)]
    BY <1>2, <1>3, ConcatProperties
  <2>2. b \in Seq(StepSet)
    BY <1>2, <1>3
  <2> HIDE DEF b
  <2>3. DOMAIN b = 1 .. 1
    BY <1>2, <1>3, <2>1, <2>2, LenProperties
  <2>4. b[1] = c[1]
    BY <1>2, <1>3, <2>1
  <2>5. QED
    BY <1>2, <1>3, <2>3, <2>4
<1> HIDE DEF b
<1>18. /\ \A i \in DOMAIN b : b[i].op = "drop" /\ b[i].undo = <<>> /\ b[i].res \notin Inert
       /\ \A H : Returns(b, 1, H)
  <2>1. \A i \in DOMAIN b : b[i].op = "drop" /\ b[i].undo = <<>> /\ b[i].res \notin Inert
    BY <1>17 DEF Inert, Step
  <2>2. \A H : Returns(b, 1, H)
    BY <1>17 DEF Returns, Step
  <2>3. QED
    BY <2>1, <2>2
<1>19. ASSUME NEW H \in Possible(p, 2, {}, Loaded("pci"))
      PROVE  Cleans("pci", b, H, Kept("pci")) /\ Cleans("pci", r, H, Loaded("pci"))
  <2>1. {"enabled"} \subseteq H
    <3>1. \A j \in {1} : p[j].op \in {"get", "must"} /\ p[j].given = "always"
      BY <1>5 DEF Step
    <3>2. p[1].res = "enabled"
      BY <1>5 DEF Step
    <3>3. \A j \in {1} : p[j].res # "p_region"
      BY <3>2
    <3>4. QED
      BY <3>1, <3>2, <3>3, <1>19, PossibleMeans
  <2>2. H \subseteq {"enabled", "sem", "gpio", "defio_mem", "panel", "driver"}
    <3>1. \A j \in 1 .. 1 : p[j].op \in Acquires => p[j].res \in {"enabled"}
      BY <1>5 DEF Acquires, Step
    <3>2. QED
      BY <3>1, <1>19, <1>7, PossibleMeans
  <2>3. Paired(H)
    BY <1>19, PossibleMeans
  <2>4. \A x \in H \ Kept("pci") : \E i \in DOMAIN b : b[i].res = x /\ Returns(b, i, H)
    <3>1. H \ Kept("pci") \subseteq {"driver"}
      BY <1>7, <2>2 DEF Inert
    <3>2. b[1].res = "driver"
      BY <1>17 DEF Step
    <3>3. {1} \subseteq DOMAIN b
      BY <1>17
    <3>4. Returns(b, 1, H)
      BY <1>18
    <3>5. QED
      BY <3>1, <3>2, <3>3, <3>4
  <2>5. "pci" \in Careful => \A i \in DOMAIN b : Proper(b, i, H)
    BY <1>17, <2>1, <2>2, <2>3 DEF Proper, Exclusive, Step
  <2>6. Cleans("pci", b, H, Kept("pci"))
    BY <1>18, <2>4, <2>5, CleansWhen
  <2>7. \A x \in H \ Loaded("pci") : \E i \in DOMAIN r : r[i].res = x /\ Returns(r, i, H)
    <3>1. H \ Loaded("pci") \subseteq {}
      BY <1>7, <2>2 DEF Inert
    <3>2. QED
      BY <3>1
  <2>8. "pci" \in Careful => \A i \in DOMAIN r : Proper(r, i, H)
    BY <1>3, <2>1, <2>2, <2>3 DEF Proper, Exclusive, Step
  <2>9. Cleans("pci", r, H, Loaded("pci"))
    BY <1>11, <2>7, <2>8, CleansWhen
  <2>10. QED
    BY <2>6, <2>9
<1>20. Len(s) + 1 = 2 /\ Len(p) + 1 = 2
  BY <1>4, <1>5
<1>21. QED
  BY <1>20, <1>2, <1>3, <1>4, <1>5, <1>6, <1>7, <1>8, <1>9, <1>13, <1>14, <1>15, <1>16, <1>19,
     ProbedIsWritten DEF b

(* The SSD1309 as a character device.                                      *)
LEMMA OledIsWritten == Written("spioled")
<1> DEFINE s == oled_init  p == oled_probe  r == oled_remove  c == oled_exit
<1>1. {"devices", "driver", "region", "sem", "cdevs", "class", "device",
       "proc"} \subseteq Resources
  BY DEF Resources
<1>2. /\ c \in Seq(StepSet) /\ Len(c) = 1 /\ DOMAIN c = 1 .. 1 /\ c \in Seq(Simple)
      /\ c[1] = Step("drop", "driver", <<>>, "always")
  <2>1. {Drop("driver")} \subseteq Simple
    BY <1>1, StepTypes
  <2>2. c \in Seq(Simple)
    BY <2>1 DEF oled_exit
  <2>3. QED
    BY <2>2, SmallSteps DEF oled_exit, DropIf, Drop, Given, Step
<1>3. /\ r \in Seq(StepSet) /\ Len(r) = 6 /\ DOMAIN r = 1 .. 6 /\ r \in Seq(Simple)
      /\ r[1] = Step("drop", "device", <<>>, "always")
      /\ r[2] = Step("drop", "class", <<>>, "always")
      /\ r[3] = Step("drop", "cdevs", <<>>, "always")
      /\ r[4] = Step("drop", "region", <<>>, "always")
      /\ r[5] = Step("drop", "devices", <<>>, "always")
      /\ r[6] = Step("drop", "proc", <<>>, "proc")
  <2>1. {Drop("device"), Drop("class"), Drop("cdevs")} \subseteq Simple
    BY <1>1, StepTypes
  <2>2. {Drop("region"), Drop("devices"), DropIf("proc", "proc")} \subseteq Simple
    BY <1>1, StepTypes
  <2>3. r \in Seq(Simple)
    BY <2>1, <2>2 DEF oled_remove
  <2>4. QED
    BY <2>3, SmallSteps DEF oled_remove, DropIf, Drop, Given, Step
<1>4. /\ s \in Seq(StepSet) /\ Len(s) = 2 /\ DOMAIN s = 1 .. 2
      /\ s[1] = Step("blind", "devices", <<>>, "always")
      /\ s[2] = Step("must", "driver", <<>>, "always")
  <2>1. {Blind("devices"), Must("driver", <<>>)} \subseteq StepSet
    BY <1>1, StepTypes, SmallSteps
  <2>2. s \in Seq(StepSet)
    BY <2>1 DEF oled_init
  <2>3. QED
    BY <2>2, SmallSteps DEF oled_init, Must, Get, Opt, Blind, Uses, Given, Step
<1>5. /\ p \in Seq(StepSet) /\ Len(p) = 7 /\ DOMAIN p = 1 .. 7
      /\ p[1] = Step("uses", "devices", <<>>, "always")
      /\ p[2] = Step("must", "region", <<Drop("region")>>, "always")
      /\ p[3] = Step("get", "sem", <<>>, "always")
      /\ p[4] = Step("get", "cdevs", <<>>, "always")
      /\ p[5] = Step("opt", "class", <<>>, "always")
      /\ p[6] = Step("opt", "device", <<>>, "always")
      /\ p[7] = Step("opt", "proc", <<>>, "always")
  <2>1. {Uses("devices"), Must("region", <<Drop("region")>>), Get("sem")} \subseteq StepSet
    BY <1>1, StepTypes, SmallSteps
  <2>2. {Get("cdevs"), Opt("class"), Opt("device")} \subseteq StepSet
    BY <1>1, StepTypes, SmallSteps
  <2>3. {Opt("proc")} \subseteq StepSet
    BY <1>1, StepTypes, SmallSteps
  <2>4. p \in Seq(StepSet)
    BY <2>1, <2>2, <2>3 DEF oled_probe
  <2>5. QED
    BY <2>4, SmallSteps DEF oled_probe, Must, Get, Opt, Blind, Uses, Given, Step
<1>6. Plans["spioled"] = Life(s, p, r, c) /\ p # <<>> /\ "spioled" \notin Opened
  <2>1. Plans["spioled"] = Life(s, p, r, c)
    BY DEF Plans
  <2>2. p # <<>>
    BY DEF oled_probe
  <2>3. "spioled" \notin Opened
    BY DEF Opened
  <2>4. QED
    BY <2>1, <2>2, <2>3
<1> HIDE DEF s, p, r, c
<1>7. /\ Left("spioled") = {"devices"} /\ Kept("spioled") = {"devices"} \cup Inert
      /\ Loaded("spioled") = {"devices", "sem", "gpio", "defio_mem", "panel", "driver"}
         /\ "p_cdevs" \notin Loaded("spioled")
  <2>1. Left("spioled") = {"devices"} /\ Kept("spioled") = {"devices"} \cup Inert
    BY DEF Left, Leftovers, Kept
  <2>2. {Plans["spioled"].in[j].res : j \in DOMAIN Plans["spioled"].in} = {"devices", "driver"}
    BY <1>4, <1>6 DEF Life, Step
  <2>3. QED
    BY <2>1, <2>2 DEF Loaded, Inert
<1>8. Forward("spioled", s)
  BY <1>4 DEF Forward, Acquires, Careful, Step, Inert
<1>9. Forward("spioled", p)
  BY <1>5 DEF Forward, Acquires, Careful, Step, Inert
<1>10. /\ \A i \in DOMAIN c : c[i].op = "drop" /\ c[i].undo = <<>> /\ c[i].res \notin Inert
       /\ \A H : Returns(c, 1, H)
  <2>1. \A i \in DOMAIN c : c[i].op = "drop" /\ c[i].undo = <<>> /\ c[i].res \notin Inert
    BY <1>2 DEF Inert, Step
  <2>2. \A H : Returns(c, 1, H)
    BY <1>2 DEF Returns, Step
  <2>3. QED
    BY <2>1, <2>2
<1>11. /\ \A i \in DOMAIN r : r[i].op = "drop" /\ r[i].undo = <<>> /\ r[i].res \notin Inert
       /\ \A H : Returns(r, 1, H)
       /\ \A H : Returns(r, 2, H)
       /\ \A H : Returns(r, 3, H)
       /\ \A H : Returns(r, 4, H)
       /\ \A H : Returns(r, 5, H)
       /\ \A H : Returns(r, 6, H)
  <2>1. \A i \in DOMAIN r : r[i].op = "drop" /\ r[i].undo = <<>> /\ r[i].res \notin Inert
    BY <1>3 DEF Inert, Step
  <2>2. \A H : Returns(r, 1, H)
    BY <1>3 DEF Returns, Step
  <2>3. \A H : Returns(r, 2, H)
    BY <1>3 DEF Returns, Step
  <2>4. \A H : Returns(r, 3, H)
    BY <1>3 DEF Returns, Step
  <2>5. \A H : Returns(r, 4, H)
    BY <1>3 DEF Returns, Step
  <2>6. \A H : Returns(r, 5, H)
    BY <1>3 DEF Returns, Step
  <2>7. \A H : Returns(r, 6, H)
    BY <1>3 DEF Returns, Step
  <2>8. QED
    BY <2>1, <2>2, <2>3, <2>4, <2>5, <2>6, <2>7
<1>12. ASSUME NEW H \in Possible(s, 2, {}, Left("spioled"))
      PROVE  Cleans("spioled", s[2].undo, H, Kept("spioled"))
  <2>1. Paired(H)
    BY <1>12, PossibleMeans
  <2>2. H \subseteq {"devices"}
    <3>1. \A j \in 1 .. 1 : s[j].op \in Acquires => s[j].res \in {"devices"}
      BY <1>4 DEF Acquires, Step
    <3>2. QED
      BY <3>1, <1>12, <1>7, PossibleMeans
  <2>3. Paired(H)
    BY <1>12, PossibleMeans
  <2>4. QED
    BY <1>4, <1>7, <2>1, <2>2 DEF Cleans, Inert, Exclusive, Drop, DropIf, Given, Step
<1>13. Undone("spioled", s, {}, Left("spioled"), Kept("spioled"))
  <2>1. SUFFICES ASSUME NEW i \in 1 .. 2, s[i].op = "must",
                        NEW H \in Possible(s, i, {}, Left("spioled"))
                 PROVE  Cleans("spioled", s[i].undo, H, Kept("spioled"))
    BY <1>4 DEF Undone
  <2>2. i \in {2}
    BY <1>4, <2>1 DEF Step
  <2>3. QED
    BY <1>12, <2>1, <2>2
<1>14. ASSUME NEW H \in Possible(s, 3, {}, Left("spioled"))
      PROVE  H \subseteq Loaded("spioled")
  <2>1. {"driver"} \subseteq H
    <3>1. \A j \in {2} : s[j].op \in {"get", "must"} /\ s[j].given = "always"
      BY <1>4 DEF Step
    <3>2. s[2].res = "driver"
      BY <1>4 DEF Step
    <3>3. \A j \in {2} : s[j].res # "p_region"
      BY <3>2
    <3>4. QED
      BY <3>1, <3>2, <3>3, <1>14, PossibleMeans
  <2>2. H \subseteq {"devices", "driver"}
    <3>1. \A j \in 1 .. 2 : s[j].op \in Acquires => s[j].res \in {"devices", "driver"}
      BY <1>4 DEF Acquires, Step
    <3>2. QED
      BY <3>1, <1>14, <1>7, PossibleMeans
  <2>3. Paired(H)
    BY <1>14, PossibleMeans
  <2>4. QED
    BY <1>7, <2>2
<1>15. ASSUME NEW H \in SUBSET Loaded("spioled")
      PROVE  Cleans("spioled", c, H, Kept("spioled"))
  <2>1. H \subseteq {"devices", "sem", "gpio", "defio_mem", "panel", "driver"}
    BY <1>7
  <2>2. \A i \in DOMAIN c : "spioled" \in Careful => Proper(c, i, H)
    BY DEF Careful
  <2>3. \A x \in H \ Kept("spioled") : \E i \in DOMAIN c : c[i].res = x /\ Returns(c, i, H)
    BY <1>2, <1>10, <1>7, <2>1 DEF Inert, Step
  <2>4. QED
    BY <1>10, <2>2, <2>3, CleansWhen
<1>16. ASSUME NEW H \in Possible(p, 2, {}, Loaded("spioled"))
      PROVE  Cleans("spioled", p[2].undo, H, Loaded("spioled"))
  <2>1. Paired(H)
    BY <1>16, PossibleMeans
  <2>2. H \subseteq {"devices", "sem", "gpio", "defio_mem", "panel", "driver"}
    <3>1. \A j \in 1 .. 1 : p[j].op \in Acquires => p[j].res \in {}
      BY <1>5 DEF Acquires, Step
    <3>2. QED
      BY <3>1, <1>16, <1>7, PossibleMeans
  <2>3. Paired(H)
    BY <1>16, PossibleMeans
  <2>4. p[2].undo = <<Drop("region")>> /\ "spioled" \notin Careful
    BY <1>5 DEF Step, Careful
  <2>5. H \subseteq Loaded("spioled") \cup {"region"} /\ "region" \notin Inert
    BY <2>2, <1>7 DEF Inert
  <2>6. QED
    BY <2>4, <2>5, OneDrop
<1>17. Undone("spioled", p, {}, Loaded("spioled"), Loaded("spioled"))
  <2>1. SUFFICES ASSUME NEW i \in 1 .. 7, p[i].op = "must",
                        NEW H \in Possible(p, i, {}, Loaded("spioled"))
                 PROVE  Cleans("spioled", p[i].undo, H, Loaded("spioled"))
    BY <1>5 DEF Undone
  <2>2. i \in {2}
    BY <1>5, <2>1 DEF Step
  <2>3. QED
    BY <1>16, <2>1, <2>2
<1> DEFINE b == r \o c
<1>18. /\ DOMAIN b = 1 .. 7
       /\ b[1] = Step("drop", "device", <<>>, "always")
       /\ b[2] = Step("drop", "class", <<>>, "always")
       /\ b[3] = Step("drop", "cdevs", <<>>, "always")
       /\ b[4] = Step("drop", "region", <<>>, "always")
       /\ b[5] = Step("drop", "devices", <<>>, "always")
       /\ b[6] = Step("drop", "proc", <<>>, "proc")
       /\ b[7] = Step("drop", "driver", <<>>, "always")
  <2>1. /\ Len(b) = Len(r) + Len(c)
        /\ \A i \in 1 .. Len(r) + Len(c) : b[i] = IF i <= Len(r) THEN r[i] ELSE c[i - Len(r)]
    BY <1>2, <1>3, ConcatProperties
  <2>2. b \in Seq(StepSet)
    BY <1>2, <1>3
  <2> HIDE DEF b
  <2>3. DOMAIN b = 1 .. 7
    BY <1>2, <1>3, <2>1, <2>2, LenProperties
  <2>4. b[1] = r[1] /\ b[2] = r[2] /\ b[3] = r[3] /\ b[4] = r[4] /\ b[5] = r[5] /\ b[6] = r[6]
        /\ b[7] = c[1]
    BY <1>2, <1>3, <2>1
  <2>5. QED
    BY <1>2, <1>3, <2>3, <2>4
<1> HIDE DEF b
<1>19. /\ \A i \in DOMAIN b : b[i].op = "drop" /\ b[i].undo = <<>> /\ b[i].res \notin Inert
       /\ \A H : Returns(b, 1, H)
       /\ \A H : Returns(b, 2, H)
       /\ \A H : Returns(b, 3, H)
       /\ \A H : Returns(b, 4, H)
       /\ \A H : Returns(b, 5, H)
       /\ \A H : Returns(b, 6, H)
       /\ \A H : Returns(b, 7, H)
  <2>1. \A i \in DOMAIN b : b[i].op = "drop" /\ b[i].undo = <<>> /\ b[i].res \notin Inert
    BY <1>18 DEF Inert, Step
  <2>2. \A H : Returns(b, 1, H)
    BY <1>18 DEF Returns, Step
  <2>3. \A H : Returns(b, 2, H)
    BY <1>18 DEF Returns, Step
  <2>4. \A H : Returns(b, 3, H)
    BY <1>18 DEF Returns, Step
  <2>5. \A H : Returns(b, 4, H)
    BY <1>18 DEF Returns, Step
  <2>6. \A H : Returns(b, 5, H)
    BY <1>18 DEF Returns, Step
  <2>7. \A H : Returns(b, 6, H)
    BY <1>18 DEF Returns, Step
  <2>8. \A H : Returns(b, 7, H)
    BY <1>18 DEF Returns, Step
  <2>9. QED
    BY <2>1, <2>2, <2>3, <2>4, <2>5, <2>6, <2>7, <2>8
<1>20. ASSUME NEW H \in Possible(p, 8, {}, Loaded("spioled"))
      PROVE  Cleans("spioled", b, H, Kept("spioled"))
             /\ Cleans("spioled", r, H, Loaded("spioled"))
  <2>1. {"region", "sem", "cdevs"} \subseteq H
    <3>1. \A j \in {2, 3, 4} : p[j].op \in {"get", "must"} /\ p[j].given = "always"
      BY <1>5 DEF Step
    <3>2. p[2].res = "region" /\ p[3].res = "sem" /\ p[4].res = "cdevs"
      BY <1>5 DEF Step
    <3>3. \A j \in {2, 3, 4} : p[j].res # "p_region"
      BY <3>2
    <3>4. QED
      BY <3>1, <3>2, <3>3, <1>20, PossibleMeans
  <2>2. H \subseteq {"devices", "sem", "gpio", "defio_mem", "panel", "driver", "region",
                   "cdevs", "class", "device", "proc"}
    <3>1. \A j \in 1 .. 7 : p[j].op \in Acquires =>
              p[j].res \in {"region", "sem", "cdevs", "class", "device", "proc"}
      BY <1>5 DEF Acquires, Step
    <3>2. QED
      BY <3>1, <1>20, <1>7, PossibleMeans
  <2>3. Paired(H)
    BY <1>20, PossibleMeans
  <2>4. \A x \in H \ Kept("spioled") : \E i \in DOMAIN b : b[i].res = x /\ Returns(b, i, H)
    <3>1. H \ Kept("spioled") \subseteq {"driver", "region", "cdevs", "class", "device", "proc"}
      BY <1>7, <2>2 DEF Inert
    <3>2. b[7].res = "driver" /\ b[4].res = "region" /\ b[3].res = "cdevs"
          /\ b[2].res = "class" /\ b[1].res = "device" /\ b[6].res = "proc"
      BY <1>18 DEF Step
    <3>3. {7, 4, 3, 2, 1, 6} \subseteq DOMAIN b
      BY <1>18
    <3>4. Returns(b, 7, H) /\ Returns(b, 4, H) /\ Returns(b, 3, H) /\ Returns(b, 2, H)
          /\ Returns(b, 1, H) /\ Returns(b, 6, H)
      BY <1>19
    <3>5. QED
      BY <3>1, <3>2, <3>3, <3>4
  <2>5. "spioled" \in Careful => \A i \in DOMAIN b : Proper(b, i, H)
    BY DEF Careful
  <2>6. Cleans("spioled", b, H, Kept("spioled"))
    BY <1>19, <2>4, <2>5, CleansWhen
  <2>7. \A x \in H \ Loaded("spioled") : \E i \in DOMAIN r : r[i].res = x /\ Returns(r, i, H)
    <3>1. H \ Loaded("spioled") \subseteq {"region", "cdevs", "class", "device", "proc"}
      BY <1>7, <2>2 DEF Inert
    <3>2. r[4].res = "region" /\ r[3].res = "cdevs" /\ r[2].res = "class"
          /\ r[1].res = "device" /\ r[6].res = "proc"
      BY <1>3 DEF Step
    <3>3. {4, 3, 2, 1, 6} \subseteq DOMAIN r
      BY <1>3
    <3>4. Returns(r, 4, H) /\ Returns(r, 3, H) /\ Returns(r, 2, H) /\ Returns(r, 1, H)
          /\ Returns(r, 6, H)
      BY <1>11
    <3>5. QED
      BY <3>1, <3>2, <3>3, <3>4
  <2>8. "spioled" \in Careful => \A i \in DOMAIN r : Proper(r, i, H)
    BY DEF Careful
  <2>9. Cleans("spioled", r, H, Loaded("spioled"))
    BY <1>11, <2>7, <2>8, CleansWhen
  <2>10. QED
    BY <2>6, <2>9
<1>21. Len(s) + 1 = 3 /\ Len(p) + 1 = 8
  BY <1>4, <1>5
<1>22. QED
  BY <1>21, <1>2, <1>3, <1>4, <1>5, <1>6, <1>7, <1>8, <1>9, <1>13, <1>14, <1>15, <1>17, <1>20,
     ProbedIsWritten DEF b

(* The SSD1309 as a frame buffer: what is left of one error path.          *)
LEMMA FbIsWritten == Written("ssd1309fb")
<1> DEFINE s == <<>>  p == ssd1309fb_probe  r == ssd1309fb_remove  c == <<>>
<1>1. {"fb", "gpio", "vmem", "defio_mem", "defio", "regulator", "panel", "fbreg",
       "backlight"} \subseteq Resources
  BY DEF Resources
<1>2. c \in Seq(StepSet) /\ Len(c) = 0 /\ DOMAIN c = 1 .. 0 /\ c \in Seq(Simple)
  BY StepTypes, SmallSteps
<1>3. /\ r \in Seq(StepSet) /\ Len(r) = 5 /\ DOMAIN r = 1 .. 5 /\ r \in Seq(Simple)
      /\ r[1] = Step("drop", "backlight", <<>>, "always")
      /\ r[2] = Step("drop", "fbreg", <<>>, "always")
      /\ r[3] = Step("drop", "defio", <<>>, "always")
      /\ r[4] = Step("drop", "vmem", <<>>, "always")
      /\ r[5] = Step("drop", "fb", <<>>, "always")
  <2>1. {Drop("backlight"), Drop("fbreg"), Drop("defio")} \subseteq Simple
    BY <1>1, StepTypes
  <2>2. {Drop("vmem"), Drop("fb")} \subseteq Simple
    BY <1>1, StepTypes
  <2>3. r \in Seq(Simple)
    BY <2>1, <2>2 DEF ssd1309fb_remove
  <2>4. QED
    BY <2>3, SmallSteps DEF ssd1309fb_remove, DropIf, Drop, Given, Step
<1> DEFINE z1 == fb_undo(1)  z2 == fb_undo(2)  z3 == fb_undo(3)  z4 == fb_undo(4)
<1>4. z1 \in Seq(Simple) /\ DOMAIN z1 = 1 .. 4 /\ z2 \in Seq(Simple) /\ DOMAIN z2 = 1 .. 3
      /\ z3 \in Seq(Simple) /\ DOMAIN z3 = 1 .. 2 /\ z4 \in Seq(Simple) /\ DOMAIN z4 = 1 .. 1
      /\ z1[1] = Step("drop", "fbreg", <<>>, "always")
      /\ z1[2] = Step("drop", "regulator", <<>>, "regulator")
      /\ z1[3] = Step("drop", "defio", <<>>, "always")
      /\ z1[4] = Step("drop", "fb", <<>>, "always")
      /\ z2[1] = Step("drop", "regulator", <<>>, "regulator")
      /\ z2[2] = Step("drop", "defio", <<>>, "always")
      /\ z2[3] = Step("drop", "fb", <<>>, "always")
      /\ z3[1] = Step("drop", "defio", <<>>, "always")
      /\ z3[2] = Step("drop", "fb", <<>>, "always")
      /\ z4[1] = Step("drop", "fb", <<>>, "always")
  <2> DEFINE f == <<Drop("fbreg"), DropIf("regulator", "regulator"), Drop("defio"), Drop("fb")>>
  <2>1. {Drop("fbreg"), DropIf("regulator", "regulator"), Drop("defio")} \subseteq Simple
    BY <1>1, StepTypes
  <2>2. {Drop("fb")} \subseteq Simple
    BY <1>1, StepTypes
  <2>3. f \in Seq(Simple) /\ Len(f) = 4
    BY <2>1, <2>2
  <2>4. /\ f[1] = Step("drop", "fbreg", <<>>, "always")
        /\ f[2] = Step("drop", "regulator", <<>>, "regulator")
        /\ f[3] = Step("drop", "defio", <<>>, "always")
        /\ f[4] = Step("drop", "fb", <<>>, "always")
    BY DEF DropIf, Drop, Given, Step
  <2>5. z1 = SubSeq(f, 1, 4) /\ z2 = SubSeq(f, 2, 4) /\ z3 = SubSeq(f, 3, 4)
        /\ z4 = SubSeq(f, 4, 4)
    BY DEF fb_undo
  <2> HIDE DEF f, z1, z2, z3, z4
  <2>6. z1 \in Seq(Simple) /\ DOMAIN z1 = 1 .. 4 /\ z1[1] = f[1] /\ z1[2] = f[2]
        /\ z1[3] = f[3] /\ z1[4] = f[4]
    <3>1. \A i \in 1 .. 4 : f[i] \in Simple
      BY <2>3
    <3>2. z1 \in Seq(Simple)
      BY <3>1, <2>5, SubSeqProperties
    <3>3. Len(z1) = 4
      BY <2>3, <2>5, SubSeqProperties
    <3>4. \A j \in 1 .. 4 : z1[j] = f[1 + j - 1]
      BY <2>3, <2>5, SubSeqProperties
    <3>5. QED
      BY <3>2, <3>3, <3>4, LenProperties
  <2>7. z2 \in Seq(Simple) /\ DOMAIN z2 = 1 .. 3 /\ z2[1] = f[2] /\ z2[2] = f[3] /\ z2[3] = f[4]
    <3>1. \A i \in 1 .. 4 : f[i] \in Simple
      BY <2>3
    <3>2. z2 \in Seq(Simple)
      BY <3>1, <2>5, SubSeqProperties
    <3>3. Len(z2) = 3
      BY <2>3, <2>5, SubSeqProperties
    <3>4. \A j \in 1 .. 3 : z2[j] = f[2 + j - 1]
      BY <2>3, <2>5, SubSeqProperties
    <3>5. QED
      BY <3>2, <3>3, <3>4, LenProperties
  <2>8. z3 \in Seq(Simple) /\ DOMAIN z3 = 1 .. 2 /\ z3[1] = f[3] /\ z3[2] = f[4]
    <3>1. \A i \in 1 .. 4 : f[i] \in Simple
      BY <2>3
    <3>2. z3 \in Seq(Simple)
      BY <3>1, <2>5, SubSeqProperties
    <3>3. Len(z3) = 2
      BY <2>3, <2>5, SubSeqProperties
    <3>4. \A j \in 1 .. 2 : z3[j] = f[3 + j - 1]
      BY <2>3, <2>5, SubSeqProperties
    <3>5. QED
      BY <3>2, <3>3, <3>4, LenProperties
  <2>9. z4 \in Seq(Simple) /\ DOMAIN z4 = 1 .. 1 /\ z4[1] = f[4]
    <3>1. \A i \in 1 .. 4 : f[i] \in Simple
      BY <2>3
    <3>2. z4 \in Seq(Simple)
      BY <3>1, <2>5, SubSeqProperties
    <3>3. Len(z4) = 1
      BY <2>3, <2>5, SubSeqProperties
    <3>4. \A j \in 1 .. 1 : z4[j] = f[4 + j - 1]
      BY <2>3, <2>5, SubSeqProperties
    <3>5. QED
      BY <3>2, <3>3, <3>4, LenProperties
  <2>10. QED
    BY <2>4, <2>6, <2>7, <2>8, <2>9
<1>5. s \in Seq(StepSet) /\ Len(s) = 0 /\ DOMAIN s = 1 .. 0
  BY StepTypes, SmallSteps
<1>6. /\ p \in Seq(StepSet) /\ Len(p) = 9 /\ DOMAIN p = 1 .. 9
      /\ p[1] = Step("must", "fb", <<>>, "always")
      /\ p[2] = Step("must", "gpio", z4, "always")
      /\ p[3] = Step("must", "vmem", z4, "always")
      /\ p[4] = Step("must", "defio_mem", z4, "always")
      /\ p[5] = Step("get", "defio", <<>>, "always")
      /\ p[6] = Step("must", "regulator", z3, "always")
      /\ p[7] = Step("must", "panel", z2, "always")
      /\ p[8] = Step("must", "fbreg", z2, "always")
      /\ p[9] = Step("must", "backlight", z1, "always")
  <2>1. {Must("fb", <<>>), Must("gpio", z4), Must("vmem", z4)} \subseteq StepSet
    BY <1>1, <1>4, StepTypes, SmallSteps
  <2>2. {Must("defio_mem", z4), Get("defio"), Must("regulator", z3)} \subseteq StepSet
    BY <1>1, <1>4, StepTypes, SmallSteps
  <2>3. {Must("panel", z2), Must("fbreg", z2), Must("backlight", z1)} \subseteq StepSet
    BY <1>1, <1>4, StepTypes, SmallSteps
  <2>4. p \in Seq(StepSet)
    BY <2>1, <2>2, <2>3 DEF ssd1309fb_probe
  <2>5. QED
    BY <2>4, SmallSteps DEF ssd1309fb_probe, Must, Get, Opt, Blind, Uses, Given, Step
<1>7. Plans["ssd1309fb"] = Life(s, p, r, c) /\ p # <<>> /\ "ssd1309fb" \notin Opened
  <2>1. Plans["ssd1309fb"] = Life(s, p, r, c)
    BY DEF Plans
  <2>2. p # <<>>
    BY DEF ssd1309fb_probe
  <2>3. "ssd1309fb" \notin Opened
    BY DEF Opened
  <2>4. QED
    BY <2>1, <2>2, <2>3
<1> HIDE DEF s, p, r, c, z1, z2, z3, z4
<1>8. /\ \A i \in DOMAIN z1 : z1[i].op = "drop" /\ z1[i].undo = <<>> /\ z1[i].res \notin Inert
      /\ \A H : Returns(z1, 1, H)
      /\ \A H : Returns(z1, 2, H)
      /\ \A H : Returns(z1, 3, H)
      /\ \A H : Returns(z1, 4, H)
  <2>1. \A i \in DOMAIN z1 : z1[i].op = "drop" /\ z1[i].undo = <<>> /\ z1[i].res \notin Inert
    BY <1>4 DEF Inert, Step
  <2>2. \A H : Returns(z1, 1, H)
    BY <1>4 DEF Returns, Step
  <2>3. \A H : Returns(z1, 2, H)
    BY <1>4 DEF Returns, Step
  <2>4. \A H : Returns(z1, 3, H)
    BY <1>4 DEF Returns, Step
  <2>5. \A H : Returns(z1, 4, H)
    BY <1>4 DEF Returns, Step
  <2>6. QED
    BY <2>1, <2>2, <2>3, <2>4, <2>5
<1>9. /\ \A i \in DOMAIN z2 : z2[i].op = "drop" /\ z2[i].undo = <<>> /\ z2[i].res \notin Inert
      /\ \A H : Returns(z2, 1, H)
      /\ \A H : Returns(z2, 2, H)
      /\ \A H : Returns(z2, 3, H)
  <2>1. \A i \in DOMAIN z2 : z2[i].op = "drop" /\ z2[i].undo = <<>> /\ z2[i].res \notin Inert
    BY <1>4 DEF Inert, Step
  <2>2. \A H : Returns(z2, 1, H)
    BY <1>4 DEF Returns, Step
  <2>3. \A H : Returns(z2, 2, H)
    BY <1>4 DEF Returns, Step
  <2>4. \A H : Returns(z2, 3, H)
    BY <1>4 DEF Returns, Step
  <2>5. QED
    BY <2>1, <2>2, <2>3, <2>4
<1>10. /\ \A i \in DOMAIN z3 : z3[i].op = "drop" /\ z3[i].undo = <<>> /\ z3[i].res \notin Inert
       /\ \A H : Returns(z3, 1, H)
       /\ \A H : Returns(z3, 2, H)
  <2>1. \A i \in DOMAIN z3 : z3[i].op = "drop" /\ z3[i].undo = <<>> /\ z3[i].res \notin Inert
    BY <1>4 DEF Inert, Step
  <2>2. \A H : Returns(z3, 1, H)
    BY <1>4 DEF Returns, Step
  <2>3. \A H : Returns(z3, 2, H)
    BY <1>4 DEF Returns, Step
  <2>4. QED
    BY <2>1, <2>2, <2>3
<1>11. /\ \A i \in DOMAIN z4 : z4[i].op = "drop" /\ z4[i].undo = <<>> /\ z4[i].res \notin Inert
       /\ \A H : Returns(z4, 1, H)
  <2>1. \A i \in DOMAIN z4 : z4[i].op = "drop" /\ z4[i].undo = <<>> /\ z4[i].res \notin Inert
    BY <1>4 DEF Inert, Step
  <2>2. \A H : Returns(z4, 1, H)
    BY <1>4 DEF Returns, Step
  <2>3. QED
    BY <2>1, <2>2
<1>12. /\ Left("ssd1309fb") = {"vmem", "regulator"}
          /\ Kept("ssd1309fb") = {"vmem", "regulator"} \cup Inert
       /\ Loaded("ssd1309fb") = {"vmem", "regulator", "sem", "gpio", "defio_mem", "panel"}
          /\ "p_cdevs" \notin Loaded("ssd1309fb")
  <2>1. Left("ssd1309fb") = {"vmem", "regulator"}
        /\ Kept("ssd1309fb") = {"vmem", "regulator"} \cup Inert
    BY DEF Left, Leftovers, Kept
  <2>2. {Plans["ssd1309fb"].in[j].res : j \in DOMAIN Plans["ssd1309fb"].in} = {}
    BY <1>5, <1>7 DEF Life, Step
  <2>3. QED
    BY <2>1, <2>2 DEF Loaded, Inert
<1>13. Forward("ssd1309fb", s)
  BY <1>5 DEF Forward, Acquires, Careful, Step, Inert
<1>14. Forward("ssd1309fb", p)
  BY <1>6 DEF Forward, Acquires, Careful, Step, Inert
<1>15. /\ \A i \in DOMAIN c : c[i].op = "drop" /\ c[i].undo = <<>> /\ c[i].res \notin Inert
  BY <1>2
<1>16. /\ \A i \in DOMAIN r : r[i].op = "drop" /\ r[i].undo = <<>> /\ r[i].res \notin Inert
       /\ \A H : Returns(r, 1, H)
       /\ \A H : Returns(r, 2, H)
       /\ \A H : Returns(r, 3, H)
       /\ \A H : Returns(r, 4, H)
       /\ \A H : Returns(r, 5, H)
  <2>1. \A i \in DOMAIN r : r[i].op = "drop" /\ r[i].undo = <<>> /\ r[i].res \notin Inert
    BY <1>3 DEF Inert, Step
  <2>2. \A H : Returns(r, 1, H)
    BY <1>3 DEF Returns, Step
  <2>3. \A H : Returns(r, 2, H)
    BY <1>3 DEF Returns, Step
  <2>4. \A H : Returns(r, 3, H)
    BY <1>3 DEF Returns, Step
  <2>5. \A H : Returns(r, 4, H)
    BY <1>3 DEF Returns, Step
  <2>6. \A H : Returns(r, 5, H)
    BY <1>3 DEF Returns, Step
  <2>7. QED
    BY <2>1, <2>2, <2>3, <2>4, <2>5, <2>6
<1>17. Undone("ssd1309fb", s, {}, Left("ssd1309fb"), Kept("ssd1309fb"))
  BY <1>5 DEF Undone, Step
<1>18. ASSUME NEW H \in Possible(s, 1, {}, Left("ssd1309fb"))
      PROVE  H \subseteq Loaded("ssd1309fb")
  <2>1. Paired(H)
    BY <1>18, PossibleMeans
  <2>2. H \subseteq {"vmem", "regulator"}
    BY <1>18, <1>12, PossibleMeans
  <2>3. Paired(H)
    BY <1>18, PossibleMeans
  <2>4. QED
    BY <1>12, <2>2
<1>19. ASSUME NEW H \in SUBSET Loaded("ssd1309fb")
      PROVE  Cleans("ssd1309fb", c, H, Kept("ssd1309fb"))
  <2>1. H \subseteq {"vmem", "regulator", "sem", "gpio", "defio_mem", "panel"}
    BY <1>12
  <2>2. \A i \in DOMAIN c : "ssd1309fb" \in Careful => Proper(c, i, H)
    BY DEF Careful
  <2>3. \A x \in H \ Kept("ssd1309fb") : \E i \in DOMAIN c : c[i].res = x /\ Returns(c, i, H)
    BY <1>2, <1>15, <1>12, <2>1 DEF Inert, Step
  <2>4. QED
    BY <1>15, <2>2, <2>3, CleansWhen
<1>20. ASSUME NEW H \in Possible(p, 1, {}, Loaded("ssd1309fb"))
      PROVE  Cleans("ssd1309fb", p[1].undo, H, Loaded("ssd1309fb"))
  <2>1. Paired(H)
    BY <1>20, PossibleMeans
  <2>2. H \subseteq {"vmem", "regulator", "sem", "gpio", "defio_mem", "panel"}
    BY <1>20, <1>12, PossibleMeans
  <2>3. Paired(H)
    BY <1>20, PossibleMeans
  <2>4. QED
    BY <1>6, <1>12, <2>1, <2>2 DEF Cleans, Inert, Exclusive, Drop, DropIf, Given, Step
<1>21. ASSUME NEW H \in Possible(p, 2, {}, Loaded("ssd1309fb"))
      PROVE  Cleans("ssd1309fb", p[2].undo, H, Loaded("ssd1309fb"))
  <2>1. {"fb"} \subseteq H
    <3>1. \A j \in {1} : p[j].op \in {"get", "must"} /\ p[j].given = "always"
      BY <1>6 DEF Step
    <3>2. p[1].res = "fb"
      BY <1>6 DEF Step
    <3>3. \A j \in {1} : p[j].res # "p_region"
      BY <3>2
    <3>4. QED
      BY <3>1, <3>2, <3>3, <1>21, PossibleMeans
  <2>2. H \subseteq {"vmem", "regulator", "sem", "gpio", "defio_mem", "panel", "fb"}
    <3>1. \A j \in 1 .. 1 : p[j].op \in Acquires => p[j].res \in {"fb"}
      BY <1>6 DEF Acquires, Step
    <3>2. QED
      BY <3>1, <1>21, <1>12, PossibleMeans
  <2>3. Paired(H)
    BY <1>21, PossibleMeans
  <2>4. p[2].undo = z4
    BY <1>6 DEF Step
  <2>5. \A x \in H \ Loaded("ssd1309fb") : \E i \in DOMAIN z4 : z4[i].res = x /\ Returns(z4, i, H)
    <3>1. H \ Loaded("ssd1309fb") \subseteq {"fb"}
      BY <1>12, <2>2 DEF Inert
    <3>2. z4[1].res = "fb"
      BY <1>4 DEF Step
    <3>3. {1} \subseteq DOMAIN z4
      BY <1>4
    <3>4. Returns(z4, 1, H)
      BY <1>11
    <3>5. QED
      BY <3>1, <3>2, <3>3, <3>4
  <2>6. "ssd1309fb" \in Careful => \A i \in DOMAIN z4 : Proper(z4, i, H)
    BY DEF Careful
  <2>7. QED
    BY <2>4, <1>11, <2>5, <2>6, CleansWhen
<1>22. ASSUME NEW H \in Possible(p, 3, {}, Loaded("ssd1309fb"))
      PROVE  Cleans("ssd1309fb", p[3].undo, H, Loaded("ssd1309fb"))
  <2>1. {"fb", "gpio"} \subseteq H
    <3>1. \A j \in {1, 2} : p[j].op \in {"get", "must"} /\ p[j].given = "always"
      BY <1>6 DEF Step
    <3>2. p[1].res = "fb" /\ p[2].res = "gpio"
      BY <1>6 DEF Step
    <3>3. \A j \in {1, 2} : p[j].res # "p_region"
      BY <3>2
    <3>4. QED
      BY <3>1, <3>2, <3>3, <1>22, PossibleMeans
  <2>2. H \subseteq {"vmem", "regulator", "sem", "gpio", "defio_mem", "panel", "fb"}
    <3>1. \A j \in 1 .. 2 : p[j].op \in Acquires => p[j].res \in {"fb", "gpio"}
      BY <1>6 DEF Acquires, Step
    <3>2. QED
      BY <3>1, <1>22, <1>12, PossibleMeans
  <2>3. Paired(H)
    BY <1>22, PossibleMeans
  <2>4. p[3].undo = z4
    BY <1>6 DEF Step
  <2>5. \A x \in H \ Loaded("ssd1309fb") : \E i \in DOMAIN z4 : z4[i].res = x /\ Returns(z4, i, H)
    <3>1. H \ Loaded("ssd1309fb") \subseteq {"fb"}
      BY <1>12, <2>2 DEF Inert
    <3>2. z4[1].res = "fb"
      BY <1>4 DEF Step
    <3>3. {1} \subseteq DOMAIN z4
      BY <1>4
    <3>4. Returns(z4, 1, H)
      BY <1>11
    <3>5. QED
      BY <3>1, <3>2, <3>3, <3>4
  <2>6. "ssd1309fb" \in Careful => \A i \in DOMAIN z4 : Proper(z4, i, H)
    BY DEF Careful
  <2>7. QED
    BY <2>4, <1>11, <2>5, <2>6, CleansWhen
<1>23. ASSUME NEW H \in Possible(p, 4, {}, Loaded("ssd1309fb"))
      PROVE  Cleans("ssd1309fb", p[4].undo, H, Loaded("ssd1309fb"))
  <2>1. {"fb", "gpio", "vmem"} \subseteq H
    <3>1. \A j \in {1, 2, 3} : p[j].op \in {"get", "must"} /\ p[j].given = "always"
      BY <1>6 DEF Step
    <3>2. p[1].res = "fb" /\ p[2].res = "gpio" /\ p[3].res = "vmem"
      BY <1>6 DEF Step
    <3>3. \A j \in {1, 2, 3} : p[j].res # "p_region"
      BY <3>2
    <3>4. QED
      BY <3>1, <3>2, <3>3, <1>23, PossibleMeans
  <2>2. H \subseteq {"vmem", "regulator", "sem", "gpio", "defio_mem", "panel", "fb"}
    <3>1. \A j \in 1 .. 3 : p[j].op \in Acquires => p[j].res \in {"fb", "gpio", "vmem"}
      BY <1>6 DEF Acquires, Step
    <3>2. QED
      BY <3>1, <1>23, <1>12, PossibleMeans
  <2>3. Paired(H)
    BY <1>23, PossibleMeans
  <2>4. p[4].undo = z4
    BY <1>6 DEF Step
  <2>5. \A x \in H \ Loaded("ssd1309fb") : \E i \in DOMAIN z4 : z4[i].res = x /\ Returns(z4, i, H)
    <3>1. H \ Loaded("ssd1309fb") \subseteq {"fb"}
      BY <1>12, <2>2 DEF Inert
    <3>2. z4[1].res = "fb"
      BY <1>4 DEF Step
    <3>3. {1} \subseteq DOMAIN z4
      BY <1>4
    <3>4. Returns(z4, 1, H)
      BY <1>11
    <3>5. QED
      BY <3>1, <3>2, <3>3, <3>4
  <2>6. "ssd1309fb" \in Careful => \A i \in DOMAIN z4 : Proper(z4, i, H)
    BY DEF Careful
  <2>7. QED
    BY <2>4, <1>11, <2>5, <2>6, CleansWhen
<1>24. ASSUME NEW H \in Possible(p, 6, {}, Loaded("ssd1309fb"))
      PROVE  Cleans("ssd1309fb", p[6].undo, H, Loaded("ssd1309fb"))
  <2>1. {"fb", "gpio", "vmem", "defio_mem", "defio"} \subseteq H
    <3>1. \A j \in {1, 2, 3, 4, 5} : p[j].op \in {"get", "must"} /\ p[j].given = "always"
      BY <1>6 DEF Step
    <3>2. p[1].res = "fb" /\ p[2].res = "gpio" /\ p[3].res = "vmem" /\ p[4].res = "defio_mem"
          /\ p[5].res = "defio"
      BY <1>6 DEF Step
    <3>3. \A j \in {1, 2, 3, 4, 5} : p[j].res # "p_region"
      BY <3>2
    <3>4. QED
      BY <3>1, <3>2, <3>3, <1>24, PossibleMeans
  <2>2. H \subseteq {"vmem", "regulator", "sem", "gpio", "defio_mem", "panel", "fb",
                   "defio"}
    <3>1. \A j \in 1 .. 5 : p[j].op \in Acquires =>
              p[j].res \in {"fb", "gpio", "vmem", "defio_mem", "defio"}
      BY <1>6 DEF Acquires, Step
    <3>2. QED
      BY <3>1, <1>24, <1>12, PossibleMeans
  <2>3. Paired(H)
    BY <1>24, PossibleMeans
  <2>4. p[6].undo = z3
    BY <1>6 DEF Step
  <2>5. \A x \in H \ Loaded("ssd1309fb") : \E i \in DOMAIN z3 : z3[i].res = x /\ Returns(z3, i, H)
    <3>1. H \ Loaded("ssd1309fb") \subseteq {"fb", "defio"}
      BY <1>12, <2>2 DEF Inert
    <3>2. z3[2].res = "fb" /\ z3[1].res = "defio"
      BY <1>4 DEF Step
    <3>3. {2, 1} \subseteq DOMAIN z3
      BY <1>4
    <3>4. Returns(z3, 2, H) /\ Returns(z3, 1, H)
      BY <1>10
    <3>5. QED
      BY <3>1, <3>2, <3>3, <3>4
  <2>6. "ssd1309fb" \in Careful => \A i \in DOMAIN z3 : Proper(z3, i, H)
    BY DEF Careful
  <2>7. QED
    BY <2>4, <1>10, <2>5, <2>6, CleansWhen
<1>25. ASSUME NEW H \in Possible(p, 7, {}, Loaded("ssd1309fb"))
      PROVE  Cleans("ssd1309fb", p[7].undo, H, Loaded("ssd1309fb"))
  <2>1. {"fb", "gpio", "vmem", "defio_mem", "defio", "regulator"} \subseteq H
    <3>1. \A j \in {1, 2, 3, 4, 5, 6} : p[j].op \in {"get", "must"} /\ p[j].given = "always"
      BY <1>6 DEF Step
    <3>2. p[1].res = "fb" /\ p[2].res = "gpio" /\ p[3].res = "vmem" /\ p[4].res = "defio_mem"
          /\ p[5].res = "defio" /\ p[6].res = "regulator"
      BY <1>6 DEF Step
    <3>3. \A j \in {1, 2, 3, 4, 5, 6} : p[j].res # "p_region"
      BY <3>2
    <3>4. QED
      BY <3>1, <3>2, <3>3, <1>25, PossibleMeans
  <2>2. H \subseteq {"vmem", "regulator", "sem", "gpio", "defio_mem", "panel", "fb",
                   "defio"}
    <3>1. \A j \in 1 .. 6 : p[j].op \in Acquires =>
              p[j].res \in {"fb", "gpio", "vmem", "defio_mem", "defio", "regulator"}
      BY <1>6 DEF Acquires, Step
    <3>2. QED
      BY <3>1, <1>25, <1>12, PossibleMeans
  <2>3. Paired(H)
    BY <1>25, PossibleMeans
  <2>4. p[7].undo = z2
    BY <1>6 DEF Step
  <2>5. \A x \in H \ Loaded("ssd1309fb") : \E i \in DOMAIN z2 : z2[i].res = x /\ Returns(z2, i, H)
    <3>1. H \ Loaded("ssd1309fb") \subseteq {"fb", "defio"}
      BY <1>12, <2>2 DEF Inert
    <3>2. z2[3].res = "fb" /\ z2[2].res = "defio"
      BY <1>4 DEF Step
    <3>3. {3, 2} \subseteq DOMAIN z2
      BY <1>4
    <3>4. Returns(z2, 3, H) /\ Returns(z2, 2, H)
      BY <1>9
    <3>5. QED
      BY <3>1, <3>2, <3>3, <3>4
  <2>6. "ssd1309fb" \in Careful => \A i \in DOMAIN z2 : Proper(z2, i, H)
    BY DEF Careful
  <2>7. QED
    BY <2>4, <1>9, <2>5, <2>6, CleansWhen
<1>26. ASSUME NEW H \in Possible(p, 8, {}, Loaded("ssd1309fb"))
      PROVE  Cleans("ssd1309fb", p[8].undo, H, Loaded("ssd1309fb"))
  <2>1. {"fb", "gpio", "vmem", "defio_mem", "defio", "regulator", "panel"} \subseteq H
    <3>1. \A j \in {1, 2, 3, 4, 5, 6, 7} : p[j].op \in {"get", "must"} /\ p[j].given = "always"
      BY <1>6 DEF Step
    <3>2. p[1].res = "fb" /\ p[2].res = "gpio" /\ p[3].res = "vmem" /\ p[4].res = "defio_mem"
          /\ p[5].res = "defio" /\ p[6].res = "regulator" /\ p[7].res = "panel"
      BY <1>6 DEF Step
    <3>3. \A j \in {1, 2, 3, 4, 5, 6, 7} : p[j].res # "p_region"
      BY <3>2
    <3>4. QED
      BY <3>1, <3>2, <3>3, <1>26, PossibleMeans
  <2>2. H \subseteq {"vmem", "regulator", "sem", "gpio", "defio_mem", "panel", "fb",
                   "defio"}
    <3>1. \A j \in 1 .. 7 : p[j].op \in Acquires =>
              p[j].res \in {"fb", "gpio", "vmem", "defio_mem", "defio", "regulator", "panel"}
      BY <1>6 DEF Acquires, Step
    <3>2. QED
      BY <3>1, <1>26, <1>12, PossibleMeans
  <2>3. Paired(H)
    BY <1>26, PossibleMeans
  <2>4. p[8].undo = z2
    BY <1>6 DEF Step
  <2>5. \A x \in H \ Loaded("ssd1309fb") : \E i \in DOMAIN z2 : z2[i].res = x /\ Returns(z2, i, H)
    <3>1. H \ Loaded("ssd1309fb") \subseteq {"fb", "defio"}
      BY <1>12, <2>2 DEF Inert
    <3>2. z2[3].res = "fb" /\ z2[2].res = "defio"
      BY <1>4 DEF Step
    <3>3. {3, 2} \subseteq DOMAIN z2
      BY <1>4
    <3>4. Returns(z2, 3, H) /\ Returns(z2, 2, H)
      BY <1>9
    <3>5. QED
      BY <3>1, <3>2, <3>3, <3>4
  <2>6. "ssd1309fb" \in Careful => \A i \in DOMAIN z2 : Proper(z2, i, H)
    BY DEF Careful
  <2>7. QED
    BY <2>4, <1>9, <2>5, <2>6, CleansWhen
<1>27. ASSUME NEW H \in Possible(p, 9, {}, Loaded("ssd1309fb"))
      PROVE  Cleans("ssd1309fb", p[9].undo, H, Loaded("ssd1309fb"))
  <2>1. {"fb", "gpio", "vmem", "defio_mem", "defio", "regulator", "panel", "fbreg"} \subseteq H
    <3>1. \A j \in {1, 2, 3, 4, 5, 6, 7, 8} : p[j].op \in {"get", "must"} /\ p[j].given = "always"
      BY <1>6 DEF Step
    <3>2. p[1].res = "fb" /\ p[2].res = "gpio" /\ p[3].res = "vmem" /\ p[4].res = "defio_mem"
          /\ p[5].res = "defio" /\ p[6].res = "regulator" /\ p[7].res = "panel"
             /\ p[8].res = "fbreg"
      BY <1>6 DEF Step
    <3>3. \A j \in {1, 2, 3, 4, 5, 6, 7, 8} : p[j].res # "p_region"
      BY <3>2
    <3>4. QED
      BY <3>1, <3>2, <3>3, <1>27, PossibleMeans
  <2>2. H \subseteq {"vmem", "regulator", "sem", "gpio", "defio_mem", "panel", "fb",
                   "defio", "fbreg"}
    <3>1. \A j \in 1 .. 8 : p[j].op \in Acquires =>
              p[j].res \in {"fb", "gpio", "vmem", "defio_mem", "defio", "regulator", "panel",
                            "fbreg"}
      BY <1>6 DEF Acquires, Step
    <3>2. QED
      BY <3>1, <1>27, <1>12, PossibleMeans
  <2>3. Paired(H)
    BY <1>27, PossibleMeans
  <2>4. p[9].undo = z1
    BY <1>6 DEF Step
  <2>5. \A x \in H \ Loaded("ssd1309fb") : \E i \in DOMAIN z1 : z1[i].res = x /\ Returns(z1, i, H)
    <3>1. H \ Loaded("ssd1309fb") \subseteq {"fb", "defio", "fbreg"}
      BY <1>12, <2>2 DEF Inert
    <3>2. z1[4].res = "fb" /\ z1[3].res = "defio" /\ z1[1].res = "fbreg"
      BY <1>4 DEF Step
    <3>3. {4, 3, 1} \subseteq DOMAIN z1
      BY <1>4
    <3>4. Returns(z1, 4, H) /\ Returns(z1, 3, H) /\ Returns(z1, 1, H)
      BY <1>8
    <3>5. QED
      BY <3>1, <3>2, <3>3, <3>4
  <2>6. "ssd1309fb" \in Careful => \A i \in DOMAIN z1 : Proper(z1, i, H)
    BY DEF Careful
  <2>7. QED
    BY <2>4, <1>8, <2>5, <2>6, CleansWhen
<1>28. Undone("ssd1309fb", p, {}, Loaded("ssd1309fb"), Loaded("ssd1309fb"))
  <2>1. SUFFICES ASSUME NEW i \in 1 .. 9, p[i].op = "must",
                        NEW H \in Possible(p, i, {}, Loaded("ssd1309fb"))
                 PROVE  Cleans("ssd1309fb", p[i].undo, H, Loaded("ssd1309fb"))
    BY <1>6 DEF Undone
  <2>2. i \in {1, 2, 3, 4, 6, 7, 8, 9}
    BY <1>6, <2>1 DEF Step
  <2>3. QED
    BY <1>20, <1>21, <1>22, <1>23, <1>24, <1>25, <1>26, <1>27, <2>1, <2>2
<1> DEFINE b == r \o c
<1>29. /\ DOMAIN b = 1 .. 5
       /\ b[1] = Step("drop", "backlight", <<>>, "always")
       /\ b[2] = Step("drop", "fbreg", <<>>, "always")
       /\ b[3] = Step("drop", "defio", <<>>, "always")
       /\ b[4] = Step("drop", "vmem", <<>>, "always")
       /\ b[5] = Step("drop", "fb", <<>>, "always")
  <2>1. /\ Len(b) = Len(r) + Len(c)
        /\ \A i \in 1 .. Len(r) + Len(c) : b[i] = IF i <= Len(r) THEN r[i] ELSE c[i - Len(r)]
    BY <1>2, <1>3, ConcatProperties
  <2>2. b \in Seq(StepSet)
    BY <1>2, <1>3
  <2> HIDE DEF b
  <2>3. DOMAIN b = 1 .. 5
    BY <1>2, <1>3, <2>1, <2>2, LenProperties
  <2>4. b[1] = r[1] /\ b[2] = r[2] /\ b[3] = r[3] /\ b[4] = r[4] /\ b[5] = r[5]
    BY <1>2, <1>3, <2>1
  <2>5. QED
    BY <1>2, <1>3, <2>3, <2>4
<1> HIDE DEF b
<1>30. /\ \A i \in DOMAIN b : b[i].op = "drop" /\ b[i].undo = <<>> /\ b[i].res \notin Inert
       /\ \A H : Returns(b, 1, H)
       /\ \A H : Returns(b, 2, H)
       /\ \A H : Returns(b, 3, H)
       /\ \A H : Returns(b, 4, H)
       /\ \A H : Returns(b, 5, H)
  <2>1. \A i \in DOMAIN b : b[i].op = "drop" /\ b[i].undo = <<>> /\ b[i].res \notin Inert
    BY <1>29 DEF Inert, Step
  <2>2. \A H : Returns(b, 1, H)
    BY <1>29 DEF Returns, Step
  <2>3. \A H : Returns(b, 2, H)
    BY <1>29 DEF Returns, Step
  <2>4. \A H : Returns(b, 3, H)
    BY <1>29 DEF Returns, Step
  <2>5. \A H : Returns(b, 4, H)
    BY <1>29 DEF Returns, Step
  <2>6. \A H : Returns(b, 5, H)
    BY <1>29 DEF Returns, Step
  <2>7. QED
    BY <2>1, <2>2, <2>3, <2>4, <2>5, <2>6
<1>31. ASSUME NEW H \in Possible(p, 10, {}, Loaded("ssd1309fb"))
      PROVE  Cleans("ssd1309fb", b, H, Kept("ssd1309fb"))
             /\ Cleans("ssd1309fb", r, H, Loaded("ssd1309fb"))
  <2>1. {"fb", "gpio", "vmem", "defio_mem", "defio", "regulator", "panel", "fbreg",
         "backlight"} \subseteq H
    <3>1. \A j \in {1, 2, 3, 4, 5, 6, 7, 8, 9} : p[j].op \in {"get", "must"}
          /\ p[j].given = "always"
      BY <1>6 DEF Step
    <3>2. p[1].res = "fb" /\ p[2].res = "gpio" /\ p[3].res = "vmem" /\ p[4].res = "defio_mem"
          /\ p[5].res = "defio" /\ p[6].res = "regulator" /\ p[7].res = "panel"
             /\ p[8].res = "fbreg" /\ p[9].res = "backlight"
      BY <1>6 DEF Step
    <3>3. \A j \in {1, 2, 3, 4, 5, 6, 7, 8, 9} : p[j].res # "p_region"
      BY <3>2
    <3>4. QED
      BY <3>1, <3>2, <3>3, <1>31, PossibleMeans
  <2>2. H \subseteq {"vmem", "regulator", "sem", "gpio", "defio_mem", "panel", "fb",
                   "defio", "fbreg", "backlight"}
    <3>1. \A j \in 1 .. 9 : p[j].op \in Acquires =>
              p[j].res \in {"fb", "gpio", "vmem", "defio_mem", "defio", "regulator", "panel",
                            "fbreg",
              "backlight"}
      BY <1>6 DEF Acquires, Step
    <3>2. QED
      BY <3>1, <1>31, <1>12, PossibleMeans
  <2>3. Paired(H)
    BY <1>31, PossibleMeans
  <2>4. \A x \in H \ Kept("ssd1309fb") : \E i \in DOMAIN b : b[i].res = x /\ Returns(b, i, H)
    <3>1. H \ Kept("ssd1309fb") \subseteq {"fb", "defio", "fbreg", "backlight"}
      BY <1>12, <2>2 DEF Inert
    <3>2. b[5].res = "fb" /\ b[3].res = "defio" /\ b[2].res = "fbreg" /\ b[1].res = "backlight"
      BY <1>29 DEF Step
    <3>3. {5, 3, 2, 1} \subseteq DOMAIN b
      BY <1>29
    <3>4. Returns(b, 5, H) /\ Returns(b, 3, H) /\ Returns(b, 2, H) /\ Returns(b, 1, H)
      BY <1>30
    <3>5. QED
      BY <3>1, <3>2, <3>3, <3>4
  <2>5. "ssd1309fb" \in Careful => \A i \in DOMAIN b : Proper(b, i, H)
    BY DEF Careful
  <2>6. Cleans("ssd1309fb", b, H, Kept("ssd1309fb"))
    BY <1>30, <2>4, <2>5, CleansWhen
  <2>7. \A x \in H \ Loaded("ssd1309fb") : \E i \in DOMAIN r : r[i].res = x /\ Returns(r, i, H)
    <3>1. H \ Loaded("ssd1309fb") \subseteq {"fb", "defio", "fbreg", "backlight"}
      BY <1>12, <2>2 DEF Inert
    <3>2. r[5].res = "fb" /\ r[3].res = "defio" /\ r[2].res = "fbreg" /\ r[1].res = "backlight"
      BY <1>3 DEF Step
    <3>3. {5, 3, 2, 1} \subseteq DOMAIN r
      BY <1>3
    <3>4. Returns(r, 5, H) /\ Returns(r, 3, H) /\ Returns(r, 2, H) /\ Returns(r, 1, H)
      BY <1>16
    <3>5. QED
      BY <3>1, <3>2, <3>3, <3>4
  <2>8. "ssd1309fb" \in Careful => \A i \in DOMAIN r : Proper(r, i, H)
    BY DEF Careful
  <2>9. Cleans("ssd1309fb", r, H, Loaded("ssd1309fb"))
    BY <1>16, <2>7, <2>8, CleansWhen
  <2>10. QED
    BY <2>6, <2>9
<1>32. Len(s) + 1 = 1 /\ Len(p) + 1 = 10
  BY <1>5, <1>6
<1>33. QED
  BY <1>32, <1>2, <1>3, <1>5, <1>6, <1>7, <1>12, <1>13, <1>14, <1>17, <1>18, <1>19, <1>28, <1>31,
     ProbedIsWritten DEF b

(* The steps of every module are written like that.                        *)
LEMMA AllAreWritten == \A d \in Names : Written(d)
<1>1. SUFFICES ASSUME NEW d \in Names PROVE Written(d)
  OBVIOUS
<1>2. d \in {"scull", "scullp", "scullv", "scullc", "sculld", "lddbus", "short", "short_mem",
             "shortprint", "usb", "pci", "ofdev", "spioled", "ssd1309fb", "sleepy", "complete",
             "faulty", "jiq", "jit", "seq"}
  BY DEF Names, Plans
<1>3. CASE d \in {"scull", "scullp", "scullv", "scullc", "sculld", "lddbus"}
  BY <1>3, ScullIsWritten, ScullpIsWritten, ScullcIsWritten, SculldIsWritten, LddbusIsWritten
<1>4. CASE d \in {"short", "short_mem", "shortprint", "usb"}
  BY <1>4, ShortIsWritten, ShortMemIsWritten, ShortPrintIsWritten, UsbIsWritten
<1>5. CASE d \in {"pci", "ofdev", "spioled", "ssd1309fb"}
  BY <1>5, PciIsWritten, OfdevIsWritten, OledIsWritten, FbIsWritten
<1>6. CASE d \in {"sleepy", "complete", "faulty", "jiq", "jit", "seq"}
  BY <1>6, MiscIsWritten, JiqIsWritten, SeqIsWritten
<1>7. QED
  BY <1>2, <1>3, <1>4, <1>5, <1>6

LEMMA LoadKept == LoadingAssumption => /\ LoadingInit => LoadInv
                                       /\ LoadInv /\ [LoadingNext]_lvars => LoadInv'
<1>1. ASSUME LoadingAssumption, LoadingInit PROVE LoadInv
  <2>1. /\ driver \in Drivers /\ phase = "out" /\ bound = FALSE /\ todo = <<>> /\ held = {}
        /\ wild = {} /\ users = FALSE /\ loads = 0 /\ MaxLoads \in Nat
    BY <1>1 DEF LoadingInit, LoadingAssumption
  <2>2. LoadingTypeOK /\ todo \in Seq(StepSet)
    <3>1. loads \in 0 .. MaxLoads
      BY <2>1
    <3>2. <<>> \in Seq(StepSet)
      BY EmptySeq
    <3>3. QED
      BY <2>1, <3>1, <3>2 DEF LoadingTypeOK
  <2>3. Keeps /\ Serves /\ Paired(held)
    BY <2>1 DEF Keeps, Serves, Paired
  <2>4. QED
    BY <2>1, <2>2, <2>3 DEF LoadInv
<1>2. ASSUME LoadingAssumption, LoadInv, LoadingNext PROVE LoadInv'
  <2>1. CASE Load \/ Bind \/ Unbind \/ Unload
    BY <1>2, <2>1, AllAreWritten, CallsBegin
  <2>2. CASE OpenDriver \/ Close
    BY <1>2, <2>2, AllAreWritten, OpensAndCloses
  <2>3. CASE Skip \/ Acquire \/ Oops \/ GiveBack \/ Touch
    BY <1>2, <2>3, AllAreWritten, StepsOn
  <2>4. CASE GoOn
    BY <1>2, <2>4, AllAreWritten, GoesOnWithout
  <2>5. CASE Fail
    BY <1>2, <2>5, AllAreWritten, FailsClean
  <2>6. CASE End
    BY <1>2, <2>6, AllAreWritten, EndsWell
  <2>7. QED
    BY <1>2, <2>1, <2>2, <2>3, <2>4, <2>5, <2>6 DEF LoadingNext
<1>3. ASSUME LoadInv, UNCHANGED lvars PROVE LoadInv'
  <2>1. UNCHANGED <<driver, phase, bound, todo, held, wild, users, loads>>
    BY <1>3 DEF lvars
  <2>2. LoadingTypeOK' /\ todo' \in Seq(StepSet)
    BY <1>3, <2>1 DEF LoadInv, LoadingTypeOK
  <2>3. Keeps'
    <3>1. Keeps
      BY <1>3 DEF LoadInv
    <3>2. QED
      BY <2>1, <3>1, Zenon DEF Keeps
  <2>4. Serves' /\ (Paired(held) => Paired(held'))
    BY <1>3, <2>1 DEF LoadInv, Serves, Paired
  <2>5. QED
    BY <1>3, <2>1, <2>2, <2>3, <2>4 DEF LoadInv
<1>4. QED
  BY <1>1, <1>2, <1>3

(* Whatever step of a load fails, and after any number of loads: a module  *)
(* that is out holds nothing but what is listed, a cleanup that checks     *)
(* meets only what was set up, and what a process has open is ready.       *)
THEOREM LoadsStayUndone == LoadingSpec => []LoadsAreUndone
<1>1. LoadInv => LoadsAreUndone
  <2>1. SUFFICES ASSUME LoadInv PROVE LoadsAreUndone
    OBVIOUS
  <2>2. NothingElseStays
    BY <2>1 DEF LoadInv, Keeps, NothingElseStays, Left
  <2>3. OpenedIsReady
    <3>1. SUFFICES ASSUME users, driver \in Opened
                   PROVE  {"devices", "sem", "cdevs"} \subseteq held /\ phase # "undoing"
      BY DEF OpenedIsReady, Opened
    <3>2. Devs \subseteq held /\ phase \in {"loading", "in"}
      BY <2>1, <3>1 DEF LoadInv, Serves
    <3>3. QED
      BY <3>2 DEF Devs
  <2>4. QED
    BY <2>1, <2>2, <2>3 DEF LoadInv, LoadsAreUndone, CleanupMeetsWhatItUndoes
<1>2. QED
  BY <1>1, LoadKept, LoadingAssumption, PTL DEF LoadingSpec

=============================================================================
