----------------------------- MODULE ShortRings -----------------------------
(***************************************************************************)
(* The interrupt log of short/short.c, which is also the input side of     *)
(* shortprint/shortprint.c: a page of text written by interrupt handlers   *)
(* or by the bottom half that empties the array of time values, and read   *)
(* without a lock.                                                         *)
(*                                                                         *)
(* A record is two cells of the page, its time; the NUL that sprintf()     *)
(* adds goes to the cell after it.  Times are the numbers of the           *)
(* interrupts; a record "bh after ..." has time 0.                         *)
(***************************************************************************)
EXTENDS Integers, SequencesExt

CONSTANTS
    Reader,
    Handlers,       \* the handlers a behaviour may have installed
    Records,        \* records in the page: 256 in the code
    NR_TIMEVAL,     \* 512 in the code
    MaxIrqs         \* bound on the number of interrupts

ASSUME ShortRingsAssumption ==
    /\ Handlers \subseteq {"interrupt", "sh_interrupt", "tl_interrupt", "wq_interrupt", "shortp"}
    /\ Records \in Nat \ {0} /\ NR_TIMEVAL \in Nat \ {0} /\ MaxIrqs \in Nat

Width     == 2
PAGE_SIZE == Width * Records

VARIABLES
    handler,                    \* the handler installed in this behaviour
    irqs,                       \* interrupts so far
    page, short_head, short_tail,
    tv_data, tv_head, tv_tail, short_wq_count,
    top, seen_count,            \* the top half under way and its copy of the count
    queued, bh, savecount,      \* the bottom half: scheduled, where it is, its copy
    rpc, waiting, count, old_tail,  \* readers: where, on short_queue, to copy, tail loaded
    unread,                     \* the text written and not yet given to a reader
    amiss,                      \* a reader was given something else
    overrun, beyond,            \* a record went over unread text; a NUL left the page
    stale                       \* a time value that no interrupt had just stored was printed

text   == <<page, short_head, short_tail, unread, overrun, beyond>>
array  == <<tv_data, tv_head, tv_tail, short_wq_count>>
tophalf == <<top, seen_count>>
bottom == <<queued, bh, savecount, stale>>
reading == <<rpc, count, old_tail, amiss>>
rvars  == <<handler, irqs, text, array, tophalf, bottom, reading, waiting>>

Deferred == handler \in {"tl_interrupt", "wq_interrupt"}

RingsTypeOK ==
    /\ handler \in Handlers /\ irqs \in 0 .. MaxIrqs
    /\ page \in [0 .. PAGE_SIZE - 1 -> -1 .. MaxIrqs]
    /\ short_head \in 0 .. PAGE_SIZE - 1 /\ short_tail \in 0 .. PAGE_SIZE - 1
    /\ tv_data \in [0 .. NR_TIMEVAL - 1 -> 0 .. MaxIrqs]
    /\ tv_head \in 0 .. NR_TIMEVAL - 1 /\ tv_tail \in 0 .. NR_TIMEVAL - 1
    /\ short_wq_count \in 0 .. MaxIrqs /\ savecount \in 0 .. MaxIrqs
    /\ seen_count \in 0 .. MaxIrqs
    /\ top \in {"none", "wake", "schedule", "load", "store"}
    /\ bh \in {"none", "save", "reset", "header", "times", "wake"}
    /\ unread \in Seq(0 .. MaxIrqs) /\ amiss \in BOOLEAN
    /\ queued \in BOOLEAN /\ overrun \in BOOLEAN /\ beyond \in BOOLEAN /\ stale \in BOOLEAN
    /\ rpc \in [Reader -> {"idle", "test", "recheck", "schedule", "finish", "count",
                           "copy", "load", "store"}]
    /\ waiting \subseteq Reader /\ count \in [Reader -> 0 .. PAGE_SIZE]
    /\ old_tail \in [Reader -> 0 .. PAGE_SIZE]

RingsInit ==
    /\ handler \in Handlers /\ irqs = 0
    /\ page = [c \in 0 .. PAGE_SIZE - 1 |-> -1] /\ short_head = 0 /\ short_tail = 0
    /\ tv_data = [e \in 0 .. NR_TIMEVAL - 1 |-> 0] /\ tv_head = 0 /\ tv_tail = 0
    /\ short_wq_count = 0 /\ savecount = 0 /\ seen_count = 0
    /\ top = "none" /\ bh = "none" /\ queued = FALSE
    /\ rpc = [r \in Reader |-> "idle"] /\ waiting = {} /\ count = [r \in Reader |-> 0]
    /\ old_tail = [r \in Reader |-> 0]
    /\ unread = <<>> /\ amiss = FALSE
    /\ overrun = FALSE /\ beyond = FALSE /\ stale = FALSE
-----------------------------------------------------------------------------
(* An increment that reaches the end of the page starts again from its     *)
(* beginning, wherever it was going.                                       *)
short_incr_bp(index, delta)  == IF index + delta >= PAGE_SIZE THEN 0 ELSE index + delta
shortp_incr_bp(index, delta) == IF index + delta >= PAGE_SIZE THEN 0 ELSE index + delta
incr_bp(index, delta) == IF handler = "shortp" THEN shortp_incr_bp(index, delta)
                                               ELSE short_incr_bp(index, delta)

short_incr_tv(tvp) == IF tvp = NR_TIMEVAL - 1 THEN 0 ELSE tvp + 1

(* sprintf() at the head and the advance of the head.                      *)
Log(time) ==
    /\ page' = [c \in 0 .. PAGE_SIZE - 1 |->
                   IF c \in short_head .. short_head + Width - 1 THEN time
                   ELSE IF c = short_head + Width THEN -1 ELSE page[c]]
    /\ beyond' = (beyond \/ short_head + Width = PAGE_SIZE)
    /\ overrun' = (overrun \/ \E c \in short_head + 1 .. short_head + Width :
                                  short_tail = c % PAGE_SIZE)
    /\ short_head' = incr_bp(short_head, Width)
    /\ unread' = IF overrun' THEN <<>> ELSE unread \o [c \in 1 .. Width |-> time]
    /\ UNCHANGED short_tail

Wake == waiting' = {}

NewIrq == irqs < MaxIrqs /\ top = "none" /\ irqs' = irqs + 1
-----------------------------------------------------------------------------
(* The handlers that write their record themselves: one interrupt at a     *)
(* time.  The shared one first asks the port whether it is concerned.      *)
WriteRecord == /\ NewIrq /\ Log(irqs') /\ top' = "wake"
               /\ UNCHANGED <<handler, array, seen_count, bottom, reading, waiting>>
WakeReaders == /\ top = "wake" /\ Wake /\ top' = "none"
               /\ UNCHANGED <<handler, irqs, text, array, seen_count, bottom, reading>>
NotShort == /\ NewIrq
            /\ UNCHANGED <<handler, text, array, tophalf, bottom, reading, waiting>>

short_interrupt    == handler = "interrupt" /\ (WriteRecord \/ WakeReaders)
short_sh_interrupt == handler = "sh_interrupt" /\ (NotShort \/ WriteRecord \/ WakeReaders)

(* The handlers with a bottom half: the time is stored, the bottom half    *)
(* scheduled, and the count incremented after that, by a load and a store. *)
StoreTime ==
    /\ NewIrq /\ top' = "schedule"
    /\ tv_data' = [tv_data EXCEPT ![tv_head] = irqs'] /\ tv_head' = short_incr_tv(tv_head)
    /\ UNCHANGED <<handler, tv_tail, short_wq_count, seen_count, text, bottom, reading, waiting>>
Schedule ==
    /\ top = "schedule" /\ top' = "load" /\ queued' = TRUE
    /\ UNCHANGED <<handler, irqs, seen_count, text, array, bh, savecount, stale, reading, waiting>>
LoadCount ==
    /\ top = "load" /\ top' = "store" /\ seen_count' = short_wq_count
    /\ UNCHANGED <<handler, irqs, text, array, bottom, reading, waiting>>
StoreCount ==
    /\ top = "store" /\ top' = "none" /\ seen_count' = 0 /\ short_wq_count' = seen_count + 1
    /\ UNCHANGED <<handler, irqs, text, tv_data, tv_head, tv_tail, bottom, reading, waiting>>

short_wq_interrupt == handler = "wq_interrupt" /\ (StoreTime \/ Schedule \/ LoadCount \/ StoreCount)
short_tl_interrupt == handler = "tl_interrupt" /\ (StoreTime \/ Schedule \/ LoadCount \/ StoreCount)

(* shortprint keeps one time; its work function writes the record.         *)
shortp_interrupt ==
    /\ handler = "shortp" /\ NewIrq /\ queued' = TRUE
    /\ tv_data' = [tv_data EXCEPT ![0] = irqs']
    /\ UNCHANGED <<handler, text, tv_head, tv_tail, short_wq_count, tophalf, bh, savecount,
                   stale, reading, waiting>>
-----------------------------------------------------------------------------
(* The bottom half, a tasklet or a work item: it leaves the queue when it  *)
(* starts, so that it can be queued again while it runs.                   *)
Start == /\ queued /\ bh = "none" /\ queued' = FALSE
         /\ bh' = IF Deferred THEN "save" ELSE "times"
         /\ UNCHANGED <<handler, irqs, text, array, tophalf, savecount, stale, reading, waiting>>

SaveCount == /\ bh = "save" /\ bh' = "reset" /\ savecount' = short_wq_count
             /\ UNCHANGED <<handler, irqs, text, array, tophalf, queued, stale, reading, waiting>>
ResetCount == /\ bh = "reset" /\ bh' = "header" /\ short_wq_count' = 0
              /\ UNCHANGED <<handler, irqs, text, tv_data, tv_head, tv_tail, tophalf, queued,
                             savecount, stale, reading, waiting>>
Header == /\ bh = "header" /\ bh' = "times" /\ Log(0) /\ savecount' = 0
          /\ UNCHANGED <<handler, irqs, array, tophalf, queued, stale, reading, waiting>>

(* Mutant: no loop, one time for each run.                                 *)
OneTime ==
    /\ bh = "times" /\ Log(tv_data[tv_tail]) /\ bh' = "wake"
    /\ tv_tail' = short_incr_tv(tv_tail)
    /\ stale' = (stale \/ tv_tail = tv_head)
    /\ UNCHANGED <<handler, irqs, tv_data, tv_head, short_wq_count, tophalf, queued, savecount,
                   reading, waiting>>

(* One turn of the do ... while: a time is printed before it is known that *)
(* there is one.                                                           *)
Times ==
    /\ bh = "times" /\ Log(tv_data[tv_tail])
    /\ tv_tail' = short_incr_tv(tv_tail)
    /\ bh' = IF tv_tail' = tv_head THEN "wake" ELSE "times"
    /\ stale' = (stale \/ tv_tail = tv_head)
    /\ UNCHANGED <<handler, irqs, tv_data, tv_head, short_wq_count, tophalf, queued, savecount,
                   reading, waiting>>

BhWake == /\ bh = "wake" /\ Wake /\ bh' = "none"
          /\ UNCHANGED <<handler, irqs, text, array, tophalf, queued, savecount, stale, reading>>

short_do_tasklet == Deferred /\ (Start \/ SaveCount \/ ResetCount \/ Header \/ Times \/ BhWake)

(* The record at the end of shortprint's work function.                    *)
shortp_record ==
    /\ handler = "shortp"
    /\ \/ Start \/ BhWake
       \/ /\ bh = "times" /\ Log(tv_data[0]) /\ bh' = "wake"
          /\ UNCHANGED <<handler, irqs, array, tophalf, queued, savecount, stale, reading, waiting>>
-----------------------------------------------------------------------------
(* A read, without any lock.                                               *)
RGoTo(r, l) == rpc' = [rpc EXCEPT ![r] = l]

ReadCall(r) ==
    /\ rpc[r] = "idle" /\ RGoTo(r, "test")
    /\ UNCHANGED <<handler, irqs, text, array, tophalf, bottom, waiting, count, old_tail, amiss>>

(* The loop: on the queue first, then the test again, then to sleep; a     *)
(* reader taken off the queue in the meantime does not sleep.              *)
TestEmpty(r) ==
    /\ rpc[r] = "test"
    /\ IF short_head = short_tail
       THEN RGoTo(r, "recheck") /\ waiting' = waiting \cup {r}
       ELSE RGoTo(r, "count") /\ UNCHANGED waiting
    /\ UNCHANGED <<handler, irqs, text, array, tophalf, bottom, count, old_tail, amiss>>

(* Mutant: to sleep on the strength of the first test.                     *)
RecheckNothing(r) ==
    /\ rpc[r] = "recheck" /\ RGoTo(r, "schedule") /\ waiting' = waiting \cup {r}
    /\ UNCHANGED <<handler, irqs, text, array, tophalf, bottom, count, old_tail, amiss>>

Recheck(r) ==
    /\ rpc[r] = "recheck"
    /\ RGoTo(r, IF short_head = short_tail THEN "schedule" ELSE "finish")
    /\ UNCHANGED <<handler, irqs, text, array, tophalf, bottom, waiting, count, old_tail, amiss>>

WakesUp(r) ==
    /\ rpc[r] = "schedule" /\ r \notin waiting /\ RGoTo(r, "finish")
    /\ UNCHANGED <<handler, irqs, text, array, tophalf, bottom, waiting, count, old_tail, amiss>>

(* A signal ends the wait, even when there is something to read by now.    *)
Signalled(r) ==
    /\ rpc[r] \in {"schedule", "finish"} /\ RGoTo(r, "idle") /\ waiting' = waiting \ {r}
    /\ UNCHANGED <<handler, irqs, text, array, tophalf, bottom, count, old_tail, amiss>>

Finish(r) ==
    /\ rpc[r] = "finish" /\ RGoTo(r, "test") /\ waiting' = waiting \ {r}
    /\ UNCHANGED <<handler, irqs, text, array, tophalf, bottom, count, old_tail, amiss>>

(* Mutant: all the text, as if it were in one piece.                       *)
ReadableAcross == (PAGE_SIZE + short_head - short_tail) % PAGE_SIZE

(* The text up to the head, or up to the end of the page.                  *)
Readable == IF short_head < short_tail THEN PAGE_SIZE - short_tail ELSE short_head - short_tail

CountReadable(r, n) ==
    /\ rpc[r] = "count" /\ RGoTo(r, "copy")
    /\ count' = [count EXCEPT ![r] = IF Readable < n THEN Readable ELSE n]
    /\ UNCHANGED <<handler, irqs, text, array, tophalf, bottom, waiting, old_tail, amiss>>

(* What lies past the end of the page is not text of the driver.           *)
CopyText(r) ==
    /\ rpc[r] = "copy" /\ RGoTo(r, "load")
    /\ LET given == [c \in 1 .. count[r] |->
                       IF short_tail + c <= PAGE_SIZE THEN page[short_tail + c - 1] ELSE -1]
       IN amiss' = (amiss \/ (~overrun /\ ~IsPrefix(given, unread)))
    /\ unread' = SubSeq(unread, count[r] + 1, Len(unread))
    /\ UNCHANGED <<handler, irqs, page, short_head, short_tail, overrun, beyond, array, tophalf,
                   bottom, waiting, count, old_tail>>

CopyFaults(r) ==
    /\ rpc[r] = "copy" /\ RGoTo(r, "idle") /\ count' = [count EXCEPT ![r] = 0]
    /\ UNCHANGED <<handler, irqs, text, array, tophalf, bottom, waiting, old_tail, amiss>>

(* The tail is advanced by a load and a store.                             *)
LoadTail(r) ==
    /\ rpc[r] = "load" /\ RGoTo(r, "store") /\ old_tail' = [old_tail EXCEPT ![r] = short_tail]
    /\ UNCHANGED <<handler, irqs, text, array, tophalf, bottom, waiting, count, amiss>>

StoreTail(r) ==
    /\ rpc[r] = "store" /\ RGoTo(r, "idle")
    /\ short_tail' = incr_bp(old_tail[r], count[r])
    /\ count' = [count EXCEPT ![r] = 0] /\ old_tail' = [old_tail EXCEPT ![r] = 0]
    /\ UNCHANGED <<handler, irqs, page, short_head, unread, overrun, beyond, array, tophalf,
                   bottom, waiting, amiss>>

Reads(r) == \/ ReadCall(r) \/ TestEmpty(r) \/ Recheck(r) \/ WakesUp(r) \/ Signalled(r)
            \/ Finish(r) \/ (\E n \in 1 .. PAGE_SIZE : CountReadable(r, n))
            \/ CopyText(r) \/ CopyFaults(r) \/ LoadTail(r) \/ StoreTail(r)

short_i_read(r) == handler # "shortp" /\ Reads(r)
shortp_read(r)  == handler = "shortp" /\ Reads(r)

RingsNext == \/ short_interrupt \/ short_sh_interrupt \/ short_wq_interrupt \/ short_tl_interrupt
             \/ shortp_interrupt \/ shortp_record \/ short_do_tasklet
             \/ \E r \in Reader : short_i_read(r) \/ shortp_read(r)

RingsSpec == RingsInit /\ [][RingsNext]_rvars

-----------------------------------------------------------------------------
(* As long as the writer has not run over unread text, a single reader is  *)
(* given the log as it was written: nothing lost, repeated or out of       *)
(* order, whatever the lengths of its reads and wherever the page wraps.   *)
OneReader == \A r, s \in Reader : r = s
ReaderGetsTheLog == OneReader => ~amiss

(* The ring of text keeps its types and gives the reader the log.          *)
LogIsSound == RingsTypeOK /\ ReaderGetsTheLog

(* A single reader does not sleep on text: when it is on the queue it has a *)
(* wake-up on its way, though no lock is taken around the head and the     *)
(* queue.  (A second reader can move the tail away under the first.)       *)
LogSleeperIsWoken ==
    OneReader => \A r \in waiting : (rpc[r] = "schedule" /\ short_head # short_tail) =>
                                        top = "wake" \/ bh \in {"times", "wake"}

(* A time in the array is never left behind: until the bottom half has     *)
(* caught up with the handler it is running or about to, although it       *)
(* leaves the queue before it has looked.                                  *)
NoTimeIsForgotten ==
    (Deferred /\ tv_tail # tv_head) =>
        queued \/ top = "schedule" \/ bh \in {"save", "reset", "header", "times"}

(* short.c:373-375: the bottom half "reads the tv array, filled by the top *)
(* half, and prints it".                                                   *)
PrintsWhatWasStored == ~stale
=============================================================================
