------------------------------ MODULE ShortPrint ------------------------------
(***************************************************************************)
(* shortprint/shortprint.c: a printer on a parallel port.  A write fills a *)
(* ring; a work item takes one byte at a time out of it, driven by the     *)
(* printer's interrupts, and by a timer when an interrupt is missed.       *)
(*                                                                         *)
(* Processes, the interrupt, the work queue's thread and the timer run at  *)
(* the same time.  A section under shortp_out_lock is one step: it makes   *)
(* one store that others look at without the lock, before it wakes anyone. *)
(***************************************************************************)
EXTENDS Integers, Sequences, FiniteSets

CONSTANTS
    Proc, NoProc,
    PAGE_SIZE,      \* the size of the output ring
    MaxCount        \* bound on the count of a write

ASSUME ShortPrintAssumption ==
    /\ NoProc \notin Proc
    /\ PAGE_SIZE \in Nat \ {0, 1} /\ MaxCount \in Nat \ {0}

SP_MIN_SPACE == PAGE_SIZE \div 2

VARIABLES
    cell, out_head, out_tail,   \* the output ring: places from 0 to PAGE_SIZE - 1
    out_sem,                    \* who holds shortp_out_sem
    active,                     \* shortp_output_active
    timer,                      \* shortp_timer is pending
    timeout,                    \* where shortp_timeout is
    queued, work,               \* shortp_work is queued; where shortp_do_work is
    irq, printer,               \* an interrupt is raised; the printer's state
    pc, space, left,            \* processes: space found, bytes still to move
    oops                        \* add_timer() was called on a pending timer

output  == <<cell, out_head, out_tail, out_sem>>
engine  == <<active, timer, timeout, queued, work>>
device  == <<irq, printer>>
vars    == <<output, engine, device, pc, space, left, oops>>

Location == {"closed", "idle",
             "w_down", "w_space", "w_behind", "w_ahead", "w_wait", "w_queued", "w_qbehind", "w_qahead",
             "w_asleep", "w_copy", "w_start",
             "x_test", "x_queued", "x_asleep"}

TypeOK ==
    /\ cell \in [0 .. PAGE_SIZE - 1 -> Proc \cup {NoProc}]
    /\ out_head \in 0 .. PAGE_SIZE - 1 /\ out_tail \in 0 .. PAGE_SIZE - 1
    /\ out_sem \in Proc \cup {NoProc}
    /\ active \in BOOLEAN /\ timer \in BOOLEAN /\ queued \in BOOLEAN
    /\ timeout \in {"idle", "fired", "locking"}
    /\ work \in {"idle", "waiting", "record"}
    /\ irq \in BOOLEAN /\ printer \in {"ready", "busy", "acking"}
    /\ pc \in [Proc -> Location]
    /\ space \in [Proc -> Int] /\ left \in [Proc -> 0 .. MaxCount]
    /\ oops \in BOOLEAN

Init ==
    /\ cell = [i \in 0 .. PAGE_SIZE - 1 |-> NoProc]
    /\ out_head = 0 /\ out_tail = 0 /\ out_sem = NoProc
    /\ active = FALSE /\ timer = FALSE /\ timeout = "idle"
    /\ queued = FALSE /\ work = "idle"
    /\ irq = FALSE /\ printer = "ready"
    /\ pc = [p \in Proc |-> "closed"]
    /\ space = [p \in Proc |-> 0] /\ left = [p \in Proc |-> 0]
    /\ oops = FALSE

GoTo(p, l) == pc' = [pc EXCEPT ![p] = l]

(* wake_up_interruptible() on the two queues: sleepers test again, and who *)
(* was queued but not yet asleep does not fall asleep after this test.     *)
WakeWriters ==
    [p \in Proc |-> CASE pc[p] = "w_asleep"  -> "w_queued"
                      [] pc[p] = "w_queued"  -> "w_space"
                      [] pc[p] = "w_qbehind" -> "w_behind"
                      [] pc[p] = "w_qahead"  -> "w_ahead"
                      [] OTHER -> pc[p]]

WakeClosers ==
    [p \in Proc |-> CASE pc[p] = "x_asleep" -> "x_queued"
                      [] pc[p] = "x_queued" -> "x_test"
                      [] OTHER -> pc[p]]

-----------------------------------------------------------------------------
(* shortp_write                                                            *)

Open(p) ==
    /\ pc[p] = "closed"
    /\ GoTo(p, "idle")
    /\ UNCHANGED <<output, engine, device, space, left, oops>>

Write(p, n) ==
    /\ pc[p] = "idle"
    /\ left' = [left EXCEPT ![p] = n]
    /\ GoTo(p, "w_down")
    /\ UNCHANGED <<output, engine, device, space, oops>>

WriteDown(p) ==
    /\ pc[p] = "w_down" /\ out_sem = NoProc
    /\ out_sem' = p
    /\ GoTo(p, "w_space")
    /\ UNCHANGED <<cell, out_head, out_tail, engine, device, space, left, oops>>

WriteDownInterrupted(p) ==
    /\ pc[p] = "w_down" /\ out_sem # NoProc
    /\ left' = [left EXCEPT ![p] = 0]
    /\ GoTo(p, "idle")
    /\ UNCHANGED <<output, engine, device, space, oops>>

(* shortp_out_space(): shortp_out_tail is loaded twice, and the work item  *)
(* may move it between the comparison and the subtraction.                 *)
CompareHeadTail(p) ==
    /\ pc[p] \in {"w_space", "w_queued"}
    /\ LET queue == pc[p] = "w_queued" IN
       GoTo(p, IF out_head >= out_tail THEN (IF queue THEN "w_qbehind" ELSE "w_behind")
                                       ELSE (IF queue THEN "w_qahead" ELSE "w_ahead"))
    /\ UNCHANGED <<output, engine, device, space, left, oops>>

incr_out_bp(bp, incr) == IF bp + incr >= PAGE_SIZE THEN bp + incr - PAGE_SIZE ELSE bp + incr

(* Mutant: no place is kept free when the tail is at the start.            *)
SpaceToTheEndAll == PAGE_SIZE - out_head

SpaceToTheEnd == IF out_tail = 0 THEN PAGE_SIZE - out_head - 1 ELSE PAGE_SIZE - out_head

out_space(p) ==
    IF pc[p] \in {"w_behind", "w_qbehind"} THEN SpaceToTheEnd ELSE out_tail - out_head - 1

(* Without space wait_event_interruptible() queues the process, computes   *)
(* the space again, and lets it sleep if there still is none.  (That the   *)
(* macro also computes it before it queues adds nothing.)                  *)
ComputeSpace(p) ==
    /\ pc[p] \in {"w_behind", "w_ahead", "w_qbehind", "w_qahead"}
    /\ space' = [space EXCEPT ![p] = out_space(p)]
    /\ GoTo(p, IF out_space(p) > 0 THEN "w_copy"
               ELSE IF pc[p] \in {"w_behind", "w_ahead"} THEN "w_wait" ELSE "w_asleep")
    /\ UNCHANGED <<output, engine, device, left, oops>>

PrepareToWait(p) ==
    /\ pc[p] = "w_wait"
    /\ GoTo(p, "w_queued")
    /\ UNCHANGED <<output, engine, device, space, left, oops>>

(* up() and return, at the end, after a signal or after a fault.           *)
WriteUp(p) ==
    /\ out_sem' = NoProc
    /\ left' = [left EXCEPT ![p] = 0] /\ space' = [space EXCEPT ![p] = 0]
    /\ GoTo(p, "idle")

WriteInterrupted(p) ==
    /\ pc[p] \in {"w_queued", "w_asleep"}
    /\ WriteUp(p)
    /\ UNCHANGED <<cell, out_head, out_tail, engine, device, oops>>

WriteFault(p) ==
    /\ pc[p] = "w_copy"
    /\ WriteUp(p)
    /\ UNCHANGED <<cell, out_head, out_tail, engine, device, oops>>

Chunk(p) == IF space[p] > left[p] THEN left[p] ELSE space[p]

WriteCopy(p) ==
    /\ pc[p] = "w_copy"
    /\ cell' = [i \in DOMAIN cell |-> IF i \in out_head .. out_head + Chunk(p) - 1 THEN p ELSE cell[i]]
    /\ out_head' = incr_out_bp(out_head, Chunk(p))
    /\ left' = [left EXCEPT ![p] = @ - Chunk(p)]
    /\ GoTo(p, "w_start")
    /\ UNCHANGED <<out_tail, out_sem, engine, device, space, oops>>

(* add_timer() must not find the timer pending: it would BUG_ON() with the *)
(* lock held, and nobody gets the lock any more.                           *)
AddTimer == timer' = TRUE /\ oops' = timer

Lock == ~oops

(* shortp_start_output(), when nothing is active.                          *)
StartOutput ==
    IF active
    THEN UNCHANGED <<active, timer, queued, oops>>
    ELSE active' = TRUE /\ queued' = TRUE /\ AddTimer

(* Under shortp_out_lock; then the next chunk, or the end.                 *)
WriteStart(p) ==
    /\ pc[p] = "w_start" /\ Lock
    /\ StartOutput
    /\ IF left[p] > 0 THEN GoTo(p, "w_space") /\ UNCHANGED <<out_sem, left, space>> ELSE WriteUp(p)
    /\ UNCHANGED <<cell, out_head, out_tail, timeout, work, device>>

-----------------------------------------------------------------------------
(* shortp_release waits for the output to end, unless there is a signal.   *)

Release(p) ==
    /\ pc[p] = "idle"
    /\ GoTo(p, "x_test")
    /\ UNCHANGED <<output, engine, device, space, left, oops>>

ReleaseTest(p) ==
    /\ pc[p] \in {"x_test", "x_queued"}
    /\ GoTo(p, IF ~active THEN "closed" ELSE IF pc[p] = "x_test" THEN "x_queued" ELSE "x_asleep")
    /\ UNCHANGED <<output, engine, device, space, left, oops>>

ReleaseInterrupted(p) ==
    /\ pc[p] \in {"x_queued", "x_asleep"}
    /\ GoTo(p, "closed")
    /\ UNCHANGED <<output, engine, device, space, left, oops>>

-----------------------------------------------------------------------------
(* The work queue's thread: shortp_do_work                                 *)

WorkStart ==
    /\ queued /\ work = "idle"
    /\ queued' = FALSE /\ work' = "waiting"
    /\ UNCHANGED <<output, active, timer, timeout, device, pc, space, left, oops>>

(* shortp_do_write(): the timer is set again, and one byte strobed out.    *)
DoWrite ==
    /\ timer' = TRUE
    /\ cell' = [cell EXCEPT ![out_tail] = NoProc]     \* nobody needs the byte any more
    /\ out_tail' = incr_out_bp(out_tail, 1)
    /\ printer' = "busy"

RoomForWriters == (PAGE_SIZE + out_tail' - out_head) % PAGE_SIZE > SP_MIN_SPACE

(* Mutant: the wake-up of the writers is forgotten.                        *)
WorkLockedQuietly ==
    /\ work = "waiting" /\ printer # "busy" /\ Lock
    /\ work' = "record"
    /\ IF out_head = out_tail
       THEN /\ active' = FALSE /\ timer' = FALSE
            /\ pc' = WakeClosers
            /\ UNCHANGED <<cell, out_tail, printer>>
       ELSE /\ DoWrite
            /\ UNCHANGED <<active, pc>>
    /\ UNCHANGED <<out_head, out_sem, timeout, queued, irq, space, left, oops>>

(* Mutant: output goes inactive with the last byte, not after it.          *)
WorkLockedEarly ==
    /\ work = "waiting" /\ printer # "busy" /\ Lock
    /\ work' = "record"
    /\ IF out_head = out_tail
       THEN UNCHANGED <<cell, out_tail, printer, timer>>
       ELSE DoWrite
    /\ active' = FALSE
    /\ pc' = IF RoomForWriters THEN WakeWriters ELSE WakeClosers
    /\ UNCHANGED <<out_head, out_sem, timeout, queued, irq, space, left, oops>>

(* shortp_wait() ends when the printer is not busy; then, under the lock,  *)
(* output ends or the next byte goes out, and writers may be woken.        *)
WorkLocked ==
    /\ work = "waiting" /\ printer # "busy" /\ Lock
    /\ work' = "record"
    /\ \/ /\ out_head = out_tail
          /\ active' = FALSE /\ timer' = FALSE
          /\ pc' = WakeClosers
          /\ UNCHANGED <<cell, out_tail, printer>>
       \/ /\ out_head # out_tail
          /\ DoWrite
          /\ pc' = IF RoomForWriters THEN WakeWriters ELSE pc
          /\ UNCHANGED active
    /\ UNCHANGED <<out_head, out_sem, timeout, queued, irq, space, left, oops>>

(* The "read" side follows, outside the lock; it only touches the input    *)
(* ring, which is left out.                                                *)
WorkRecord ==
    /\ work = "record"
    /\ work' = "idle"
    /\ UNCHANGED <<output, active, timer, timeout, queued, device, pc, space, left, oops>>

-----------------------------------------------------------------------------
(* shortp_interrupt and shortp_timeout                                     *)

(* Without output the interrupt is not ours.                               *)
QueueWork == queued' = (queued \/ active)

Interrupt ==
    /\ irq
    /\ irq' = FALSE
    /\ QueueWork
    /\ UNCHANGED <<output, active, timer, timeout, work, printer, pc, space, left, oops>>

TimerFires ==
    /\ timer /\ timeout = "idle"
    /\ timer' = FALSE
    /\ timeout' = "fired"
    /\ UNCHANGED <<output, active, queued, work, device, pc, space, left, oops>>

(* shortp_output_active is tested without the lock.                        *)
TimeoutTest ==
    /\ timeout = "fired"
    /\ timeout' = IF active THEN "locking" ELSE "idle"
    /\ UNCHANGED <<output, active, timer, queued, work, device, pc, space, left, oops>>

(* Mutant: a busy printer is given up.                                     *)
TimeoutGivesUp ==
    /\ timeout = "locking" /\ Lock
    /\ timeout' = "idle"
    /\ IF printer # "ready" THEN UNCHANGED queued ELSE QueueWork
    /\ UNCHANGED <<output, active, timer, work, device, pc, space, left, oops>>

(* A printer that is busy or acknowledges is given more time; otherwise an *)
(* interrupt was lost, and the handler is called in its place.             *)
TimeoutLocked ==
    /\ timeout = "locking" /\ Lock
    /\ timeout' = "idle"
    /\ \/ /\ printer # "ready"
          /\ AddTimer
          /\ UNCHANGED queued
       \/ /\ printer = "ready"
          /\ QueueWork
          /\ UNCHANGED <<timer, oops>>
    /\ UNCHANGED <<output, active, work, device, pc, space, left>>

(* The printer takes its byte, pulses ACK, which interrupts if interrupts  *)
(* are not missed, and is ready for the next.                              *)
PrinterAcks ==
    /\ printer = "busy"
    /\ printer' = "acking"
    /\ irq' \in {irq, TRUE}
    /\ UNCHANGED <<output, engine, pc, space, left, oops>>

PrinterReady ==
    /\ printer = "acking"
    /\ printer' = "ready"
    /\ UNCHANGED <<output, engine, irq, pc, space, left, oops>>

-----------------------------------------------------------------------------
WriteSteps(p) ==
    CompareHeadTail(p) \/ ComputeSpace(p) \/ PrepareToWait(p) \/ WriteCopy(p) \/ WriteStart(p)
Signals(p) ==
    \/ WriteDownInterrupted(p) \/ WriteInterrupted(p) \/ WriteFault(p)
    \/ ReleaseInterrupted(p)

Engine ==
    \/ WorkStart \/ WorkLocked \/ WorkRecord
    \/ Interrupt \/ TimerFires \/ TimeoutTest \/ TimeoutLocked
    \/ PrinterAcks \/ PrinterReady

Process(p) ==
    \/ Open(p) \/ Release(p) \/ ReleaseTest(p)
    \/ \E n \in 1 .. MaxCount : Write(p, n)
    \/ WriteDown(p) \/ WriteSteps(p) \/ Signals(p)

Next == Engine \/ \E p \in Proc : Process(p)

(* The printer prints in the end, the machine runs what is runnable, and   *)
(* the semaphore is handed to waiters in turn.  Interrupts may be missed.  *)
Fairness ==
    /\ WF_vars(WorkStart) /\ WF_vars(WorkLocked) /\ WF_vars(WorkRecord)
    /\ WF_vars(Interrupt) /\ WF_vars(TimerFires)
    /\ WF_vars(TimeoutTest) /\ WF_vars(TimeoutLocked)
    /\ WF_vars(PrinterAcks) /\ WF_vars(PrinterReady)
    /\ \A p \in Proc :
        /\ WF_vars(WriteSteps(p)) /\ SF_vars(WriteDown(p))
        /\ WF_vars(ReleaseTest(p))

Spec == Init /\ [][Next]_vars
FairSpec == Spec /\ Fairness

-----------------------------------------------------------------------------
InLine == (out_head - out_tail + PAGE_SIZE) % PAGE_SIZE
Line == [i \in 1 .. InLine |-> cell[(out_tail + i - 1) % PAGE_SIZE]]

(* The ring and the port implement a queue to the printer: every byte a    *)
(* write has put in line is strobed out once and in order.                 *)
Queue == INSTANCE PrintQueue WITH queue <- Line

IsPrintQueue == Queue!Spec

(* From down to up a write has the semaphore, and only then: the bytes of  *)
(* two writes are not mixed, and every way out gives the semaphore back.   *)
Writing == {"w_space", "w_behind", "w_ahead", "w_wait", "w_queued", "w_qbehind", "w_qahead", "w_asleep",
            "w_copy", "w_start"}
SemaphoreDiscipline == \A p \in Proc : out_sem = p <=> pc[p] \in Writing

(* A chunk about to be copied is not empty, lies inside the page and never *)
(* lets the head catch up with the tail, although the tail moves meanwhile. *)
CopyFits ==
    \A p \in Proc : pc[p] = "w_copy" =>
        /\ Chunk(p) > 0
        /\ out_head + Chunk(p) <= PAGE_SIZE
        /\ InLine + Chunk(p) < PAGE_SIZE

(* The page is a ring with one writer at a time and no overrun.            *)
RingIsSound == TypeOK /\ SemaphoreDiscipline /\ CopyFits

(* Bytes in line have something that moves them on: a writer about to      *)
(* start output, or an active output with work or a timer to come.         *)
NeverStalls ==
    /\ out_head # out_tail => active \/ \E p \in Proc : pc[p] = "w_start"
    /\ active => queued \/ work = "waiting" \/ timer \/ timeout # "idle"

(* A close that no signal ended comes back when every byte of the process  *)
(* has gone to the printer.                                                *)
ClosedIsPrinted ==
    [][\A p \in Proc : pc[p] \in {"x_test", "x_queued"} /\ pc'[p] = "closed" /\ ~active
           => p \notin {cell[(out_tail + i - 1) % PAGE_SIZE] : i \in 1 .. InLine}]_vars

(* While bytes are in line the thread goes on strobing, although           *)
(* interrupts may be missed; the BUG_ON() apart.                           *)
EverythingIsPrinted == []<>(out_head = out_tail \/ work = "record" \/ oops)

(* A writer that sleeps while bytes are in line is woken, and so is a      *)
(* process that sleeps in its close.                                       *)
SleepersAreWoken ==
    \A p \in Proc :
        /\ (pc[p] = "w_asleep" /\ out_head # out_tail) ~> (pc[p] # "w_asleep" \/ oops)
        /\ (pc[p] = "x_asleep" /\ ~active) ~> (pc[p] # "x_asleep" \/ oops)

(* shortprint.c:97-98: "The wait queue will be awakened when space becomes *)
(* available in the buffer."                                               *)
WaitsForSpace == \A p \in Proc : (pc[p] = "w_asleep") ~> (pc[p] # "w_asleep" \/ oops)
=============================================================================
