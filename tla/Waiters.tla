------------------------------- MODULE Waiters -------------------------------
(***************************************************************************)
(* The sample modules of misc-modules that put a reader to sleep:          *)
(* sleepy.c, complete.c, jiq.c and jit.c, and the two that do not, seq.c   *)
(* and faulty.c.  A behaviour is about one module; the files of jiq.c      *)
(* share one structure, a call of jit.c has one of its own.                *)
(***************************************************************************)
EXTENDS Naturals, FiniteSets

CONSTANTS
    Task, NoTask,
    Limit,              \* lines after which jiq_print() prints no more
    JIT_ASYNC_LOOPS,    \* 5 in the code
    MaxWrites           \* bound on the writes to sleepy and complete

ASSUME WaitersAssumption ==
    /\ NoTask \notin Task
    /\ Limit \in Nat /\ JIT_ASYNC_LOOPS \in Nat \ {0} /\ MaxWrites \in Nat

WorkFiles == {"jiqwq", "jiqwqdelay"}
JiqFiles == WorkFiles \cup {"jiqtimer", "jiqtasklet"}
JitFiles == {"jitimer", "jitasklet"}
Timed   == {"jitqueue", "jitschedto"}      \* sleeps that a timeout ends
Prompt  == {"jitbusy", "currentime", "seq", "faulty"}   \* no sleep
Modules == {{"sleepy"}, {"complete"}, JiqFiles, JitFiles \cup Timed \cup Prompt}

VARIABLES
    procs,          \* the files of the module this behaviour is about
    file, wpc,      \* per process: the file being read, and where
    wqueue,         \* processes on the wait queue of their file
    flag, done,     \* of sleepy.c and of the completion
    writes, waker,  \* writes so far; writers between their store and their wake-up
    ends,           \* reads of the completion that came to an end
    len, seq, var,  \* of jiq_data, len in lines; and the variable of the timer file
    pending,        \* those of "work", "timer" and "tasklet" that are scheduled
    active,         \* "timer" while jiq_timeout() runs, else "none"
    twice,          \* the timer was set up while it was pending
    loops, out,     \* per jit call: loops left, lines its handler printed
    jpc,            \* per jit call: its timer or tasklet: "off", "armed", "printed", "wake"
    short           \* a jit read that was not interrupted returned too few lines

reads == <<file, wpc, wqueue>>
wakes == <<flag, done, writes, waker, ends>>
jiq   == <<len, seq, var, pending, active, twice>>
jit   == <<loops, out, jpc, short>>
wvars == <<procs, reads, wakes, jiq, jit>>

WaitersTypeOK ==
    /\ procs \in Modules
    /\ file \in [Task -> procs \cup {"none"}] /\ wqueue \subseteq Task
    /\ wpc \in [Task -> {"idle", "setup", "print", "start", "test", "enqueue", "recheck",
                         "asleep", "woken", "after", "sync"}]
    /\ flag \in BOOLEAN /\ done \in 0 .. MaxWrites /\ writes \in 0 .. MaxWrites
    /\ waker \in 0 .. MaxWrites /\ ends \in 0 .. MaxWrites
    /\ len \in 0 .. Limit + 1 /\ seq \in Task \cup {NoTask} /\ var \in BOOLEAN
    /\ pending \subseteq {"work", "timer", "tasklet"} /\ active \in {"none", "timer"}
    /\ twice \in BOOLEAN
    /\ loops \in [Task -> 0 .. JIT_ASYNC_LOOPS] /\ out \in [Task -> 0 .. JIT_ASYNC_LOOPS]
    /\ jpc \in [Task -> {"off", "armed", "printed", "wake"}] /\ short \in BOOLEAN

WaitersInit ==
    /\ procs \in Modules
    /\ file = [p \in Task |-> "none"] /\ wpc = [p \in Task |-> "idle"] /\ wqueue = {}
    /\ flag = FALSE /\ done = 0 /\ writes = 0 /\ waker = 0 /\ ends = 0
    /\ len = 0 /\ seq = NoTask /\ var = FALSE /\ pending = {} /\ active = "none" /\ twice = FALSE
    /\ loops = [p \in Task |-> 0] /\ out = [p \in Task |-> 0]
    /\ jpc = [p \in Task |-> "off"] /\ short = FALSE
-----------------------------------------------------------------------------
(* wait_event_interruptible() and its relatives: test, join the queue,     *)
(* test again, sleep.                                                      *)
WGoes(p, from, to) == wpc[p] = from /\ wpc' = [wpc EXCEPT ![p] = to]

Holds(p) == CASE file[p] = "sleepy"    -> flag
              [] file[p] = "complete"  -> done > 0
              [] file[p] = "jiqtimer"  -> var
              [] file[p] \in JitFiles  -> loops[p] = 0
              [] OTHER                 -> FALSE

(* How the sleep of the file can end but by its condition: the completion  *)
(* takes no signals, and schedule() alone returns on any wake-up.          *)
Interruptible(p) == file[p] # "complete"

Test(p)    == /\ WGoes(p, "test", IF Holds(p) THEN "after" ELSE "enqueue")
              /\ UNCHANGED <<procs, file, wqueue, wakes, jiq, jit>>
Enqueue(p) == /\ WGoes(p, "enqueue", "recheck") /\ wqueue' = wqueue \cup {p}
              /\ UNCHANGED <<procs, file, wakes, jiq, jit>>

(* Mutant: the condition is not tested again.                              *)
RecheckNever(p) == /\ WGoes(p, "recheck", "asleep")
                   /\ UNCHANGED <<procs, file, wqueue, wakes, jiq, jit>>

WRecheck(p) ==
              /\ WGoes(p, "recheck", IF Holds(p) THEN "after" ELSE "asleep")
              /\ wqueue' = IF Holds(p) THEN wqueue \ {p} ELSE wqueue
              /\ UNCHANGED <<procs, file, wakes, jiq, jit>>
Awake(p)   == /\ wpc[p] = "asleep" /\ p \notin wqueue
              /\ wpc' = [wpc EXCEPT ![p] = IF file[p] \in WorkFiles THEN "after" ELSE "enqueue"]
              /\ UNCHANGED <<procs, file, wqueue, wakes, jiq, jit>>
WSignal(p) == /\ wpc[p] \in {"recheck", "asleep"} /\ Interruptible(p)
              /\ wpc' = [wpc EXCEPT ![p] = "after"] /\ wqueue' = wqueue \ {p}
              /\ UNCHANGED <<procs, file, wakes, jiq, jit>>

(* wait_for_completion() decides under the lock of the queue, and takes    *)
(* one from the count.                                                     *)
Take(p)    == /\ wpc[p] \in {"test", "asleep"} /\ done > 0
              /\ done' = done - 1 /\ wpc' = [wpc EXCEPT ![p] = "after"]
              /\ UNCHANGED <<procs, file, wqueue, flag, writes, waker, ends, jiq, jit>>
Sleep(p)   == /\ WGoes(p, "test", "asleep") /\ done = 0
              /\ UNCHANGED <<procs, file, wqueue, wakes, jiq, jit>>

WaitEvent(p) == Test(p) \/ Enqueue(p) \/ WRecheck(p) \/ Awake(p) \/ WSignal(p)

(* A call begins, and returns.                                             *)
Call(p, f, to) == /\ f \in procs /\ wpc[p] = "idle"
                  /\ file' = [file EXCEPT ![p] = f] /\ wpc' = [wpc EXCEPT ![p] = to]
                  /\ UNCHANGED wqueue
WReturn(p, from) == /\ wpc[p] = from
                    /\ file' = [file EXCEPT ![p] = "none"] /\ wpc' = [wpc EXCEPT ![p] = "idle"]
                    /\ UNCHANGED wqueue
-----------------------------------------------------------------------------
(* sleepy.c: whoever gets past the wait clears the flag, a signal included *)
sleepy_read(p) ==
    \/ Call(p, "sleepy", "test") /\ UNCHANGED <<procs, wakes, jiq, jit>>
    \/ /\ file[p] = "sleepy"
       /\ \/ WaitEvent(p)
          \/ /\ WReturn(p, "after") /\ flag' = FALSE
             /\ UNCHANGED <<procs, done, writes, waker, ends, jiq, jit>>

sleepy_write ==
    \/ /\ procs = {"sleepy"} /\ writes < MaxWrites
       /\ flag' = TRUE /\ writes' = writes + 1 /\ waker' = waker + 1
       /\ UNCHANGED <<procs, reads, done, ends, jiq, jit>>
    \/ /\ waker > 0 /\ waker' = waker - 1 /\ wqueue' = {}
       /\ UNCHANGED <<procs, file, wpc, flag, done, writes, ends, jiq, jit>>

(* complete.c: each write lets one read come to its end.                   *)
complete_read(p) ==
    \/ Call(p, "complete", "test") /\ UNCHANGED <<procs, wakes, jiq, jit>>
    \/ /\ file[p] = "complete"
       /\ \/ Take(p) \/ Sleep(p)
          \/ /\ WReturn(p, "after") /\ ends' = ends + 1
             /\ UNCHANGED <<procs, flag, done, writes, waker, jiq, jit>>

(* Mutant: a completion that is a flag.                                    *)
CompleteOnce ==
    /\ procs = {"complete"} /\ writes < MaxWrites
    /\ done' = 1 /\ writes' = writes + 1
    /\ UNCHANGED <<procs, reads, flag, waker, ends, jiq, jit>>

complete_write ==
    /\ procs = {"complete"} /\ writes < MaxWrites
    /\ done' = done + 1 /\ writes' = writes + 1
    /\ UNCHANGED <<procs, reads, flag, waker, ends, jiq, jit>>
-----------------------------------------------------------------------------
(* jiq.c.  A line is printed wherever jiq_data.seq points to, unless the   *)
(* limit is reached.                                                       *)
jiq_print == len' = IF len > Limit THEN len ELSE len + 1

jiq_print_wq ==
    /\ "work" \in pending /\ jiq_print
    /\ pending' = IF len > Limit THEN pending \ {"work"} ELSE pending
    /\ UNCHANGED <<procs, reads, wakes, seq, var, active, twice, jit>>

jiq_print_tasklet ==
    /\ "tasklet" \in pending /\ jiq_print
    /\ pending' = IF len > Limit THEN pending \ {"tasklet"} ELSE pending
    /\ UNCHANGED <<procs, reads, wakes, seq, var, active, twice, jit>>

(* The timer runs: it is no longer pending while its function does.        *)
jiq_timeout ==
    \/ /\ "timer" \in pending /\ active = "none" /\ jiq_print
       /\ pending' = pending \ {"timer"} /\ active' = "timer" /\ var' = TRUE
       /\ UNCHANGED <<procs, reads, wakes, seq, twice, jit>>
    \/ /\ active = "timer" /\ active' = "none"
       /\ wqueue' = {q \in wqueue : file[q] \notin JiqFiles}
       /\ UNCHANGED <<procs, file, wpc, wakes, len, seq, var, pending, twice, jit>>

JiqCall(p, f, to) == /\ Call(p, f, to) /\ len' = 0 /\ seq' = p
                     /\ UNCHANGED <<procs, wakes, var, pending, active, twice, jit>>
JiqReturn(p, from) == /\ WReturn(p, from) /\ seq' = IF seq = p THEN NoTask ELSE seq
                      /\ UNCHANGED <<procs, wakes, len, pending, active, twice, jit>>

(* The reader joins the queue before it schedules the work.                *)
ReadWq(p, f) ==
    \/ JiqCall(p, f, "setup")
    \/ /\ file[p] = f
       /\ \/ /\ WGoes(p, "setup", "start") /\ wqueue' = wqueue \cup {p}
             /\ UNCHANGED <<procs, file, wakes, jiq, jit>>
          \/ /\ WGoes(p, "start", "asleep") /\ pending' = pending \cup {"work"}
             /\ UNCHANGED <<procs, file, wqueue, wakes, len, seq, var, active, twice, jit>>
          \/ Awake(p) \/ WSignal(p)
          \/ JiqReturn(p, "after") /\ UNCHANGED var

jiq_read_wq(p)         == ReadWq(p, "jiqwq")
jiq_read_wq_delayed(p) == ReadWq(p, "jiqwqdelay")

(* Mutant: del_timer(), which does not wait for the function to end.       *)
DeleteTimer(p) ==
    /\ WGoes(p, "sync", "woken") /\ pending' = pending \ {"timer"}
    /\ UNCHANGED <<procs, file, wqueue, wakes, len, seq, var, active, twice, jit>>

(* del_timer_sync() waits for a running function.                          *)
DeleteTimerSync(p) ==
    /\ WGoes(p, "sync", "woken") /\ active = "none" /\ pending' = pending \ {"timer"}
    /\ UNCHANGED <<procs, file, wqueue, wakes, len, seq, var, active, twice, jit>>

(* A second reader sets up and adds the one timer again, which leaves a    *)
(* pending one linked where it was.                                        *)
jiq_read_run_timer(p) ==
    \/ JiqCall(p, "jiqtimer", "print")
    \/ /\ file[p] = "jiqtimer"
       /\ \/ /\ WGoes(p, "print", "start") /\ jiq_print
             /\ twice' = (twice \/ "timer" \in pending)
             /\ UNCHANGED <<procs, file, wqueue, wakes, seq, var, pending, active, jit>>
          \/ /\ WGoes(p, "start", "test") /\ pending' = pending \cup {"timer"}
             /\ UNCHANGED <<procs, file, wqueue, wakes, len, seq, var, active, twice, jit>>
          \/ WaitEvent(p)
          \/ /\ WGoes(p, "after", "sync") /\ var' = FALSE
             /\ UNCHANGED <<procs, file, wqueue, wakes, len, seq, pending, active, twice, jit>>
          \/ DeleteTimerSync(p)
          \/ JiqReturn(p, "woken") /\ UNCHANGED var

(* Nothing ever sets var_2: only a signal ends the wait.                   *)
jiq_read_tasklet(p) ==
    \/ JiqCall(p, "jiqtasklet", "start")
    \/ /\ file[p] = "jiqtasklet"
       /\ \/ /\ WGoes(p, "start", "test") /\ pending' = pending \cup {"tasklet"}
             /\ UNCHANGED <<procs, file, wqueue, wakes, len, seq, var, active, twice, jit>>
          \/ WaitEvent(p)
          \/ JiqReturn(p, "after") /\ UNCHANGED var
-----------------------------------------------------------------------------
(* jit.c: a structure for each call, never freed: the timer or tasklet of  *)
(* a call that a signal ended goes on.  A process makes its next call once *)
(* that is over.                                                           *)
PrintLine(p) == /\ jpc[p] = "armed" /\ jpc' = [jpc EXCEPT ![p] = "printed"]
                /\ out' = [out EXCEPT ![p] = @ + 1] /\ UNCHANGED <<wqueue, loops>>

Count(p, to) == /\ loops' = [loops EXCEPT ![p] = @ - 1]
                /\ jpc' = [jpc EXCEPT ![p] = to] /\ UNCHANGED <<wqueue, out>>
WakeCaller(p) == /\ jpc[p] = "wake" /\ jpc' = [jpc EXCEPT ![p] = "off"]
                 /\ wqueue' = wqueue \ {p} /\ UNCHANGED <<loops, out>>

(* Mutant: the last loop is counted off before its line is printed.        *)
CountFirst(p) ==
    \/ jpc[p] = "armed" /\ Count(p, "printed")
    \/ /\ jpc[p] = "printed" /\ out' = [out EXCEPT ![p] = @ + 1]
       /\ jpc' = [jpc EXCEPT ![p] = IF loops[p] > 0 THEN "armed" ELSE "wake"]
       /\ UNCHANGED <<wqueue, loops>>
    \/ WakeCaller(p)

PrintAndCount(p) ==
    \/ PrintLine(p)
    \/ jpc[p] = "printed" /\ Count(p, IF loops[p] > 1 THEN "armed" ELSE "wake")
    \/ WakeCaller(p)

jit_timer_fn(p) ==
    PrintAndCount(p) /\ UNCHANGED <<procs, file, wpc, wakes, jiq, short>>
jit_tasklet_fn(p) == jit_timer_fn(p)

ReadAsync(p, f) ==
    \/ /\ jpc[p] = "off" /\ Call(p, f, "test")
       /\ loops' = [loops EXCEPT ![p] = JIT_ASYNC_LOOPS] /\ out' = [out EXCEPT ![p] = 0]
       /\ jpc' = [jpc EXCEPT ![p] = "armed"]
       /\ UNCHANGED <<procs, wakes, jiq, short>>
    \/ /\ file[p] = f
       /\ \/ WaitEvent(p)
          \/ \E interrupted \in BOOLEAN :     \* signal_pending()
                /\ WReturn(p, "after") /\ (loops[p] > 0 => interrupted)
                /\ short' = (short \/ (~interrupted /\ out[p] < JIT_ASYNC_LOOPS))
                /\ UNCHANGED <<procs, wakes, jiq, loops, out, jpc>>

jit_timer(p)   == ReadAsync(p, "jitimer")
jit_tasklet(p) == ReadAsync(p, "jitasklet")

(* The four delays: two that sleep until a timeout or a signal, two that   *)
(* run until their time is over.                                           *)
jit_fn(p) ==
    /\ \/ \E f \in Timed : Call(p, f, "asleep")
       \/ Call(p, "jitbusy", "after")
       \/ file[p] \in Timed /\ WReturn(p, "asleep")
       \/ file[p] = "jitbusy" /\ WReturn(p, "after")
    /\ UNCHANGED <<procs, wakes, jiq, jit>>

PromptRead(p, f) == /\ Call(p, f, "after") \/ (file[p] = f /\ WReturn(p, "after"))
                    /\ UNCHANGED <<procs, wakes, jiq, jit>>
jit_currentime(p) == PromptRead(p, "currentime")
my_seq_show(p)    == PromptRead(p, "seq")      \* a line for every read, without end
faulty_read(p)    == PromptRead(p, "faulty")   \* four bytes, from an array overrun
-----------------------------------------------------------------------------
WaitersNext ==
    \/ \E p \in Task :
         \/ sleepy_read(p) \/ complete_read(p)
         \/ jiq_read_wq(p) \/ jiq_read_wq_delayed(p) \/ jiq_read_run_timer(p)
         \/ jiq_read_tasklet(p)
         \/ jit_timer(p) \/ jit_tasklet(p) \/ jit_fn(p) \/ jit_timer_fn(p)
         \/ jit_currentime(p) \/ my_seq_show(p) \/ faulty_read(p)
    \/ sleepy_write \/ complete_write
    \/ jiq_print_wq \/ jiq_print_tasklet \/ jiq_timeout

WaitersSpec == WaitersInit /\ [][WaitersNext]_wvars
-----------------------------------------------------------------------------
(* A reader asleep on its queue whose condition holds is about to be woken *)
(* by the writer, the timer or the tasklet that made it hold.              *)
WhoWaitsIsWoken ==
    \A p \in wqueue : (wpc[p] = "asleep" /\ Holds(p)) =>
        CASE file[p] = "sleepy"   -> waker > 0
          [] file[p] = "jiqtimer" -> active = "timer"
          [] OTHER                -> jpc[p] = "wake"

(* As many reads of the completion end as were let go by a write, however  *)
(* the writes and the reads overlap; but for those on their way out.       *)
CompletionsAreCounted ==
    procs = {"complete"} =>
        writes = done + ends + Cardinality({p \in Task : wpc[p] = "after"})

(* The timer of jiq neither waits nor runs when no read of its file is     *)
(* under way, though one read deletes the timer another one added; unless  *)
(* it was set up while it was pending, which no lock prevents.             *)
TimerHasAReader ==
    (~twice /\ ("timer" \in pending \/ active = "timer")) =>
        \E p \in Task : file[p] = "jiqtimer" /\ wpc[p] # "woken"

(* A read of a jit file that no signal ended has all its lines.            *)
AllLinesArePrinted == ~short

(* Every wait ends with what it was for: each sleeper has a waker, each    *)
(* waker a reader, and a read that was not cut short its whole output.     *)
WaitsEnd ==
    /\ WaitersTypeOK
    /\ WhoWaitsIsWoken /\ CompletionsAreCounted /\ TimerHasAReader /\ AllLinesArePrinted
=============================================================================
