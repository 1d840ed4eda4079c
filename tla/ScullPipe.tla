------------------------------ MODULE ScullPipe ------------------------------
(***************************************************************************)
(* scull/pipe.c: the blocking fifo device scullpipe.                       *)
(*                                                                         *)
(* One scull_pipe and the open files on it, each driven by a process of    *)
(* its own.  A process moves through its system call in the steps between  *)
(* which others can run: everything done in one hold of dev->sem is one    *)
(* step, except that rp and wp are advanced and then wrapped in two        *)
(* stores, because the conditions of the two wait loops read them without  *)
(* the semaphore.  rp and wp are offsets from dev->buffer.                 *)
(***************************************************************************)
EXTENDS Integers, Sequences, FiniteSets

CONSTANTS
    File,       \* the files (struct file) a process can open on the device
    Byte,       \* the values of a byte written by a program
    Junk,       \* the value of a byte nobody wrote
    NoFile,     \* "no one holds the semaphore"
    MaxSize,    \* bound: no buffer is larger
    Sizes,      \* the sizes scull_p_buffer takes (SCULL_P_IOCTSIZE)
    Messages,   \* what programs write in one call
    MaxCount,   \* bound on the count of a read or a write
    MaxLag      \* bound on how far nwriters sinks below zero

ASSUME PipeAssumption ==
    /\ MaxSize \in Nat \ {0} /\ MaxCount \in Nat \ {0} /\ MaxLag \in Nat
    /\ Sizes \subseteq 1 .. MaxSize
    /\ Messages \subseteq Seq(Byte)
    /\ \A s \in Messages : Len(s) \in 1 .. MaxCount
    /\ IsFiniteSet(File)
    /\ NoFile \notin File
    /\ Junk \notin Byte

VARIABLES
    scull_p_buffer,     \* the size the next open gives the buffer
    buffer,             \* bytes kmalloc'ed for dev->buffer, 0 when it is NULL
    buffersize,         \* dev->buffersize, which is also dev->end - dev->buffer
    rp, wp,             \* dev->rp, dev->wp
    cell,               \* the memory from dev->buffer on
    nreaders, nwriters,
    sem,                \* the file whose process holds dev->sem
    inq, outq,          \* processes queued, and not woken, on dev->inq, dev->outq
    async_queue,        \* files on dev->async_queue
    pc,                 \* where each file's process is
    f_mode,             \* filp->f_mode
    count,              \* the count of the call under way
    ubuf,               \* the caller's buffer of the call under way
    pending             \* processes with a signal pending

device  == <<scull_p_buffer, buffer, buffersize, rp, wp, cell, nreaders, nwriters>>
waiting == <<inq, outq, async_queue, pending>>
call    == <<f_mode, count, ubuf>>
vars    == <<device, sem, waiting, pc, call>>

Data == Byte \cup {Junk}
Location == {"closed", "idle",
             "r_down", "r_queue", "r_test", "r_sleep", "r_copy", "r_wrap", "r_wake",
             "w_down", "w_queue", "w_test", "w_sleep", "w_finish", "w_copy", "w_wrap", "w_wake",
             "p_down", "p_sleep", "c_down", "oops"}
Holding == {"r_copy", "r_wrap", "w_copy", "w_wrap", "oops"}     \* dev->sem is held here

(* What the kernel leaves in f_mode.  FMODE_WRITER is set by               *)
(* do_dentry_open() on regular files only, never on a device.              *)
Modes == {{"FMODE_READ"}, {"FMODE_WRITE"}, {"FMODE_READ", "FMODE_WRITE"}}

TypeOK ==
    /\ scull_p_buffer \in Sizes
    /\ buffer \in {0} \cup Sizes
    /\ buffersize \in {0} \cup Sizes
    /\ rp \in 0 .. MaxSize /\ wp \in 0 .. MaxSize
    /\ cell \in [0 .. MaxSize - 1 -> Data]
    /\ nreaders \in Int /\ nwriters \in Int
    /\ sem \in File \cup {NoFile}
    /\ inq \subseteq File /\ outq \subseteq File
    /\ async_queue \subseteq File /\ pending \subseteq File
    /\ pc \in [File -> Location]
    /\ f_mode \in [File -> Modes \cup {{}}]
    /\ count \in [File -> 0 .. MaxCount]
    /\ ubuf \in [File -> Seq(Data)]

Init ==
    /\ scull_p_buffer \in Sizes
    /\ buffer = 0 /\ buffersize = 0 /\ rp = 0 /\ wp = 0
    /\ cell = [i \in 0 .. MaxSize - 1 |-> Junk]
    /\ nreaders = 0 /\ nwriters = 0
    /\ sem = NoFile
    /\ inq = {} /\ outq = {} /\ async_queue = {} /\ pending = {}
    /\ pc = [f \in File |-> "closed"]
    /\ f_mode = [f \in File |-> {}]
    /\ count = [f \in File |-> 0]
    /\ ubuf = [f \in File |-> <<>>]

-----------------------------------------------------------------------------
(* Control.                                                                *)

GoTo(f, l) == pc' = [pc EXCEPT ![f] = l]

(* The call of f ends: its buffer is the caller's again and a pending      *)
(* signal is delivered on the way to user mode.                            *)
Return(f, woken) ==
    /\ GoTo(f, "idle")
    /\ count' = [count EXCEPT ![f] = 0]
    /\ ubuf' = [ubuf EXCEPT ![f] = <<>>]
    /\ pending' = (pending \cup woken) \ {f}
    /\ UNCHANGED f_mode

(* down_interruptible() fails only for a process that would have to wait.  *)
Interrupted(f) ==
    /\ pc[f] \in {"r_down", "w_down"}
    /\ sem # NoFile
    /\ f \in pending
    /\ Return(f, {})
    /\ UNCHANGED <<device, sem, inq, outq, async_queue>>

Least(a, b) == IF a < b THEN a ELSE b

(* Mutant of spacefree: the byte that tells full from empty is given away. *)
spacefreeAll ==
    IF rp = wp THEN buffersize
    ELSE (rp + buffersize - wp) % buffersize

(* Bytes a write may add; the pointers are only ever equal when empty.     *)
spacefree ==
    IF rp = wp THEN buffersize - 1
    ELSE ((rp + buffersize - wp) % buffersize) - 1

(* A pointer at the end goes back to dev->buffer.  When that is NULL (the  *)
(* buffer was freed under an open file) the next access through it kills   *)
(* its process with the semaphore held, which the model does at the wrap.  *)
WrapsToNull(p) == p = buffersize /\ buffer = 0

Oops(f) ==
    /\ \/ pc[f] = "r_wrap" /\ WrapsToNull(rp)
       \/ pc[f] = "w_wrap" /\ WrapsToNull(wp)
    /\ GoTo(f, "oops")
    /\ UNCHANGED <<device, sem, waiting, call>>

-----------------------------------------------------------------------------
(* open and release                                                        *)

(* An open that is interrupted, or whose kmalloc fails, changes nothing.   *)
(* The new block is not cleared.                                           *)
Open(f, m) ==
    /\ pc[f] = "closed"
    /\ sem = NoFile
    /\ nwriters > -MaxLag
    /\ IF buffer = 0
       THEN /\ buffer' = scull_p_buffer
            /\ cell' = [i \in DOMAIN cell |-> Junk]
       ELSE UNCHANGED <<buffer, cell>>
    /\ buffersize' = scull_p_buffer
    /\ rp' = 0 /\ wp' = 0
    /\ nreaders' = IF "FMODE_READ" \in m THEN nreaders + 1 ELSE nreaders
    /\ nwriters' = IF "FMODE_WRITER" \in m THEN nwriters + 1 ELSE nwriters
    /\ f_mode' = [f_mode EXCEPT ![f] = m]
    /\ GoTo(f, "idle")
    /\ UNCHANGED <<scull_p_buffer, sem, waiting, count, ubuf>>

(* scull_p_release() first leaves async_queue, ...                         *)
Close(f) ==
    /\ pc[f] = "idle"
    /\ async_queue' = async_queue \ {f}
    /\ GoTo(f, "c_down")
    /\ UNCHANGED <<device, sem, inq, outq, pending, call>>

(* ... then, once it has the semaphore, counts and frees.                  *)
Release(f) ==
    /\ pc[f] = "c_down"
    /\ sem = NoFile
    /\ nreaders' = IF "FMODE_READ" \in f_mode[f] THEN nreaders - 1 ELSE nreaders
    /\ nwriters' = IF "FMODE_WRITE" \in f_mode[f] THEN nwriters - 1 ELSE nwriters
    /\ buffer' = IF nreaders' + nwriters' = 0 THEN 0 ELSE buffer
    /\ f_mode' = [f_mode EXCEPT ![f] = {}]
    /\ GoTo(f, "closed")
    /\ pending' = pending \ {f}
    /\ UNCHANGED <<scull_p_buffer, buffersize, rp, wp, cell, sem, inq, outq, async_queue, count, ubuf>>

-----------------------------------------------------------------------------
(* scull_p_read                                                            *)

Read(f, n) ==
    /\ pc[f] = "idle" /\ "FMODE_READ" \in f_mode[f]
    /\ count' = [count EXCEPT ![f] = n]
    /\ GoTo(f, "r_down")
    /\ UNCHANGED <<device, sem, waiting, f_mode, ubuf>>

(* The loop's test.  Whether O_NONBLOCK is set is the caller's affair      *)
(* (fcntl changes it at any time).                                         *)
ReadDown(f) ==
    /\ pc[f] = "r_down"
    /\ sem = NoFile
    /\ \/ /\ rp # wp
          /\ sem' = f
          /\ GoTo(f, "r_copy")
          /\ UNCHANGED <<pending, call>>
       \/ /\ rp = wp            \* up, O_NONBLOCK: -EAGAIN
          /\ UNCHANGED sem
          /\ Return(f, {})
       \/ /\ rp = wp            \* up, and sleep
          /\ UNCHANGED sem
          /\ GoTo(f, "r_queue")
          /\ UNCHANGED <<pending, call>>
    /\ UNCHANGED <<device, inq, outq, async_queue>>

(* Mutant of ReadQueue: the condition is not tested again once queued.     *)
ReadQueueOnly(f) ==
    /\ pc[f] = "r_queue"
    /\ inq' = inq \cup {f}
    /\ GoTo(f, "r_sleep")
    /\ UNCHANGED <<device, sem, outq, async_queue, pending, call>>

(* wait_event_interruptible(dev->inq, dev->rp != dev->wp): queue, test,    *)
(* sleep, and from the start again when woken.                             *)
ReadQueue(f) ==
    /\ pc[f] = "r_queue"
    /\ inq' = inq \cup {f}
    /\ GoTo(f, "r_test")
    /\ UNCHANGED <<device, sem, outq, async_queue, pending, call>>

ReadTest(f) ==
    /\ pc[f] = "r_test"
    /\ \/ /\ rp # wp
          /\ inq' = inq \ {f}
          /\ GoTo(f, "r_down")
          /\ UNCHANGED <<pending, call>>
       \/ /\ rp = wp /\ f \in pending       \* -ERESTARTSYS
          /\ inq' = inq \ {f}
          /\ Return(f, {})
       \/ /\ rp = wp /\ f \notin pending
          /\ GoTo(f, "r_sleep")
          /\ UNCHANGED <<inq, pending, call>>
    /\ UNCHANGED <<device, sem, outq, async_queue>>

ReadSleep(f) ==
    /\ pc[f] = "r_sleep"
    /\ f \notin inq \/ f \in pending
    /\ GoTo(f, "r_queue")
    /\ UNCHANGED <<device, sem, waiting, call>>

Readable == IF wp > rp THEN wp - rp ELSE buffersize - rp

ReadCopy(f) ==
    /\ pc[f] = "r_copy"
    /\ LET n == Least(count[f], Readable) IN
       /\ count' = [count EXCEPT ![f] = n]
       /\ ubuf' = [ubuf EXCEPT ![f] = [i \in 1 .. n |-> cell[rp + i - 1]]]
       /\ rp' = rp + n
    /\ GoTo(f, "r_wrap")
    /\ UNCHANGED <<scull_p_buffer, buffer, buffersize, wp, cell, nreaders, nwriters, sem, waiting, f_mode>>

ReadWrap(f) ==
    /\ pc[f] = "r_wrap"
    /\ ~WrapsToNull(rp)
    /\ rp' = IF rp = buffersize THEN 0 ELSE rp
    /\ sem' = NoFile
    /\ GoTo(f, "r_wake")
    /\ UNCHANGED <<scull_p_buffer, buffer, buffersize, wp, cell, nreaders, nwriters, waiting, call>>

(* Mutant of ReadWake: the writers are not woken.                          *)
ReadWakeNobody(f) ==
    /\ pc[f] = "r_wake"
    /\ Return(f, {})
    /\ UNCHANGED <<device, sem, inq, outq, async_queue>>

ReadWake(f) ==
    /\ pc[f] = "r_wake"
    /\ outq' = {}
    /\ Return(f, {})
    /\ UNCHANGED <<device, sem, inq, async_queue>>

-----------------------------------------------------------------------------
(* scull_p_write and scull_getwritespace                                   *)

Write(f, s) ==
    /\ pc[f] = "idle" /\ "FMODE_WRITE" \in f_mode[f]
    /\ count' = [count EXCEPT ![f] = Len(s)]
    /\ ubuf' = [ubuf EXCEPT ![f] = s]
    /\ GoTo(f, "w_down")
    /\ UNCHANGED <<device, sem, waiting, f_mode>>

WriteDown(f) ==
    /\ pc[f] = "w_down"
    /\ sem = NoFile
    /\ \/ /\ spacefree # 0
          /\ sem' = f
          /\ GoTo(f, "w_copy")
          /\ UNCHANGED <<pending, call>>
       \/ /\ spacefree = 0      \* up, O_NONBLOCK: -EAGAIN
          /\ UNCHANGED sem
          /\ Return(f, {})
       \/ /\ spacefree = 0      \* up, and sleep
          /\ UNCHANGED sem
          /\ GoTo(f, "w_queue")
          /\ UNCHANGED <<pending, call>>
    /\ UNCHANGED <<device, inq, outq, async_queue>>

WriteQueue(f) ==
    /\ pc[f] = "w_queue"
    /\ outq' = outq \cup {f}
    /\ GoTo(f, "w_test")
    /\ UNCHANGED <<device, sem, inq, async_queue, pending, call>>

WriteTest(f) ==
    /\ pc[f] = "w_test"
    /\ GoTo(f, IF spacefree = 0 THEN "w_sleep" ELSE "w_finish")
    /\ UNCHANGED <<device, sem, waiting, call>>

WriteSleep(f) ==
    /\ pc[f] = "w_sleep"
    /\ f \notin outq \/ f \in pending
    /\ GoTo(f, "w_finish")
    /\ UNCHANGED <<device, sem, waiting, call>>

(* finish_wait; a signal ends the call, otherwise the loop starts again.   *)
WriteFinish(f) ==
    /\ pc[f] = "w_finish"
    /\ outq' = outq \ {f}
    /\ \/ /\ f \in pending
          /\ Return(f, {})
       \/ /\ f \notin pending
          /\ GoTo(f, "w_down")
          /\ UNCHANGED <<pending, call>>
    /\ UNCHANGED <<device, sem, inq, async_queue>>

(* Bytes the copy accepts: no further than the end of the buffer, or than  *)
(* the byte before rp.                                                     *)
Writable ==
    Least(spacefree, IF wp >= rp THEN buffersize - wp ELSE rp - wp - 1)

Stored(f, n) ==
    [i \in DOMAIN cell |-> IF i \in wp .. wp + n - 1 THEN ubuf[f][i - wp + 1] ELSE cell[i]]

WriteCopy(f) ==
    /\ pc[f] = "w_copy"
    /\ LET n == Least(count[f], Writable) IN
       /\ count' = [count EXCEPT ![f] = n]
       /\ cell' = Stored(f, n)
       /\ wp' = wp + n
    /\ GoTo(f, "w_wrap")
    /\ UNCHANGED <<scull_p_buffer, buffer, buffersize, rp, nreaders, nwriters, sem, waiting, f_mode, ubuf>>

WriteWrap(f) ==
    /\ pc[f] = "w_wrap"
    /\ ~WrapsToNull(wp)
    /\ wp' = IF wp = buffersize THEN 0 ELSE wp
    /\ sem' = NoFile
    /\ GoTo(f, "w_wake")
    /\ UNCHANGED <<scull_p_buffer, buffer, buffersize, rp, cell, nreaders, nwriters, waiting, call>>

(* Mutant of WriteWake: SIGIO goes out, but nobody is woken.               *)
WriteWakeNobody(f) ==
    /\ pc[f] = "w_wake"
    /\ Return(f, {g \in async_queue : pc[g] # "idle"})
    /\ UNCHANGED <<device, sem, inq, outq, async_queue>>

(* Wake the readers, then SIGIO to the files of async_queue (a process in  *)
(* user mode takes it at once).                                            *)
WriteWake(f) ==
    /\ pc[f] = "w_wake"
    /\ inq' = {}
    /\ Return(f, {g \in async_queue : pc[g] # "idle"})
    /\ UNCHANGED <<device, sem, outq, async_queue>>

(* Mutant of CopyFault: -EFAULT is returned without the up().              *)
CopyFaultHolding(f) ==
    /\ pc[f] \in {"r_copy", "w_copy"}
    /\ Return(f, {})
    /\ UNCHANGED <<device, sem, inq, outq, async_queue>>

(* copy_to_user or copy_from_user fails: -EFAULT with the pointers as they *)
(* were, though a write may have stored the bytes before the bad page.     *)
CopyFault(f) ==
    /\ \/ /\ pc[f] = "r_copy"
          /\ UNCHANGED cell
       \/ /\ pc[f] = "w_copy"
          /\ \E k \in 0 .. Least(count[f], Writable) - 1 : cell' = Stored(f, k)
    /\ sem' = NoFile
    /\ Return(f, {})
    /\ UNCHANGED <<scull_p_buffer, buffer, buffersize, rp, wp, nreaders, nwriters, inq, outq, async_queue>>

-----------------------------------------------------------------------------
(* scull_p_poll, scull_p_fasync, the size ioctl                            *)

(* A program polls for what its file can do.                               *)
Ready(f) ==
    \/ "FMODE_READ" \in f_mode[f] /\ rp # wp
    \/ "FMODE_WRITE" \in f_mode[f] /\ spacefree # 0

Poll(f) ==
    /\ pc[f] = "idle"
    /\ GoTo(f, "p_down")
    /\ UNCHANGED <<device, sem, waiting, call>>

(* poll_wait on both queues and the mask, under the semaphore; the caller  *)
(* in the kernel sleeps when the mask holds nothing it asked for.          *)
PollMask(f) ==
    /\ pc[f] = "p_down"
    /\ sem = NoFile
    /\ \/ /\ Ready(f)
          /\ Return(f, {})
          /\ UNCHANGED <<inq, outq>>
       \/ /\ ~Ready(f)
          /\ inq' = inq \cup {f} /\ outq' = outq \cup {f}
          /\ GoTo(f, "p_sleep")
          /\ UNCHANGED <<pending, call>>
    /\ UNCHANGED <<device, sem, async_queue>>

PollSleep(f) ==
    /\ pc[f] = "p_sleep"
    /\ inq' = inq \ {f} /\ outq' = outq \ {f}
    /\ \/ /\ f \in pending
          /\ Return(f, {})
       \/ /\ f \notin pending /\ f \notin inq \cap outq
          /\ GoTo(f, "p_down")
          /\ UNCHANGED <<pending, call>>
    /\ UNCHANGED <<device, sem, async_queue>>

Fasync(f) ==
    /\ pc[f] = "idle"
    /\ \/ async_queue' = async_queue \cup {f}
       \/ async_queue' = async_queue \ {f}
    /\ UNCHANGED <<device, sem, inq, outq, pending, pc, call>>

(* SCULL_P_IOCTSIZE of scull_ioctl(): no lock, and no word to the pipes.   *)
SetSize(f, n) ==
    /\ pc[f] = "idle"
    /\ scull_p_buffer' = n
    /\ UNCHANGED <<buffer, buffersize, rp, wp, cell, nreaders, nwriters, sem, waiting, pc, call>>

-----------------------------------------------------------------------------
(* The environment: signals, and the owners of memory that is not the      *)
(* pipe's (all of it once the buffer is freed, the part past the block     *)
(* when buffersize exceeds it).                                            *)

Signal(f) ==
    /\ pc[f] \notin {"closed", "idle"}
    /\ pending' = pending \cup {f}
    /\ UNCHANGED <<device, sem, inq, outq, async_queue, pc, call>>

Clobber ==
    /\ cell' = [i \in DOMAIN cell |-> IF i < buffer THEN cell[i] ELSE Junk]
    /\ UNCHANGED <<scull_p_buffer, buffer, buffersize, rp, wp, nreaders, nwriters, sem, waiting, pc, call>>

-----------------------------------------------------------------------------
(* The calls a program makes on an open file, and the steps of the driver. *)

Calls(f) ==
    \/ \E n \in 1 .. MaxCount : Read(f, n)
    \/ \E s \in Messages : Write(f, s)
    \/ Poll(f)
    \/ Fasync(f)

Steps(f) ==
    \/ ReadDown(f) \/ ReadQueue(f) \/ ReadTest(f) \/ ReadSleep(f)
    \/ ReadCopy(f) \/ ReadWrap(f) \/ ReadWake(f)
    \/ WriteDown(f) \/ WriteQueue(f) \/ WriteTest(f) \/ WriteSleep(f) \/ WriteFinish(f)
    \/ WriteCopy(f) \/ WriteWrap(f) \/ WriteWake(f)
    \/ CopyFault(f) \/ Interrupted(f) \/ Oops(f)
    \/ PollMask(f) \/ PollSleep(f)
    \/ Release(f)

Opens(f) ==
    \/ \E m \in Modes : Open(f, m)
    \/ Close(f)
    \/ \E n \in Sizes : SetSize(f, n)

Next ==
    \/ \E f \in File : Calls(f) \/ Steps(f) \/ Opens(f) \/ Signal(f)
    \/ Clobber

Spec == Init /\ [][Next]_vars

(* A session: what happens between two opens.  It starts when the last of  *)
(* the opens has left the pipe empty, each file open in some mode.         *)
SessionInit ==
    /\ scull_p_buffer \in Sizes
    /\ buffer = scull_p_buffer /\ buffersize = scull_p_buffer /\ rp = 0 /\ wp = 0
    /\ cell = [i \in 0 .. MaxSize - 1 |-> Junk]
    /\ f_mode \in [File -> Modes]
    /\ nreaders = Cardinality({f \in File : "FMODE_READ" \in f_mode[f]}) /\ nwriters = 0
    /\ sem = NoFile
    /\ inq = {} /\ outq = {} /\ async_queue = {} /\ pending = {}
    /\ pc = [f \in File |-> "idle"]
    /\ count = [f \in File |-> 0]
    /\ ubuf = [f \in File |-> <<>>]

SessionNext == \E f \in File : Calls(f) \/ Steps(f) \/ Signal(f)

(* The kernel runs every process that can run.  A semaphore serves its     *)
(* waiters in turn, so one that is free again and again is had in the end. *)
(* Nobody has to make a call or send a signal.                             *)
Fairness ==
    \A f \in File :
        /\ WF_vars(Steps(f))
        /\ SF_vars(ReadDown(f)) /\ SF_vars(WriteDown(f))
        /\ SF_vars(PollMask(f)) /\ SF_vars(Release(f))

SessionSpec == SessionInit /\ [][SessionNext]_vars /\ Fairness

-----------------------------------------------------------------------------
(* What the pipe holds, oldest byte first.                                 *)

Filled == IF buffersize = 0 THEN 0 ELSE (wp - rp + buffersize) % buffersize

Contents == [i \in 1 .. Filled |-> cell[(rp + i - 1) % buffersize]]

(* The semaphore is held exactly by the process between a down and an up:  *)
(* no two processes touch the data at once, and no path out of a call,     *)
(* error paths included, leaves the semaphore behind.                      *)
SemaphoreDiscipline == \A f \in File : sem = f <=> pc[f] \in Holding

(* A copy that is about to start moves at least one byte, stays between    *)
(* dev->buffer and dev->end, and a write never makes wp catch up with rp,  *)
(* which would turn a full pipe into an empty one.                         *)
CopiesInsideBuffer ==
    \A f \in File :
        /\ pc[f] = "r_copy" =>
               LET n == Least(count[f], Readable) IN
               n \in 1 .. Filled /\ rp + n <= buffersize
        /\ pc[f] = "w_copy" =>
               LET n == Least(count[f], Writable) IN
               n >= 1 /\ wp + n <= buffersize /\ Filled + n < buffersize

(* No process sleeps for data (in read or in poll) beside a pipe that      *)
(* holds some, unless a writer is on its way to wake it: the test made     *)
(* without the semaphore never loses the wake-up.                          *)
SleepsForData(f) ==
    /\ f \in inq
    /\ \/ pc[f] = "r_sleep"
       \/ pc[f] = "p_sleep" /\ f \in outq /\ "FMODE_READ" \in f_mode[f]

NoLostWakeup ==
    (\E f \in File : SleepsForData(f)) /\ Filled > 0 =>
        \E g \in File : pc[g] \in {"w_wrap", "w_wake", "oops"}

(* The pipe implements a bounded fifo: reads return, once and in order,    *)
(* the bytes whose writes were acknowledged, except that an open empties   *)
(* it and that bytes are lost only when their memory is not the pipe's.    *)
Fifo == INSTANCE BoundedFifo WITH
            queue <- Contents, size <- buffersize, intact <- buffersize <= buffer

IsBoundedFifo == Fifo!Spec

(* In a session a reader does not sleep on while the pipe holds data, nor  *)
(* a writer while there is room.                                           *)
ReaderIsWoken ==
    \A f \in File : (pc[f] = "r_sleep" /\ Filled > 0) ~> (pc[f] # "r_sleep")

WriterIsWoken ==
    \A f \in File : (pc[f] = "w_sleep" /\ spacefree > 0) ~> (pc[f] # "w_sleep")

(* pipe.c:105 says of the freed pipe "The other field are not checked".    *)
NotCheckedOnceFreed ==
    buffer = 0 => \A f \in File : pc[f] \notin {"r_test", "r_copy", "r_wrap", "w_test", "w_copy", "w_wrap"}
=============================================================================
