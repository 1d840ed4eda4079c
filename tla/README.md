# A TLA+ verification of LinuxDriverLearn

The repository collects Linux drivers written along *Linux Device Drivers*
(LDD3): the scull family of in-memory devices, the interrupt-driven `short` and
`shortprint`, a USB skeleton, small modules about sleeping and deferred work, a
virtual bus, and SPI display drivers and camera programs for an i.MX board.
This directory holds TLA+ models of them, their TLC configurations, and proofs
checked by TLAPS.

## 1. Inventory

### The parts, their state and how they interact

| part | files | state | operations |
|---|---|---|---|
| scull, bare device | `scull/main.c`, `scull.h` | per device a list of quantum sets, `quantum`, `qset`, `size`, `sem`; globals `scull_quantum`, `scull_qset` | open (trims when write-only), read, write, llseek, ioctl, release |
| scullpipe | `scull/pipe.c` | ring `buffer..end` with `rp`, `wp`; `nreaders`, `nwriters`; queues `inq`, `outq`; `async_queue`; `sem`; the global `scull_p_buffer` | open, release, read, write, poll, fasync, the size ioctl |
| access-controlled scull | `scull/access.c` | `scull_s_available`; `scull_u_count/owner`; `scull_w_count/owner` and a wait queue; the list of private clones | four pairs of open and release; the file operations of the bare device |
| scullp, scullc, scullv, sculld | same names | the scull list with pages, a slab cache, vmalloc, or on the LDD bus; `vmas` counts mappings; AIO work items | as scull, and mmap with its fault handler, AIO |
| short | `short/short.c` | a page-sized text ring, a ring of 512 time stamps between top and bottom half, `short_wq_count`; `short_irq` while probing | port read and write, interrupt handler in four variants, tasklet, work, IRQ probing |
| shortprint | `shortprint/shortprint.c` | output ring with `shortp_out_sem`, `shortp_out_lock`, `shortp_output_active`, a timer, a work queue; input ring | write, release, read, interrupt, work, timeout |
| USB skeleton | `usb/usb-skeleton.c` | `usb_skel` with a kref; `skel_mutex`; URBs in flight and their coherent buffers | probe, open, read, write, release, disconnect |
| small modules | `misc-modules/*.c` | a flag or a completion and a wait queue; timers, tasklets, delayed work | reads and writes of /dev and /proc files |
| LDD bus, `ofdev`, `pci` | `lddbus/lddbus.c`, ... | registrations with the kernel | register, unregister, probe, remove |
| display drivers | `spi_learn/spi_device_model`, `spi_learn/spi_fbdev`, `spi_learn/spi_app_layer/spioled1.c` | the SSD1309: its D/C pin, pointer and memory; a semaphore; a frame buffer in memory | open, write, release; draw, blank, backlight, deferred update |
| drawing library | `spi_learn/spi_app_layer/oledgui`, `oledfonts` | the image in use with its size, rotation, mirroring, packing | pixels, lines, shapes, text, numbers |
| camera programs | `lcd_learn/camera` | V4L2 queues of the camera and of the PxP that share buffers; a signal thread, a worker thread; `quitflag` | the programs' main functions, the capture loop, the worker |
| the rest | `misc-progs`, `lcd_learn/lcdfb`, ... | none that is shared | test programs, generated tables, headers of others |

`scull/main.c` holds the file operations of the bare device; `access.c` reuses
them behind other opens, and `pipe.c` uses only its globals and its module
hooks.  Processes meet in the semaphore of a device, in wait queues and in the
module's globals, which ioctls change without a lock.  In short and shortprint
they meet interrupt handlers, timers and bottom halves, which cannot sleep.
The drawing library fills an image that `spioled1.c` sends to the display; the
camera programs meet two drivers in their queues and their own threads in
`quitflag`, `has_task` and `quit`.

### What is hard

* **Sleeping** (`pipe.c:130`, `pipe.c:180`, `access.c:166`, `short.c:272`,
  `shortprint.c:290`, `sleepy.c:28`, `jit.c:176`): a condition is tested without
  a lock between queueing and sleeping, while others change it in several steps.
* **Stale values** (`main.c:302`, `main.c:347`, `pipe.c:75`, `short.c:370`): sizes
  and counts are read before the semaphore, or from globals others change.
* **Opens and closes that interleave with calls** (`main.c:253`, `pipe.c:77`,
  `pipe.c:103`, `access.c:51`, `scullp/main.c:62`): they empty, reset or free
  what calls use.
* **Partial failure**: copies that fault half way, allocations that fail after a
  list has grown, loads and probes that must undo what they did
  (`scull/main.c:649`, `spifbdev.c:750`, `pxpv4l2vision.c:1165`).
* **Rings and queues** (`pipe.c:157`, `short.c:82`, `shortprint.c:117`,
  `pxpv4l2.c:800`): full and empty differ by one slot, two contexts move the two
  ends, two queues must stay in step.
* **Arithmetic at the edge** (`GUI_Paint.c:194`, `GUI_Paint.c:408`,
  `pxpv4l2.c:679`): clipping, rounding and unsigned 16-bit coordinates.

`PROJECT.json` lists the hazards line by line with the properties that cover
them, and says of the others why nothing does.

### What makes each part correct

* **Bare device**: a read returns what was last written where it reads, whatever
  the way the bytes are spread over quanta; nobody indexes outside an array or
  follows a freed pointer; every way out gives the semaphore back.
* **scullpipe**: a bounded fifo; copies stay inside the buffer; full is never
  taken for empty; no wake-up is lost, and sleepers of both sides get on.
* **Access control**: one opening, or one user, at a time; counts agree with
  openings; who sleeps in an open is woken; one clone per terminal; a trim is
  alone on the memory.
* **scullp and its copies**: a mapped page outlives no trim; `vmas` is the number
  of mappings; the semaphore comes back after every failure.
* **short**: a reader gets the log as it was written and does not sleep on text;
  no time stamp is forgotten by the bottom half; the probe finds the line that
  fired.
* **shortprint**: bytes reach the printer once and in order although interrupts
  are missed; output that started goes on; sleepers are woken; a close returns
  when the bytes are printed.
* **USB skeleton**: the structure lives exactly as long as somebody refers to
  it; an open never meets a disconnected one; every URB's buffer is freed once.
* **misc-modules**: who sleeps on what is there is about to be woken; a timer
  does not outlive its readers; a completion lets as many through as it was told.
* **Load and unload**: what is gone holds nothing; a cleanup undoes only what
  was done; a device that can be opened is ready.
* **Displays**: the panel gets commands and data under the right level of the
  D/C pin, shows what was written, and is dark when nobody has it open.
* **Drawing**: pixels share no bits and none falls outside of the image; lines,
  circles, numbers and text are what they are called.
* **Camera**: the buffers of two queues go in step, a buffer is in one place,
  Ctrl-C ends the program, nothing is used that is not held.

## 2. Modules

| module | what it is | source |
|---|---|---|
| `ScullPipe` | the pipe device and the processes on it | `scull/pipe.c`, the size ioctl of `scull/main.c` |
| `BoundedFifo` | what a pipe promises; `ScullPipe` implements it | |
| `ScullStore` | the memory of a device and the operations all devices share | `scull/main.c` |
| `ScullBare` | the bare device: its open over `ScullStore` | `scull/main.c` |
| `SparseFile` | what a device promises; `ScullBare` implements it | |
| `ScullAccess` | the four access-controlled devices over `ScullStore` | `scull/access.c` |
| `ShortPrint` | the output side of shortprint with its printer | `shortprint/shortprint.c` |
| `PrintQueue` | what it promises; `ShortPrint` implements it | |
| `SkelUsb` | the USB skeleton with hub thread, files and controller | `usb/usb-skeleton.c` |
| `ScullPages`, `ScullFamily` | the device that can be mapped, and the operations of its four drivers over it | `scullp`, `scullc`, `scullv`, `sculld` |
| `ShortRings` | the text log and the array of times, of short and of shortprint's input | `short/short.c`, `shortprint/shortprint.c` |
| `ShortPorts` | port buffers, toggled lines, the interrupt probe | `short/short.c` |
| `Waiters` | readers that sleep, and what wakes them | `misc-modules` |
| `Loading` | load, bind, unbind, unload and failure of every module | all of them |
| `Panel` | the SSD1309 and its three drivers | `spi_learn` |
| `Paint`, `Fonts` | the drawing library and where its glyphs lie | `spi_learn/spi_app_layer` |
| `Camera` | the four camera programs between two V4L2 queues | `lcd_learn/camera` |
| `ScullPipe_proofs`, `ScullBare_proofs` (with `ScullStore`), `ScullAccess_proofs`, `ShortPrint_proofs`, `ScullFamily_proofs`, `Display_proofs` (of `Panel` and `Paint`), `Camera_proofs` | theorems and proofs | |
| `Drivers_proofs` | those of `ShortRings`, `ShortPorts`, `Waiters`, `SkelUsb` and `Loading` | |
| `MC...` | instances for TLC | |

In every module a process (or an open file) has a `pc` that says where in its
system call it is.  One action stands for what no other process can see half
done; where the code reads or writes shared state without its lock, the step
ends there.  Mutants of an action sit before it, marked `Mutant`; no
specification uses them.

**ScullPipe.**  `rp`, `wp` are offsets from `dev->buffer`, `cell` the memory
there, `inq`/`outq` the processes queued on the wait queues and not yet woken,
`sem` the holder of `dev->sem`.  `scull_p_read` is `Read`, `ReadDown` (the loop's
test), `ReadQueue`/`ReadTest`/`ReadSleep` (the macro `wait_event_interruptible`),
`ReadCopy`, `ReadWrap`, `ReadWake`; `scull_p_write` with `scull_getwritespace`
likewise.  Advancing a pointer and wrapping it are two steps because the wait
conditions read the pointers without the semaphore in between.  `Open` counts
`FMODE_WRITER`, `Release` `FMODE_WRITE`, as the code does.  The buffer can thus
be freed under an open file; `Clobber` is the new owner of that memory, and a
process that follows a NULL buffer stops in `oops` with the semaphore held.

**ScullStore** keeps `data` as a sequence of items, each a sequence of quanta,
`<<>>` standing for NULL.  A read or write is `LoadQuantum`, `LoadQset` (the loads
before `down_interruptible`), `ReadFind`/`WriteFind` (the list followed, memory
allocated, which may fail) and the copy, so that a trim can be tried between any
two.  A process that divides by zero, indexes outside an array, copies past a
quantum or through a freed one stops as `wild`: what follows is undefined.
`dangling` are the processes whose quantum was freed while they copied.

**ScullAccess** follows one of the four devices per behaviour (`minor`), because
they share only the settings.  `opening` says where a process is in its open.  A
trim without the semaphore is an interval, `StartTrim` to `EndTrim`.  For
scullpriv the list of clones is kept whole, and the memory of the first one.

**ShortPrint** has four kinds of actor: processes, the interrupt, the work
queue's thread and the timer, and the printer as environment, which
acknowledges each byte and may or may not get its interrupt through.
`shortp_out_space()` is two steps (`CompareHeadTail`, `ComputeSpace`) since it
loads the tail twice without the lock.  A byte in `cell` is the process that
wrote it, cleared when it is strobed.

**SkelUsb** has the hub thread (`skel_probe`, `skel_disconnect`), processes and
the controller that ends URBs.  `dev` and `intfdata` are the references of the
interface, `private_data` that of a file, `live` and `kref` the structures and
their counts.  Error paths are included as written: `OpenFind` and `OpenData`
leave `skel_mutex` locked, and a write whose set-up fails may be `wild`.

**ScullPages** counts memory in pages and leaves contents to `ScullBare`.  A call
is `Enter`, which copies quantum and qset before the semaphore, then `Read` or
`Write` in one step under it, which may fail at each allocation and copy; the
asynchronous calls go on to `DeferOp` and `DoDeferredOp`.  `vmas++` is a load and
a store.  A trim is its test of `vmas` and its loop, two steps.  The drivers are
operators of `ScullFamily` that put these together: `scullc` trims without
looking at mappings, `sculld` looks for the end of the device itself in a read
and oopses on every page fault, `scullv` asks `vmalloc()` for less than a page,
and `aio_read` and `aio_write` of all but `scullp` end without a return value.

**ShortRings** has a top half, a bottom half and readers.  A record is two cells,
the text of a time; `unread` is what a correct reader is still owed.  The
handlers differ in whether they write text or the array of times; the bottom
half is `Start` (already off its queue), `SaveCount`, `ResetCount`, `Header`,
`Times`, `BhWake`.  A reader loads the tail and stores it in two steps.

**ShortPorts** keeps the buffers of reads and writes, the level the output lines
have at the end of a write, and the probe: toggle, wait, test, at most six turns,
handlers on several lines that may run at any time while they are installed, and
on two processors at once (`short_probing_both`).

**Waiters** has one wait of the kernel for all (`Test`, `Enqueue`, `WRecheck`,
asleep), around it the modules' own calls; timers, tasklets and work items are
members of `pending`, and `jiq_timeout` is two steps because
`del_timer_sync()` waits for it and `del_timer()` would not.

**Loading** writes each init, probe, remove and exit function as a sequence of
steps over named resources: `Must` ends the load and undoes what it names, `Opt`
goes on without, `Blind` fails unseen and is used all the same, `Given` is
skipped without another resource.  One machine (`Acquire`, `Fail`, `GiveBack`,
...) carries out any of them; every step that can fail may fail in any load.

**Panel** takes a call apart into what the bus and the pin see: pin, command,
parameter, page or screen of data, with the semaphore where the driver takes it.
`shown` are the cells of the display that are lit.  The controller is an
environment: what a byte does to it depends on `pin`, `ptr` and `waits`.

**Paint** draws a shape step by step; a step paints points, and `SetPixels` turns,
mirrors, clips and packs each of them as `Paint_SetPixel` does, with 16-bit
wrap-around; so do the `int16_t` variables of a circle.  `strays` says how a write outside of the image came about.

**Camera** gives each program as a list of named steps (`Plan`) and one action for
each; the queues of the camera and of the PxP are fifos that `Fill` and `Show`
move on, `held` and `gone` what the process has and what it gave back.

## 3. Runs

| run | specification and bounds | distinct states | what it shows |
|---|---|---|---|
| `pipe_safety` | all of `ScullPipe`: 2 files, buffers of 2 and 3, one byte per call | 2.4 M | the semaphore is held exactly between down and up; no reader sleeps beside data that nobody will announce |
| `pipe_fifo` | `DataSpec` (no poll, SIGIO, signals): two byte values, calls of 1 and 2 | 1.1 M | copies stay inside the buffer; the pipe implements `BoundedFifo` over resizes, opens, faults and frees |
| `pipe_liveness` | `BlockingSpec`: from an open pipe, reads, writes and signals, buffer of 2 | 19 k | sleepers of both queues are woken |
| `bare_file` | `FixedSpec`: 2 processes, quanta of 1 and 2, sets of 2, positions to 3 | 0.75 M | the device implements `SparseFile`; nobody runs wild; the layout of `scull.h` |
| `access_opens` | `OneUses`: 3 processes, all four devices | 0.57 M | who may open, counts, wake-ups, clones; scullsingle trims alone |
| `access_trim` | `AccessSpec` of sculluid: 2 processes | violation | `main.c:52` asks for the semaphore around a trim: these opens trim beside others |
| `print_safety` | `RolesSpec`: 2 writers, one of which closes, page of 3 | 1.4 M | ring, semaphore, order of bytes, close, and that output never stalls |
| `print_liveness` | `FairSpec`: 1 process | 87 k | everything is printed; sleepers beside bytes in line are woken |
| `usb_unplug` | `Spec`: 3 processes, 3 structures, 2 URBs | 74 k | counts are holders, no use after free, opens meet a bound device, buffers have URBs |
| `pages` | `RolesSpec` of `ScullFamily`: 2 processes, one of which maps, all four drivers, three settings of order and qset, positions to 2 | 0.82 M | mapped pages stay pages of the device; the count of mappings and the semaphore are right after every call |
| `drivers` | `DriversSpec`: 1 reader and 3 interrupts of five handlers; 1 user and 3 lines; 2 tasks of the small modules; 19 modules loaded twice | 0.52 M | the log, the array of times, the outputs, the probe; every wait ends; every load is undone |
| `display` | `DisplaySpec`: 2 processes and a panel of 2 pages by 8 columns; images of 9 x 7 and 24 x 17 and seven fonts; 2 frame buffers, one failing call | 0.37 M | the panel shows what was sent; the drawings; the camera's frames, its failures and its end |

`drivers` and `display` are several models that share nothing, one per behaviour:
a variable `part` says which of them moves, and the others stay in one initial
state.  Their actions could be interleaved, but none reads what another writes.

A property of a run may be a conjunction of named parts: `StoreIsSound`,
`SingleIsAlone`, `CountsAreRight`, `RingIsSound`, `LogIsSound`, `DeviceIsLeftInOrder`,
`OutputsAreInStep`, `WaitsEnd`, `LoadsAreUndone`, `PanelIsRight`, `PixelsStayApart`,
`DrawingsAreRight`, `FramesGoRound`.  The parts are stated and commented one by one
above the conjunction, and nearly all have a mutant of their own.  The type
invariants of `ScullPipe` and `SkelUsb` are in no run because they are proved.

**Why the bounds are enough.**
*Pipe*: buffers of 2 and 3 have the wrap, the full and the empty ring, and a size
that differs from the block's; two files are a reader and a writer, two readers
or two writers, each also a polling or resizing third party.  Two byte values
in calls of up to 2 show a byte out of order or from elsewhere.  `MaxLag` bounds
how far `nwriters` sinks, 2 being enough for `nreaders + nwriters` to reach zero
with a file open and to pass it.
*Bare device*: positions to 3 with quanta of 1 and 2 in sets of 2 reach a second
quantum and a second item, holes included.  `bare_file` keeps the settings as
loaded, since the layout is already lost when they change (see below).
*Access*: three processes are one inside and two that race; `People` are a user,
one who has the first one's effective id only, and root, on two terminals.  Only
one process works on the memory, since the memory itself is `bare_file`'s
question; its steps matter to `SingleTrimsAlone` and to dangling pointers.
*Printer*: a page of 3 has a wrap, a full and an empty ring and a threshold
`SP_MIN_SPACE` of 1; writes of 2 need a second chunk.
*USB*: three structures are one bound and two orphaned ones with files still
open; the third process opens while those exist.
*Pages*: orders 0 and 1 with 1 or 2 blocks to an item and positions to 2 reach a
second item and a block of two pages.  One process maps: with more memory maps
`vmas++` loses counts, which the model has and no property survives.
*Log*: three records in a page wrap at the third of three interrupts, and a
reader that is late has just not been overrun, or just has; two places in the
array of times make it full with one.  *Probe*: three lines are the right one, a
wrong one and one that no handler sits on.
*Small modules*: two tasks are two readers of one timer, one flag or one
completion; three writes let one more through than there are readers.
*Loading*: every step that can fail does, once or in both of two loads.
*Panel*: two pages tell the order of pages from that of columns, eight columns
are one page turned.  One fault and a signal at any step.  *Paint*: 9 x 7 is no
multiple of a byte at any scale, 24 x 17 holds the largest glyph; lines and
circles end at both corners and inside; a radius of 40000 is negative as an `int16_t`.  *Camera*: two buffers and the worker's
third; one failure is every single call that can fail.
The screen of the turned picture is a wide one: `TurnedWindowFits` says nothing of a
narrow one, whose scale exceeds 1 and whose window the code makes too high.

TLC looks for deadlocks in the first seven of the passing runs but
`print_liveness`.  That one stops where a `BUG_ON()` has taken `shortp_out_lock` along,
`usb_unplug` where a failed open has left `skel_mutex` locked and both the hub thread
and every process wait for it, `pages` where every process has ended in an oops with
the semaphore, `drivers` where all interrupts, writes and loads of the bounds are
spent, `display` where a program has ended.  (In the others a program can always make
a call or get a signal.)

**Fairness.**  In `BlockingSpec` every process that can run does (weak fairness
of `Steps`), and a semaphore that is free again and again is had in the end
(strong fairness of the steps that take `dev->sem`): its waiters are queued first
in, first out.  Nobody has to make a call or send a signal.  In `FairSpec` the
thread, the timer, pending interrupts and runnable processes run, and the printer
acknowledges; a raised interrupt is not guaranteed.  Properties of `ShortPrint`
stop at `oops`, the `BUG_ON()` of a timer added twice, which the code can reach
(`shortprint.c:392`).  In `DisplaySpec` the main thread and the worker of a camera
program run, the camera fills the buffers it has been given and the PxP shows them:
a `VIDIOC_DQBUF` returns as long as the stream is on and a buffer is queued.
Ctrl-C itself, spurious wake-ups and failures need not happen.

**What the models refute.**  Statements of comments that the code does not keep are
defined beside the properties; `access_trim` checks one.  TLC violates each of the
others within seconds when it is added as an `INVARIANT` (`WaitsForSpace` as a
`PROPERTY` of `FairSpec`, `LayoutKept` with `Spec` in place of `FixedSpec`):
`NotCheckedOnceFreed` (`pipe.c:105`, the other fields are checked when the buffer is
freed), `LayoutKept` (`scull.h:59`, sizes are loaded before the semaphore),
`WaitsForSpace` (`shortprint.c:97`, writers are not always woken when there is
space), `MapsSinglePages` (`scullp/mmap.c:52`, pages of a block of two are mapped),
`LineMeetsItsEnd` (`GUI_Paint.c:367`, lines stop one short), `CleanupWorksWithoutItems`
(the comment of the cleanup functions: `scull_access_cleanup` and others give back
what is not there), `PrintsWhatWasStored` (`short.c:373`, the bottom half can
print a time that was overwritten).

## 4. Proofs

All theorems hold for every value of the constants allowed by the named
assumptions (`PipeAssumption`: sizes positive and bounded by `MaxSize`, messages
no longer than `MaxCount`; `SkelAssumption`: finitely many processes, and the
markers for nobody and NULL are not among the things they mark; `StoreAssumption`:
sizes are numbers, messages are not empty, and what a hole and a fresh `kmalloc` hold
is no byte of a message; `AccessAssumption`: finitely many processes;
`ShortPrintAssumption`: a page of two bytes or more; `ShortRingsAssumption`,
`ShortPortsAssumption`: sizes and bounds are numbers; `PagesAssumption`: an
order is a number, its block has pages, `qset` is positive; `CameraAssumption`:
counts are numbers, the conversion has a pair to a row, and no command line asks for
a screen of width 0, by which `pxp_config_windows` would divide; `PaintAssumption`:
sides of images up to 32767, since beyond `WidthByte`, a `UWORD`, would not hold a row
of two-byte pixels, and radii that are `UWORD`s but 32767, with which a filled circle
never ends; `ScriptAssumption`: text consists of characters that the font has, times
of two digits, a number is one that an int holds with fewer than ten digits of
fraction, and Chinese text ends with a whole character).

**ScullPipe_proofs.**  `TypeCorrect`, `MutualExclusion` and `CopyWindow` follow from
one inductive invariant, `IInv`, of four conjuncts: types, `SemaphoreDiscipline`,
`Pointers` and `Tested`.  `CopiesInsideBuffer` is not inductive: that a copy finds
something to copy depends on the loop's test, made in an earlier step, still
holding, which it does because whoever tested has the semaphore since (`Tested`);
and that it stays inside depends on both pointers being short of the end except
between an advance and its wrap (`Pointers`), also after an open has changed
`buffersize`.  The arithmetic of the ring is in lemmas `SpaceFree`, `Distance`,
`ReadWindow` and `WriteWindow`, which free `spacefree` and `Filled` of their modulus.
`NoWakeupIsLost` adds `NoLostWakeup` on top of `IInv`: a step that makes data appear
belongs to a writer that still has its `WriteWake` to do (`StepWake`), and every other
step leaves sleepers and data as they are (`Calm`) or the pipe empty (`EmptyPipe`).
`PipeIsAFifo` is the refinement: over `IInv` and `Clean` (outside of a call nobody has
bytes in hand, and a write that has reached the end has not filled the ring from its
start) every step is one of `BoundedFifo` or none of its concern (`Mapped`).  The bytes
are written without their modulus as `BytesOf` a ring (`BytesInRing`); a read takes a
prefix of them (`Removed`), a write puts its bytes behind them (`Appended`), a wrap moves
a pointer and no byte (`ReadWrapped`, `WriteWrapped`), and what a copy that fails has
stored lies behind them too (`Untouched`).

**ScullBare_proofs, ScullAccess_proofs.**  The first begins with the lemmas about the
operations that bare and access-controlled devices share: `SemInv`, the
semaphore is held exactly between find and copy, is kept by each of them.  Over it,
`SemaphoreIsHeld` and `TrimsWait` hold of the bare device with settings that change at
any time.  `CallsStayInside` and `MemoryIsSound` need settings that stay as loaded (see
`LayoutKept` above) and the invariant `FixedInv`: what a call computed before its copy
still fits the list (`Sound`), since only it can change the list meanwhile; no quantum or
array has another length than the settings say (`Shaped`); and the quantum a copy is about
to use is there (`Mapped`).  `Shaped` speaks of sets of sequences of the right length and
not of lengths at each index, so that appending, growing and filling (`Grow`, `Fill`)
are facts about one level of the list at a time; `Geometry` and `Reach` are the division
of a position into item, quantum and rest.
`DeviceIsAFile` is the refinement to `SparseFile`.  A position is one item, slot and offset
(`Parts`) and no other position is the same (`SamePlace`, `SameQuantum`, from `Unique`, the
uniqueness of quotient and remainder), so a quantum after a copy of k bytes differs from
the one before at exactly the positions that the caller meant (`StoredBlock`,
`StoredBytes`), and a copy to the caller is a stretch of the file (`CopiedBytes`).  A find
of a read lengthens the list and changes no byte (`FollowedSame`), a find of a write
fills holes and nothing else (`FilledMore`), whether or not it runs out of memory.  To `FixedInv`
it adds `Asked`: a call under way has asked for something, and a read that has its
quantum for no more than there is, which holds until the copy because only a process with
the semaphore makes the file shorter.
`AccessInv` of the controlled devices has `Stage` (where a process is in the open or
release, and what it does with the memory), `Counted` (a count is the cardinality of
those inside, by `FS_AddElement` and `FS_RemoveElement`; the owner is theirs), `Cloned`
(the list of scullpriv under its lock) and `SleeperIsWoken`.  The last adds no strengthening:
a step that makes the device available to a sleeper is a release, and it goes on to its
wake-up; and that wake-up is for all of them, so none is left asleep when it is done.

**ShortPrint_proofs.**  `PrintInv` has the types, the semaphore, `NeverStalls`, and for each
writer what it may rely on at each step (`Holds`): the space it computed is still there
when it copies, although `out_tail` has moved in between, since the engine only makes
room and only the semaphore's holder moves `out_head`; and a tail that was behind the
head does not pass it.  `RingArithmetic` and `Moves` do the modulus once.  `OutputGoesOn`
needs no more: who has copied still has the engine to start, and the engine stops only
where it finds the ring empty, under the lock that the start takes too.  `PrintsInOrder` is the
refinement to `PrintQueue`: the bytes between tail and head are the line, a chunk goes
behind it, also when the head wraps (`ChunkGoesBehind`), the engine takes the first
(`FirstGoes`), and no other step touches them (`Otherwise`).  `ClosesAreLast` needs one
thing more, `Started`: while no output is under way, the bytes in line belong to
processes that are just about to start it; so who closes then has none.

**Drivers_proofs, the USB skeleton.**  `ReferencesAreCounted`, `NothingIsUsedFreed` and `OpensAreInTime`
rest on `IInv`: who is between lock and unlock has `skel_mutex` (`MutexIsHeld`; the
converse is false, as the failing opens keep it), which of its two references the
interface has at each step of probe and disconnect (`HubStage`), that an open
past its tests still sees what it tested (`FileStage`), and the count itself.
A step changes the holders of one structure by one, so the cardinality follows
from `FS_AddElement` and `FS_RemoveElement`.  `BuffersAreOwned` has an invariant of its
own, `UrbInv`: an URB is prepared by one process at a time and not in flight then.

**Drivers_proofs, the log.**  `TimesAreSeen` says for any array and any number of
interrupts that a stored time has a bottom half to come.  `NoTimeIsForgotten` is
inductive as it stands, which is the point of the order in the code: the work
item is off its queue before it looks, so an interrupt that stores after the look
finds the queue free (`TimeStep`, one step per handler and per line of the bottom
half).  `LogReaderIsWoken` strengthens `LogSleeperIsWoken` only by where the readers
are (`RingsInv`, `SleeperStep`): whoever moves the head still has its wake-up to do
(`WriterStep`), and with one reader nobody else moves the tail (`ReadsLeave`).
`LogIsGiven` needs to say what the ring holds (`LogInv`): with one reader, the text from
the tail (behind what it has copied and not yet counted, while it is about to move the
tail) to the head is what was logged and not given (`Stands`).  Two facts of the code
carry it: a record never straddles the end of the page, whose length
is a multiple of theirs (`HeadIsEven`), and the count that the bottom half prints is
that of the interrupts since the last (`CountIsOfIrqs`).

**Drivers_proofs, the ports.**  All follow from `PortsInv`: types, finitely many calls, as
many buffers as calls and faults, the level by the parity of the position; and of
the probe that `short_irq` is zero only while no handler has run since the toggle,
positive only if the one line fired, and that turns are left while it goes on.
`SearchIsBounded` gives the six turns, `BuffersAreFreed` and `TogglesAlternate` the
outputs, `OutputsKeepStep` all three as the run checks them, `ProbeIsRight` the answer.

**Drivers_proofs, the waiters.**  `WaitersAreServed` has the parts of `WaitsEnd` and
four more in `WaitersInv`: a task without a call has no file (`IdleHasNoFile`); who is on a
wait queue is in the part of its read that sleeps there (`QueueFits`); a read of jit has at each step
printed what its loop counter says (`JitFits`); and who is between the write of complete
and the end of its read is counted in a finite set (`WritesFit`), so that a write moves
`CompletionsAreCounted` by one as `FS_AddElement` and `FS_RemoveElement` say.

**ScullFamily_proofs.**  Both theorems have the hypothesis `OneMapper`: one process at
most maps (its mm's lock keeps the increments and decrements of vmas apart; with two
memory maps `vmas++` loses counts, which the code does not lock).  `FamilyInv` has the
types, `SemaphoreIsGivenBack`, and the mapping side, `MapsInv`: vmas is the number of
mappings but between the call of open or close and its count, pages are
only in tables of processes that have mapped, and scullc has none of it; and `SemInv`: a trim
past its test has the semaphore, and all tables are empty until it is done.  `PagesStayTheDevices` rests on
the last: a trim may have tested vmas before it was incremented, but the fault that would
fill the table waits for the semaphore, and when the trim is done it finds no page.
`CallsLeaveOrder` follows the semaphore through every way a call can end, in all four
drivers, which share their actions and differ in what an allocator or a fault does.

**Display_proofs, Panel.**  A call is a constant sequence of steps, and `Rest(s, i)` what is left
of it after i of them; the lemmas `OpenIs` to `ProbeIs` say what each sequence has at each
place, for any number of pages.  `PanelInv` says per driver what the controller is like
at each place.  Character device (`OledInv`): who does not hold the semaphore has not
begun (`Parked`), who does is opening, writing or releasing, with the pin down before a
command and up before data, and, as long as nothing failed, the controller at the page its
call has come to.  Between calls it is `AtRest`: at page 1 as soon as an open has been
through, since its fill sends a single page.  That is why a write, which rests on its own
open only, starts on a page it knows, whatever other processes opened or released since.
`Sending` counts pages: the first j of a picture are shown from the page where it began
(`OnePageMore`); all of them are the picture turned (`PictureIsSent`, from the uniqueness
of quotient and remainder in `PageHolds` and `Unique`).  The light: a display that is lit
while nobody has the device open has somebody on the way to switch it off (`Darkens`).
Program (`ProgInv`): the same with one process, from page 0.  Frame buffer (`FbInv`):
without overlap at most one call is under way, the controller waits for a parameter
only between the two commands of the backlight, and the display shows the memory but
from a copy to the screen that follows it; `Transpose` undoes `set_pixel` (`LyingAsItIs`).
The assumption `PanelAssumption` asks that a picture is a set of pixels of the image that
is sent; every image is one.

**Display_proofs, Paint.**  `PixelsStayApart` holds for images of any size and for
whatever is drawn.  `PaintInv` says that the image is `Made`: its sides fit each other and
its rows are as long as its packing needs; that what is left to do has numbers for its
places (`Frame`), which is all that is known of a line's error or a glyph's bytes; and that
no stray write is "inside".  In a `Made` image that is turned as it was made, a pixel
within its width and height has a place in its memory (`Place`: no 16-bit difference
wraps), another pixel another one (`PlacesDiffer`), and a place an address that is unique
by the uniqueness of quotient and remainder (`Address`, `Apart`, `OneByte`, `TwoBytes`).
The count of all bits follows by a bijection from the pixels (`BitsAreCounted`).  A point
that passes the clip and is not inside of the image is on one of its two far edges, or the
image was turned (`PixelsKeep`).

`DrawingsAreRight` is about what a call has done when it ends, so its invariant
`DrawInv` says of every step what the steps before it have left; TLC checked it on the
instance of `display` before it was proved.  `Settled`: between calls nothing is lost, and
text is written upright.
*Line* (`LineInv`): a frame has made some number a of moves sideways and b up or down, `Esp`
is counted from these two, and stays within bounds by which every dot is
no more than one and a half from the ideal line.  A pass of the loop always moves along
the longer side, so there is one dot for each of these moves; when the longer side is used
up, the bounds leave the shorter one no more than one short of its end.
*Circle* (`CircleInv`): `Esp` is twice the excess of the next dot's square distance over that
of the radius, and some terms of its place (`CircleErr`), which keeps the dot within half a
dot of the circle.  What `eight` mirrors, and what a filled circle has covered, is said of
the columns before `xc` (`CircleDots`); when `xc` has passed `yc` these are all.  Below a
radius of 8192 no value leaves the 16 bits of `Esp`, so the wrap-around never acts.  That
bound belongs to the property.  It is nearly sharp: the loop, run as C, is right up to a radius
of 8345 and draws a wrong circle with 8346.
*Glyphs* (`GlyphInv`): the pointer is the first byte and the bytes of the rows before, and
all rows end where the glyph does.  The glyph of every character in 32 .. 126 is in its
font's table, by the sizes of that font; in Chinese text the cursor is at the first byte of
a character or at the end.
*Numbers* (`NumberInv`): until a dot is drawn the string is whole.  That the reversed digits
read back to the number is `ValueIs`: after the first i digits the value is the number
divided by the power of ten of the digits left.  `Value` is a recursive function, but over
ten digits at most, so ten steps stand for an induction.
*Text* (`TextInv`): every glyph stays in the column of the first one and above the lower
edge, as the wrap returns to the place the string began at, where it fits by the premise.

**Camera_proofs.**  Both theorems rest on `CameraInv`, for any number of buffers,
failures and command lines.  A queue is taken as one sequence, from the buffer its driver
gives next to the one it got last, so that filling a buffer changes nothing.  `InStep`:
between the steps of a pass the camera's sequence is that of the PxP with the extra buffer
put in at one place or nowhere (`Lock`); therefore the two buffers a pass takes are the
same one, unless the first is the extra one, which goes to the worker (`LockGives`,
`LockExtra`, `LockAppend`, `LockRequeue`).  `OnePlace`: the extra buffer is in the queue, in
main()'s hand, announced to the worker or in its hands, and in one of these only, or was
lost by a requeue that failed.  `HeldFits` says what is held at each step; it needs
`Handled`, that no call failed whose result the program ignores, since after one the
programs do use what they do not have.  Of the conversion, a recursive function over
the bytes, `Places` says where each pair of any picture lies; it is proved by the least
counterexample (`LeastOf`), as the order of the numbers is well-founded.  `ScaledDown` is
the arithmetic of the turned window: sixteenths, then eights.

**Drivers_proofs, Loading.**  `LoadsStayUndone` holds for any choice of the modules and any
number of loads.  Its argument is in two halves.  What a sequence of steps must look like,
whatever it acquires: `Cleans` says that a cleanup gives back all of what is held but what
is known to stay (`Leftovers`), in an order in which nothing that decides about a step has
gone before it (scull's `cdevs` are given back only while `devices` is there), and, in the
modules that look first, meets only what is there.  `Safe` says that at each step that can
fail, and at the end, every set that may be held there (`Possible`: all of `Sure`, nothing
but `May`) is cleaned by what then follows; and that in the four modules whose opened device
must be ready nothing can fail once a device is reachable (`Reached`).  `LoadInv` keeps
these up, phase by phase, for the steps that are left, with what is held now; one lemma
per kind of step shows that they survive it (`SafeOn`, `SafeWithout`, `CleansOn`).  The
second half is that each of the twenty modules is written like that (`AllAreWritten`, from
one lemma per module).  scull needs `Paired`, that there are no `p_cdevs` without
`p_devices`, and is the only module that gives something back in a load that goes on.
TLC checked `LoadInv` and `Written` before they were proved.

**Only model-checked**: liveness, which the prover does not do (`ReaderIsWoken`,
`WriterIsWoken`, `EverythingIsPrinted`, the `SleepersAreWoken` of `ShortPrint`,
`QuitIsHeeded`).  Every safety property of a passing run is also a theorem.

## 5. What is left out, and why

* *Everywhere*: zero counts and sizes, `-ERESTARTSYS` against `-EINTR`, debug
  messages, threads that share one open file (its position), the text of `/proc`
  files.
* *Pipe*: `wait_event_interruptible` tests its condition before it queues; that
  first test is folded into the loop's, which just failed.
* *Access*: the count of an open that ends with `-EINVAL` for lack of a terminal;
  the memory of clones after the first; whether `kmalloc` sleeps under the
  spinlock.
* *scullp and its copies*: the contents of pages, which are `ScullBare`'s.
* *short*: `short_kernelprobe`, whose search is the kernel's; the values read from
  a port.
* *USB*: the bytes of a transfer, suspend and reset (the driver has none), the
  USB core's own lock around opens.
* *lddbus, ofdev, pci*: matching of names, hotplug variables, and properties that
  are only printed.
* *Displays*: the values of the controller's initial registers and the times
  the bus takes.
* *Drawing*: the pictures of glyphs and of the Chinese characters (their places in
  the tables are modelled), colours; the `float` that `Paint_DrawNum` takes: its whole and
  its fraction are given apart, so that a fraction that rounds up to one and a negative
  number do not occur.
* *Camera*: colour conversion arithmetic, control values, the model that is run,
  its answer and the messages.
* *Not modelled at all*: `hello.c`, `hellop.c`, `kdatasize.c`, which print at load;
  `misc-progs`, `spidev1.c`, `gpiod1.c`, the inference and frame
  buffer tests, which call a driver
  in a straight line and keep no state; `libgpiod` and the kernel's headers, which
  are not this project's.

Things the models show that contradict no text of the repository, so that no run
states them: an ioctl can make `dev->end` lie past the block (`pipe.c:75`); an open
empties a full pipe without waking the writers asleep on it (`pipe.c:77`); the
quantum can be set to 0 and divided by (`main.c:434`); a free scullsingle can be
refused because another refused open has not counted up again (`access.c:49`);
`skel_open` returns with `skel_mutex` held when it loses against a disconnect
(`usb-skeleton.c:83`); the error path of `skel_write` uses a NULL URB or frees a
buffer twice (`usb-skeleton.c:214`); a page fault of scullp outside of the device
follows a NULL page and one of sculld always does (`scullp/mmap.c:90`,
`sculld/mmap.c`); the cache of scullc is made after its devices are live
(`scullc/main.c:636`); `scull_a_firstdev` gets the result of a registration instead of
the number (`access.c:367`); scull, sculld, lddbus, short, the two display drivers and
pci keep something after they are gone (`Leftovers` of `Loading`); two writes to
jiqtimer can set up the timer that waits (`twice` of `Waiters`); a display stays on
after a close that a signal ended (`missed` of `Panel`); `Paint_Clear` at 16 bits
and an image turned late write outside of the image (`strays` of `Paint`).
Reading on, and not modelled: each open of scullpriv keeps a reference on the
terminal (`access.c:267`).

## 6. Plan

The plan of the project was, in this order: the pipe, the store and its bare
device, access control, the printer, the USB skeleton; then the mapped devices
(`ScullPages`), the log (`ShortRings`), the ports (`ShortPorts`), the small modules
(`Waiters`), load and unload (`Loading`), the displays (`Panel`, `Paint`) and the
camera programs (`Camera`).  All of them are written and checked.

Worth doing next: an abstract specification of the log of `ShortRings`, with what an
overrun may lose, would say more than `ReaderGetsTheLog` does.
