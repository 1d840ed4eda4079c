------------------------------- MODULE Camera -------------------------------
(* The four camera programs of lcd_learn/camera.  pxpv4l2 and                *)
(* pxpv4l2vision pass frames between two V4L2 queues that share their        *)
(* memory: the camera's and that of the PxP, which draws.  The second also   *)
(* gives one extra buffer to a worker thread (PxP channel and inference).    *)
(* visionpxp converts every frame itself; visionvideo copies.  A program is  *)
(* a list of steps (Plan); "turn" and the steps after it are its loop.      *)
(* External: the two drivers, as FIFO queues of buffers.                     *)
EXTENDS Naturals, Sequences, FiniteSets, SequencesExt

CONSTANTS Programs,       \* the programs run
          V4L2_BUF_NUM,   \* the buffers both queues share; the next is extra
          Commands,       \* the command lines: sequences of options
          MaxFailures,      \* bound: system calls that fail
          Pairs, Rows,    \* a frame: pairs of pixels in a row, rows
          NoBuffer

VARIABLES program, pc,    \* the program and the step its main thread is at
          settings, crop, \* the parsed options, the window sent to the PxP
          quitflag,
          held, gone,     \* what the process holds, and has given back
          cam, out,       \* the two queues
          hand,           \* the buffers of buf_cam and buf_pxp
          ai, worker,     \* ai_worker, and the step of its thread
          tries,          \* pxp_wait_for_completion's count
          failed, failures, \* the steps that failed
          wild,           \* what was used without being held
          picture         \* where visionvideo put each pair of pixels

cvars == <<program, pc, settings, crop, quitflag, held, gone, cam, out, hand,
           ai, worker, tries, failed, failures, wild, picture>>
setup == <<settings, crop, picture>>
queues == <<cam, out, hand>>
thread == <<ai, worker, tries>>
luck == <<failed, failures>>

Both == {"pxpv4l2", "pxpv4l2vision"}
Buffers == 0 .. V4L2_BUF_NUM
Stopped == [on |-> FALSE, queue |-> <<>>, done |-> <<>>]
NoWindow == [width |-> 0, height |-> 0, corner |-> "none"]
Default == [w |-> 64, h |-> 48, dst |-> FALSE, rotate |-> 0,
            rotate_pass |-> FALSE, sw |-> 64, sh |-> 48, bad |-> FALSE]

-----------------------------------------------------------------------------
(* The main threads: their steps in order, each leaving for the next.        *)

(* A mutant: the memory goes before the camera is stopped.                   *)
main_stops_late ==
    <<"pxp_init", "signal", "pxp_check_capabilities", "pxp_config_output",
      "pxp_config_buffer", "camera_init", "pxp_config_windows",
      "pxp_config_controls", "pxp_start", "turn", "close",
      "pxp_stop", "camera_stop", "camera_cleanup", "pxp_cleanup">>

main ==
    <<"pxp_init", "signal", "pxp_check_capabilities", "pxp_config_output",
      "pxp_config_buffer", "camera_init", "pxp_config_windows",
      "pxp_config_controls", "pxp_start", "turn", "close",
      "camera_stop", "camera_cleanup", "pxp_stop", "pxp_cleanup">>

vision_main ==
    <<"pxp_init", "signal", "device_pxp_init", "model_init", "label_init",
      "create", "pxp_check_capabilities", "pxp_config_output",
      "pxp_config_buffer", "camera_init", "pxp_config_windows",
      "pxp_config_controls", "pxp_start", "turn", "quit", "join", "close",
      "camera_stop", "camera_cleanup", "pxp_stop", "pxp_cleanup",
      "device_pxp_deinit">>

visionpxp_main ==
    <<"framebuffer_init", "camera_init", "pxp_engine_init", "camera_enable",
      "signal", "turn", "camera_disable", "pxp_deinit">>

visionvideo_main == <<"framebuffer_init", "camera_init", "turn">>

Plan == CASE program = "pxpv4l2" -> main
           [] program = "pxpv4l2vision" -> vision_main
           [] program = "visionpxp" -> visionpxp_main
           [] OTHER -> visionvideo_main

After(step) == LET i == CHOOSE j \in 1 .. Len(Plan) : Plan[j] = step
               IN  IF i = Len(Plan) THEN "exit" ELSE Plan[i + 1]

Running == pc \notin {"exit", "wild"}
At(p, step) == program = p /\ pc = step
Proceed == pc' = After(pc)
Exits == pc' = "exit"

Well == UNCHANGED luck
Fails(step) == /\ failures < MaxFailures
               /\ failures' = failures + 1
               /\ failed' = failed \cup {step}

(* From a use of what is not held on nothing is defined: the model stops.    *)
GoesWild(what) == wild' = wild \cup {what} /\ pc' = "wild"
Tame == UNCHANGED wild

-----------------------------------------------------------------------------
(* System calls of the two queues (external).                                *)

StreamOn(q) == [q EXCEPT !.on = q.queue # <<>>]
StreamOff(q) == Stopped
Qbuf(q, b) == [q EXCEPT !.queue = Append(@, b)]
Dqbuf(q) == [q EXCEPT !.done = Tail(@)]
Filled(q) == [q EXCEPT !.queue = Tail(@), !.done = Append(@, Head(q.queue))]

MemoryOf(b) == IF program \notin Both THEN "bufs"
             ELSE IF b = V4L2_BUF_NUM THEN "mem" ELSE "maps"

(* The camera fills the buffer at the head of its queue, mapped or not.      *)
Fill == /\ Running
        /\ cam.on /\ cam.queue # <<>>
        /\ IF MemoryOf(Head(cam.queue)) \in held
           THEN cam' = Filled(cam) /\ Tame /\ UNCHANGED pc
           ELSE GoesWild("fill") /\ UNCHANGED cam
        /\ UNCHANGED <<program, setup, quitflag, held, gone, out, hand,
                       thread, luck>>

Show == /\ Running
        /\ out.on /\ out.queue # <<>>
        /\ out' = Filled(out)
        /\ UNCHANGED <<program, pc, setup, quitflag, held, gone, cam, hand,
                       thread, luck, wild>>

signal_thread == /\ Running
                 /\ "signal" \in held /\ ~quitflag
                 /\ quitflag' = TRUE
                 /\ UNCHANGED <<program, pc, setup, held, gone, queues,
                                thread, luck, wild>>

-----------------------------------------------------------------------------
(* pxp_lib.c.  Its reference count never passes one in these programs.       *)

pxp_lib_init(h) == h \cup {"lib"}
pxp_request_channel(h) == h \cup {"chan"}
pxp_get_mem(h, m) == h \cup {m}
pxp_put_mem(h, m) == h \ {m}
pxp_release_channel(h) == h \ {"chan"}
pxp_uninit(h) == h \ {"lib"}

(* What fails on the way gives back what was taken before it.                *)
TakeChannel ==
    LET chan == pxp_request_channel(pxp_lib_init(held))
    IN  held' = pxp_get_mem(pxp_get_mem(chan, "mem"), "mem_o") \cup {"conf"}

(* The calls that come again are told apart only by free(pxp_conf).          *)
GiveChannel ==
    LET rest == pxp_put_mem(pxp_put_mem(held, "mem_o"), "mem") \ {"conf"}
    IN  /\ held' = pxp_uninit(pxp_release_channel(rest))
        /\ gone' = gone \cup (held \ held')

(* The wait after pxp_config_channel and pxp_start_channel.                   *)
pxp_wait_for_completion(times, ok, bad) ==
    \/ ok /\ tries' = 0
    \/ tries + 1 < times /\ tries' = tries + 1 /\ UNCHANGED <<pc, worker, held,
                                                      gone, luck>>
    \/ tries + 1 = times /\ tries' = 0 /\ bad

-----------------------------------------------------------------------------
(* Options and the window of the PxP.                                        *)

Option(c, o) ==
    CASE o[1] = "sx"  -> [c EXCEPT !.sw = o[2], !.w = o[2]]
      [] o[1] = "sy"  -> [c EXCEPT !.sh = o[2], !.h = o[2]]
      [] o[1] = "res" -> [c EXCEPT !.w = o[2], !.h = o[3]]
      [] o[1] = "dst" -> [c EXCEPT !.dst = TRUE]
      [] o[1] = "r"   -> [c EXCEPT !.rotate = o[2],
                                   !.rotate_pass = @ \/ o[2] \in {90, 270}]
      [] OTHER        -> [c EXCEPT !.bad = TRUE]

Parse(os) == LET c == FoldLeft(Option, Default, os)
             IN  [c EXCEPT !.bad = @ \/ c.rotate \notin {0, 90, 180, 270}]

Eights(n) == (n \div 8) * 8

(* A mutant: the scale is not applied to the picture.                        *)
WindowUnscaled(c) ==
    [width |-> c.w, height |-> c.h,
     corner |-> IF c.rotate_pass /\ c.rotate \notin {90, 270}
                THEN "unset" ELSE "origin"]

Window(c) ==
    IF c.dst THEN [width |-> c.w, height |-> c.h, corner |-> "given"]
    ELSE IF ~c.rotate_pass
    THEN [width |-> c.w, height |-> c.h, corner |-> "origin"]
    ELSE LET scale == (16 * c.sh) \div c.sw
         IN  [width |-> Eights((c.sw * scale) \div 16),
              height |-> Eights((c.sh * scale) \div 16),
              corner |-> IF c.rotate \in {90, 270} THEN "origin" ELSE "unset"]

(* The picture on the screen has a size, as the scale is a quotient by it.   *)
ASSUME CameraAssumption ==
    /\ Programs \subseteq Both \cup {"visionpxp", "visionvideo"}
    /\ V4L2_BUF_NUM \in Nat /\ NoBuffer \notin Buffers
    /\ MaxFailures \in Nat
    /\ \A os \in Commands : Parse(os).sw \in Nat \ {0} /\ Parse(os).sh \in Nat
    /\ Pairs \in Nat \ {0} /\ Rows \in Nat

-----------------------------------------------------------------------------
(* The steps of pxpv4l2 and pxpv4l2vision, then those of each alone.         *)

(* Take rs or leave with return 1.                                           *)
Takes(p, step, rs) ==
    /\ At(p, step)
    /\ \/ held' = held \cup rs /\ Proceed /\ Well
       \/ Fails(step) /\ Exits /\ UNCHANGED held
    /\ UNCHANGED <<program, setup, quitflag, gone, queues, thread, wild>>

find_video_device == "vfd"

Init(p) ==
    /\ At(p, "pxp_init")
    /\ \/ \E os \in Commands :
            /\ settings' = Parse(os)
            /\ IF Parse(os).bad THEN Exits ELSE Proceed
            /\ held' = held \cup {find_video_device, "pxp", "buffers"}
            /\ Well
       \/ Fails("pxp_init") /\ Exits /\ UNCHANGED <<held, settings>>
    /\ UNCHANGED <<program, crop, picture, quitflag, gone, queues, thread, wild>>

pxp_init == Init("pxpv4l2")
video_pxp_init == Init("pxpv4l2vision")

pxp_check_capabilities(p) == Takes(p, "pxp_check_capabilities", {})
pxp_config_output(p) == Takes(p, "pxp_config_output", {})
pxp_config_controls(p) == Takes(p, "pxp_config_controls", {})

Numbers(n) == [i \in 1 .. n |-> i - 1]

pxp_config_buffer(p) ==
    /\ At(p, "pxp_config_buffer")
    /\ \/ /\ held' = held \cup {"maps"}
          /\ out' = [out EXCEPT !.queue = Numbers(V4L2_BUF_NUM)]
          /\ Proceed /\ Well
       \/ Fails("pxp_config_buffer") /\ Exits /\ UNCHANGED <<held, out>>
    /\ UNCHANGED <<program, setup, quitflag, gone, cam, hand, thread, wild>>

pxp_config_windows(p) ==
    /\ At(p, "pxp_config_windows")
    /\ \/ crop' = Window(settings) /\ Proceed /\ Well
       \/ Fails("pxp_config_windows") /\ Exits /\ UNCHANGED crop
    /\ UNCHANGED <<program, settings, picture, quitflag, held, gone, queues,
                   thread, wild>>

(* The camera is given n buffers: the PxP's own memory, and mem.             *)
CameraInit(p, n) ==
    /\ At(p, "camera_init")
    /\ \/ /\ held' = held \cup {"cam", "bufs"}
          /\ cam' = [cam EXCEPT !.queue = Numbers(n)]
          /\ Proceed /\ Well
       \/ Fails("camera_init") /\ Exits /\ UNCHANGED <<held, cam>>
    /\ UNCHANGED <<program, setup, quitflag, gone, out, hand, thread, wild>>

camera_init == CameraInit("pxpv4l2", V4L2_BUF_NUM)
vision_camera_init == CameraInit("pxpv4l2vision", V4L2_BUF_NUM + 1)

signal(p) == /\ At(p, "signal")
             /\ held' = held \cup {"signal"}
             /\ Proceed
             /\ UNCHANGED <<program, setup, quitflag, gone, queues, thread,
                            luck, wild>>

(* camera_enable does not look at its result.                                *)
camera_enable == \/ cam' = StreamOn(cam) /\ Well
                 \/ Fails("camera_enable") /\ UNCHANGED cam

StartStreams(p) ==
    /\ At(p, "pxp_start")
    /\ \/ camera_enable /\ out' = StreamOn(out) /\ Proceed
       \/ Fails("pxp_start") /\ cam' = StreamOn(cam) /\ Exits /\ UNCHANGED out
    /\ UNCHANGED <<program, setup, quitflag, held, gone, hand, thread, wild>>

(* The loop: both queues give a buffer, both get it back.  A call that       *)
(* fails breaks out with ret = -1 ("loop" in failed).                        *)
Loop == {"pxpv4l2", "pxpv4l2vision", "visionpxp"}

Turn == /\ program \in Loop /\ pc = "turn"
        /\ IF quitflag THEN Proceed ELSE pc' = "dqcam"
        /\ UNCHANGED <<program, setup, quitflag, held, gone, queues, thread,
                       luck, wild>>

Break == /\ pc' = After("turn")
         /\ failed' = failed \cup {"loop"}
Broken == failures < MaxFailures /\ failures' = failures + 1 /\ Break

(* The extra buffer goes to the worker, every other to the display.          *)
(* ExtraNever is a mutant: every buffer goes to the display.                 *)
ExtraNever(b) == FALSE
Extra(b) == b = V4L2_BUF_NUM

Route(b) == IF program = "visionpxp" THEN "pxp_run"
            ELSE IF Extra(b) THEN "give" ELSE "dqout"

TakeCamera ==
    /\ program \in Loop /\ pc = "dqcam"
    /\ \/ /\ cam.on /\ cam.done # <<>>
          /\ cam' = Dqbuf(cam)
          /\ hand' = [hand EXCEPT !.cam = Head(cam.done)]
          /\ pc' = Route(Head(cam.done))
          /\ Well
       \/ cam.on /\ Broken /\ UNCHANGED <<cam, hand>>
       \/ ~cam.on /\ Break /\ UNCHANGED <<failures, cam, hand>>
    /\ UNCHANGED <<program, setup, quitflag, held, gone, out, thread, wild>>

TakeOut ==
    /\ program \in Both /\ pc = "dqout"
    /\ \/ /\ out.done # <<>>
          /\ out' = Dqbuf(out)
          /\ hand' = [hand EXCEPT !.out = Head(out.done)]
          /\ pc' = "qcam" /\ Well
       \/ Broken /\ UNCHANGED <<out, hand>>
    /\ UNCHANGED <<program, setup, quitflag, held, gone, cam, thread, wild>>

ReturnCamera ==
    /\ program \in Loop /\ pc = "qcam"
    /\ \/ /\ cam' = Qbuf(cam, hand.cam)
          /\ hand' = [hand EXCEPT !.cam = NoBuffer]
          /\ pc' = IF program = "visionpxp" THEN "turn" ELSE "qout"
          /\ Well
       \/ Broken /\ UNCHANGED <<cam, hand>>
    /\ UNCHANGED <<program, setup, quitflag, held, gone, out, thread, wild>>

ReturnOut ==
    /\ program \in Both /\ pc = "qout"
    /\ \/ /\ out' = Qbuf(out, hand.out)
          /\ hand' = [hand EXCEPT !.out = NoBuffer]
          /\ pc' = "turn" /\ Well
       \/ Broken /\ UNCHANGED <<out, hand>>
    /\ UNCHANGED <<program, setup, quitflag, held, gone, cam, thread, wild>>

(* close(fd) with an fd nobody set closes nothing or a descriptor in use.    *)
CloseStray ==
    /\ program \in Both /\ pc = "close"
    /\ \E fd \in SUBSET {"cam", "vfd"} :
         /\ Cardinality(fd) <= 1
         /\ held' = held \ fd
         /\ cam' = IF "cam" \in fd THEN Stopped ELSE cam
    /\ IF "loop" \in failed THEN Exits ELSE Proceed
    /\ UNCHANGED <<program, setup, quitflag, gone, out, hand, thread, luck,
                   wild>>

pxp_start == \/ StartStreams("pxpv4l2")
             \/ program = "pxpv4l2" /\ (Turn \/ TakeCamera \/ TakeOut
                               \/ ReturnCamera \/ ReturnOut \/ CloseStray)

camera_stop(p) ==
    /\ At(p, "camera_stop")
    /\ \/ "cam" \in held /\ cam' = StreamOff(cam) /\ Proceed /\ Well
       \/ "cam" \notin held /\ Exits /\ Well /\ UNCHANGED cam
       \/ Fails("camera_stop") /\ Exits /\ UNCHANGED cam
    /\ UNCHANGED <<program, setup, quitflag, held, gone, out, hand, thread,
                   wild>>

camera_cleanup(p) ==
    /\ At(p, "camera_cleanup")
    /\ held' = held \ {"cam", "bufs"}
    /\ cam' = Stopped
    /\ Proceed
    /\ UNCHANGED <<program, setup, quitflag, gone, out, hand, thread, luck,
                   wild>>

pxp_stop(p) ==
    /\ At(p, "pxp_stop")
    /\ \/ /\ "vfd" \in held
          /\ out' = StreamOff(out) /\ held' = held \ {"maps"}
          /\ Proceed /\ Well
       \/ "vfd" \notin held /\ Exits /\ Well /\ UNCHANGED <<out, held>>
       \/ Fails("pxp_stop") /\ Exits /\ UNCHANGED <<out, held>>
    /\ UNCHANGED <<program, setup, quitflag, gone, cam, hand, thread, wild>>

pxp_cleanup(p) ==
    /\ At(p, "pxp_cleanup")
    /\ held' = held \ {"vfd", "pxp", "buffers"}
    /\ Proceed
    /\ UNCHANGED <<program, setup, quitflag, gone, queues, thread, luck, wild>>

VideoNext(p) ==
    \/ signal(p) \/ pxp_check_capabilities(p) \/ pxp_config_output(p)
    \/ pxp_config_buffer(p) \/ pxp_config_windows(p) \/ pxp_config_controls(p)
    \/ camera_stop(p) \/ camera_cleanup(p) \/ pxp_stop(p) \/ pxp_cleanup(p)

-----------------------------------------------------------------------------
(* pxpv4l2vision alone: the channel, the model and the worker.               *)

device_pxp_init ==
    /\ At("pxpv4l2vision", "device_pxp_init")
    /\ \/ TakeChannel /\ Proceed /\ Well
       \/ Fails("device_pxp_init") /\ Exits /\ UNCHANGED held
    /\ UNCHANGED <<program, setup, quitflag, gone, queues, thread, wild>>

(* main() does not look at the result: no interpreter, or one without        *)
(* tensors, is found by infer_run.                                           *)
model_init ==
    /\ At("pxpv4l2vision", "model_init")
    /\ \/ held' = held \cup {"interpreter", "tensors"} /\ Well
       \/ Fails("model_init") /\ held' = held \cup {"interpreter"}
       \/ Fails("model_init") /\ UNCHANGED held
    /\ Proceed
    /\ UNCHANGED <<program, setup, quitflag, gone, queues, thread, wild>>

label_init ==
    /\ At("pxpv4l2vision", "label_init")
    /\ \/ held' = held \cup {"labels"} /\ Well
       \/ Fails("label_init") /\ UNCHANGED held
    /\ Proceed
    /\ UNCHANGED <<program, setup, quitflag, gone, queues, thread, wild>>

worker_thread_init ==
    /\ At("pxpv4l2vision", "create")
    /\ worker' = "lock"
    /\ ai' = [has_task |-> FALSE, quit |-> FALSE]
    /\ Proceed
    /\ UNCHANGED <<program, setup, quitflag, held, gone, queues, tries, luck,
                   wild>>

Woken == IF worker = "wait" THEN "lock" ELSE worker

Give == /\ At("pxpv4l2vision", "give")
        /\ ai' = [ai EXCEPT !.has_task = TRUE]
        /\ worker' = Woken
        /\ hand' = [hand EXCEPT !.cam = NoBuffer]
        /\ pc' = "turn"
        /\ UNCHANGED <<program, setup, quitflag, held, gone, cam, out, tries,
                       luck, wild>>

(* A mutant: quit is set, nobody is told.                                    *)
TellNobody == /\ At("pxpv4l2vision", "quit")
              /\ ai' = [ai EXCEPT !.quit = TRUE]
              /\ Proceed
              /\ UNCHANGED <<program, setup, quitflag, held, gone, queues,
                             worker, tries, luck, wild>>

TellWorker == /\ At("pxpv4l2vision", "quit")
              /\ ai' = [ai EXCEPT !.quit = TRUE]
              /\ worker' = Woken
              /\ Proceed
              /\ UNCHANGED <<program, setup, quitflag, held, gone, queues,
                             tries, luck, wild>>

Join == /\ At("pxpv4l2vision", "join")
        /\ worker = "gone"
        /\ Proceed
        /\ UNCHANGED <<program, setup, quitflag, held, gone, queues, thread,
                       luck, wild>>

vision_pxp_start ==
    \/ StartStreams("pxpv4l2vision")
    \/ program = "pxpv4l2vision" /\ (Turn \/ TakeCamera \/ TakeOut
                      \/ ReturnCamera \/ ReturnOut \/ CloseStray)
    \/ Give \/ TellWorker \/ Join

(* A mutant: the task is taken and not marked as taken.                      *)
LookAgain ==
    /\ Running /\ worker = "lock"
    /\ worker' = CASE ai.quit -> "gone"
                   [] ~ai.quit /\ ai.has_task -> "run"
                   [] OTHER -> "wait"
    /\ UNCHANGED <<program, pc, setup, quitflag, held, gone, queues, ai, tries,
                   luck, wild>>

(* The worker under its lock: leave, take the task or wait.                  *)
Look == /\ Running /\ worker = "lock"
        /\ worker' = CASE ai.quit -> "gone"
                       [] ~ai.quit /\ ai.has_task -> "run"
                       [] OTHER -> "wait"
        /\ ai' = [ai EXCEPT !.has_task = @ /\ ai.quit]
        /\ UNCHANGED <<program, pc, setup, quitflag, held, gone, queues, tries,
                       luck, wild>>

(* The condition variable may wake it for nothing.                           *)
Spurious == /\ Running /\ worker = "wait"
            /\ worker' = "lock"
            /\ UNCHANGED <<program, pc, setup, quitflag, held, gone, queues, ai,
                           tries, luck, wild>>

(* A run that fails gives everything back and the caller goes on.            *)
device_pxp_run ==
    /\ Running /\ worker = "run"
    /\ IF "conf" \notin held
       THEN GoesWild("run") /\ UNCHANGED <<worker, held, gone, tries, luck>>
       ELSE /\ pxp_wait_for_completion(3,
                  worker' = "infer" /\ UNCHANGED <<held, gone, luck>>,
                  worker' = "infer" /\ GiveChannel /\ Fails("device_pxp_run"))
            /\ UNCHANGED <<pc, wild>>
    /\ UNCHANGED <<program, setup, quitflag, queues, ai>>

infer_run ==
    /\ Running /\ worker = "infer"
    /\ IF "interpreter" \in held /\ ~ {"tensors", "mem_o"} \subseteq held
       THEN GoesWild("infer") /\ UNCHANGED worker
       ELSE worker' = "queue" /\ UNCHANGED <<pc, wild>>
    /\ UNCHANGED <<program, setup, quitflag, held, gone, queues, ai, tries,
                   luck>>

Requeue ==
    /\ Running /\ worker = "queue"
    /\ \/ cam' = Qbuf(cam, V4L2_BUF_NUM) /\ worker' = "lock" /\ Well
       \/ Fails("requeue") /\ worker' = "gone" /\ UNCHANGED cam
    /\ UNCHANGED <<program, pc, setup, quitflag, held, gone, out, hand, ai,
                   tries, wild>>

device_pxp_thread == Look \/ device_pxp_run \/ infer_run \/ Requeue

(* The memory and the channel once more, unless free() comes twice.          *)
Deinit(p, step) ==
    /\ At(p, step)
    /\ IF "conf" \in gone
       THEN GoesWild("free") /\ UNCHANGED <<held, gone>>
       ELSE GiveChannel /\ Proceed /\ Tame
    /\ UNCHANGED <<program, setup, quitflag, queues, thread, luck>>

device_pxp_deinit == Deinit("pxpv4l2vision", "device_pxp_deinit")

-----------------------------------------------------------------------------
(* visionpxp: no step but opening the camera leaves when it fails.           *)

framebuffer_init(p) ==
    /\ At(p, "framebuffer_init")
    /\ \/ held' = held \cup {"fb"} /\ Proceed /\ Well
       \/ /\ Fails("framebuffer_init") /\ UNCHANGED held
          /\ IF p = "visionvideo" THEN Exits ELSE Proceed
    /\ UNCHANGED <<program, setup, quitflag, gone, queues, thread, wild>>

(* Failing buffer requests are not noticed: nothing is queued then.          *)
MmapCameraInit(p) ==
    /\ At(p, "camera_init")
    /\ \/ /\ held' = held \cup {"cam", "bufs"}
          /\ cam' = [cam EXCEPT !.queue = Numbers(V4L2_BUF_NUM)]
          /\ Proceed /\ Well
       \/ Fails("camera_init") /\ Exits /\ UNCHANGED <<held, cam>>
       \/ /\ Fails("requestbuffers") /\ held' = held \cup {"cam"}
          /\ Proceed /\ UNCHANGED cam
    /\ UNCHANGED <<program, setup, quitflag, gone, out, hand, thread, wild>>

visionpxp_camera_init == MmapCameraInit("visionpxp")

(* mem_o has the size of the screen: none without frame buffer.              *)
pxp_engine_init ==
    /\ At("visionpxp", "pxp_engine_init")
    /\ \/ "fb" \in held /\ TakeChannel /\ Well
       \/ "fb" \notin held /\ UNCHANGED held /\ Well
       \/ Fails("pxp_engine_init") /\ UNCHANGED held
    /\ Proceed
    /\ UNCHANGED <<program, setup, quitflag, gone, queues, thread, wild>>

visionpxp_camera_enable ==
    /\ At("visionpxp", "camera_enable")
    /\ camera_enable /\ Proceed
    /\ UNCHANGED <<program, setup, quitflag, held, gone, out, hand, thread,
                   wild>>

(* Copy the frame in, convert; then copy_image_to_fb reads mem_o.            *)
pxp_run ==
    /\ At("visionpxp", "pxp_run")
    /\ IF ~ {"mem", "conf", "bufs"} \subseteq held
       THEN GoesWild("run") /\ UNCHANGED <<held, gone, tries, luck, worker>>
       ELSE /\ pxp_wait_for_completion(3,
                  pc' = "copy" /\ UNCHANGED <<held, gone, luck, worker>>,
                  pc' = "copy" /\ GiveChannel /\ Fails("pxp_run")
                               /\ UNCHANGED worker)
            /\ Tame
    /\ UNCHANGED <<program, setup, quitflag, queues, ai>>

copy_image_to_fb ==
    /\ At("visionpxp", "copy")
    /\ IF "mem_o" \in held THEN pc' = "qcam" /\ Tame ELSE GoesWild("copy")
    /\ UNCHANGED <<program, setup, quitflag, held, gone, queues, thread, luck>>

camera_disable ==
    /\ At("visionpxp", "camera_disable")
    /\ cam' = StreamOff(cam)
    /\ held' = held \ {"cam", "fb"}
    /\ Proceed
    /\ UNCHANGED <<program, setup, quitflag, gone, out, hand, thread, luck,
                   wild>>

pxp_deinit == Deinit("visionpxp", "pxp_deinit")

(* yuyv_to_xrgb8888: the place <<x, row>> of each pair of pixels.  The row   *)
(* is changed after the first pair of the next row.                          *)
(* ChangesEarly is a mutant: the row changes at its last pair, to x = 1.     *)
ChangesEarly(n, width) == n % width = width - 2
Changes(n, width) == n > 0 /\ n % width = 0

yuyv_to_xrgb8888(width, height) ==
    LET place[n \in 0 .. width * height - 1] ==
          IF n = 0 THEN <<0, 0>>
          ELSE IF Changes(n - 1, width) THEN <<0, place[n - 1][2] + 1>>
          ELSE <<place[n - 1][1] + 1, place[n - 1][2]>>
    IN  [i \in 1 .. width * height |-> place[i - 1]]

(* visionvideo never starts the stream: QBUF and DQBUF fail, buf.index       *)
(* stays 0 and the memory of buffer 0 is drawn, filled or not.               *)
visionvideo_turn ==
    /\ At("visionvideo", "turn")
    /\ hand' = [hand EXCEPT !.cam = 0]
    /\ IF "bufs" \in held
       THEN picture' = yuyv_to_xrgb8888(Pairs, Rows) /\ UNCHANGED <<pc, wild>>
       ELSE GoesWild("draw") /\ UNCHANGED picture
    /\ UNCHANGED <<program, settings, crop, quitflag, held, gone, cam, out,
                   thread, luck>>

-----------------------------------------------------------------------------
CameraInitial ==
    /\ program \in Programs
    /\ pc = Plan[1]
    /\ settings = Default /\ crop = NoWindow
    /\ quitflag = FALSE
    /\ held = {} /\ gone = {}
    /\ cam = Stopped /\ out = Stopped
    /\ hand = [cam |-> NoBuffer, out |-> NoBuffer]
    /\ ai = [has_task |-> FALSE, quit |-> FALSE]
    /\ worker = "none" /\ tries = 0
    /\ failed = {} /\ failures = 0 /\ wild = {} /\ picture = <<>>

Main == \/ pxp_init \/ video_pxp_init
        \/ \E p \in Both : VideoNext(p)
        \/ camera_init \/ vision_camera_init
        \/ pxp_start \/ vision_pxp_start
        \/ device_pxp_init \/ model_init \/ label_init
        \/ worker_thread_init
        \/ device_pxp_deinit
        \/ \E p \in {"visionpxp", "visionvideo"} : framebuffer_init(p)
        \/ visionpxp_camera_init \/ pxp_engine_init \/ visionpxp_camera_enable
        \/ signal("visionpxp")
        \/ program = "visionpxp" /\ (Turn \/ TakeCamera \/ ReturnCamera)
        \/ pxp_run \/ copy_image_to_fb \/ camera_disable \/ pxp_deinit
        \/ MmapCameraInit("visionvideo") \/ visionvideo_turn

CameraNext == Main \/ device_pxp_thread \/ Spurious \/ signal_thread
              \/ Fill \/ Show

CameraSpec == CameraInitial /\ [][CameraNext]_cvars

(* Threads run, the camera delivers and the PxP finishes.                    *)
FairCameraSpec == /\ CameraSpec
                  /\ WF_cvars(Main) /\ WF_cvars(device_pxp_thread)
                  /\ WF_cvars(Fill) /\ WF_cvars(Show)

-----------------------------------------------------------------------------
(* Properties.                                                               *)

(* Every variable keeps its type: queues never hold a buffer that does not   *)
(* exist, the thread is at one of its steps.                                 *)
CameraTypeOK ==
    /\ program \in Programs
    /\ pc \in ToSet(Plan) \cup {"dqcam", "dqout", "qcam", "qout", "give",
                               "pxp_run", "copy", "exit", "wild"}
    /\ \A q \in {cam, out} : /\ q.on \in BOOLEAN
                             /\ ToSet(q.queue) \cup ToSet(q.done) \subseteq Buffers
    /\ {hand.cam, hand.out} \subseteq Buffers \cup {NoBuffer}
    /\ worker \in {"none", "lock", "wait", "run", "infer", "queue", "gone"}
    /\ tries \in 0 .. 2 /\ failures \in 0 .. MaxFailures
    /\ held \cap gone = {}

(* pxp_start dequeues one buffer of each queue and returns both as if they   *)
(* were the same memory: they are, in every pass, whatever the drivers and   *)
(* the worker do in between.                                                 *)
FramesGoInStep ==
    hand.cam # NoBuffer /\ hand.out # NoBuffer => hand.cam = hand.out

(* A buffer of the camera is in one place: queued, filled, in the hand of    *)
(* the main thread, or with the worker, which has one task at a time.        *)
Times(s, b) == Cardinality({i \in DOMAIN s : s[i] = b})
One(p) == IF p THEN 1 ELSE 0

BuffersHaveOnePlace ==
    cam.on => \A b \in ToSet(cam.queue) \cup ToSet(cam.done)
                        \cup ({hand.cam} \ {NoBuffer})
                        \cup (IF worker = "none" THEN {} ELSE {V4L2_BUF_NUM}) :
        Times(cam.queue, b) + Times(cam.done, b) + One(hand.cam = b)
          + One(b = V4L2_BUF_NUM /\ ai.has_task)
          + One(b = V4L2_BUF_NUM /\ worker \in {"run", "infer", "queue"})
        = IF b = V4L2_BUF_NUM /\ "requeue" \in failed THEN 0 ELSE 1

(* Nothing is used that was not taken or is already given back, the memory   *)
(* under the camera included, but after the failures the code does not       *)
(* handle: of a PxP run, of the engine, the screen, the camera buffers or    *)
(* the model.                                                                *)
Unhandled == {"device_pxp_run", "pxp_run", "pxp_engine_init",
              "framebuffer_init", "requestbuffers", "model_init"}

OnlyUnhandledIsWild == wild # {} => failed \cap Unhandled # {}

(* The window for a picture turned by 90 or 270 degrees is at most as wide   *)
(* as the screen is high and as high as it is wide, on a landscape screen.   *)
TurnedWindowFits ==
    crop.corner = "origin" /\ settings.rotate_pass
      /\ settings.sh <= settings.sw
    => crop.width <= settings.sh /\ crop.height <= settings.sw

(* visionvideo's conversion draws no pair over another, and none further     *)
(* than one pair before its place in reading order.                          *)
PairsKeepTheirPlaces ==
    /\ IsInjective(picture)
    /\ \A n \in DOMAIN picture :
         picture[n][2] * Pairs + picture[n][1] \in {n - 1, n - 2}

(* A frame comes out of the queues it went into, in the window that is there *)
(* for it and with its pairs where they belong.                              *)
FramesGoRound ==
    /\ CameraTypeOK /\ FramesGoInStep /\ BuffersHaveOnePlace
    /\ TurnedWindowFits /\ PairsKeepTheirPlaces

(* Ctrl-C ends the program: neither queue nor the worker can keep main()     *)
(* from the test of quitflag and from the join.                              *)
QuitIsHeeded == quitflag ~> ~Running
=============================================================================
