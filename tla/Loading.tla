------------------------------- MODULE Loading -------------------------------
(***************************************************************************)
(* What every module of the repository acquires when it is loaded or bound *)
(* to its device, in which order, what it gives back when a step fails,    *)
(* and what it gives back when it goes.  Each init or cleanup function is  *)
(* a sequence of steps over named resources; one machine carries them out. *)
(***************************************************************************)
EXTENDS Naturals, Sequences

CONSTANTS
    Drivers,        \* the modules to load, of Names
    MaxLoads        \* bound on the loads of one behaviour

(* The steps.  Get cannot fail; Must ends the load after undoing what it   *)
(* names; Opt goes on without; Blind fails unseen and is used all the same *)
(* Given is skipped without another resource; Uses touches one.  A step    *)
(* without such a condition is given "always".                             *)
Step(op, r, undo, given) == [op |-> op, res |-> r, undo |-> undo, given |-> given]
Get(r)         == Step("get", r, <<>>, "always")
Must(r, undo)  == Step("must", r, undo, "always")
Opt(r)         == Step("opt", r, <<>>, "always")
Blind(r)       == Step("blind", r, <<>>, "always")
Given(g, step) == [step EXCEPT !.given = g]
Drop(r)        == Step("drop", r, <<>>, "always")
DropIf(r, g)   == Given(g, Drop(r))
Uses(r)        == Step("uses", r, <<>>, "always")
-----------------------------------------------------------------------------
(* scull with its friend devices.  access.c remembers the result of the    *)
(* registration as its first number, so that what it gives back later is   *)
(* not its region.                                                         *)
scull_p_cleanup      == <<DropIf("p_cdevs", "p_devices"), DropIf("p_devices", "p_devices"),
                          DropIf("p_region", "p_region")>>
scull_access_cleanup == <<Drop("a_cdevs")>>
scull_cleanup_module ==
    <<DropIf("cdevs", "devices"), DropIf("devices", "devices"), Drop("region")>>
        \o scull_p_cleanup \o scull_access_cleanup

scull_p_init      == <<Opt("p_region"),
                       Given("p_region", Step("opt", "p_devices", <<Drop("p_region")>>, "always")),
                       Given("p_devices", Get("p_cdevs"))>>
scull_access_init == <<Opt("a_region"), Given("a_region", Get("a_cdevs"))>>
scull_init_module ==
    <<Must("region", <<>>), Must("devices", scull_cleanup_module), Get("sem"), Get("cdevs")>>
        \o scull_p_init \o scull_access_init

(* Mutants: the region is kept; what is not there is given back; the       *)
(* devices can be opened before they are there.                            *)
scullp_cleanup_kept == <<DropIf("cdevs", "devices"), DropIf("devices", "devices")>>
scullp_cleanup_blind == <<Drop("cdevs"), Drop("devices"), Drop("region")>>
scullp_cleanup_module == Append(scullp_cleanup_kept, Drop("region"))
scullp_init_early == <<Must("region", <<>>), Get("cdevs"), Get("sem"),
                       Must("devices", scullp_cleanup_module)>>
scullp_init_module == <<Must("region", <<>>), Must("devices", scullp_cleanup_module),
                        Get("sem"), Get("cdevs")>>

scullv_cleanup_module == scullp_cleanup_module
scullv_init_module    == scullp_init_module

(* scullc creates its cache when its devices can be opened already.        *)
scullc_cleanup_module == <<DropIf("cdevs", "devices"), DropIf("devices", "devices"),
                           DropIf("cache", "cache"), Drop("region")>>
scullc_init_module == <<Must("region", <<>>), Must("devices", scullc_cleanup_module),
                        Get("sem"), Get("cdevs"), Must("cache", scullc_cleanup_module)>>

(* sculld and its bus.                                                     *)
sculld_cleanup == <<Drop("lddevs"), Drop("cdevs"), Drop("devices"), Drop("driver"),
                    Drop("region")>>
sculld_init    == <<Must("region", <<>>), Opt("driver"), Must("devices", <<Drop("region")>>),
                    Get("sem"), Get("cdevs"), Opt("lddevs")>>
ldd_bus_exit == <<Drop("ldd0"), DropIf("busfile", "busfile"), Drop("bus")>>
ldd_bus_init == <<Must("bus", <<>>), Opt("busfile"), Must("ldd0", <<>>)>>
-----------------------------------------------------------------------------
(* short and shortprint.  Without its number, short gives back I/O ports   *)
(* even when it asked for I/O memory.                                      *)
short_cleanup(mem) ==
    <<DropIf("irq", "irq"), Drop("chrdev")>>
        \o (IF mem THEN <<Drop("ioremap"), Drop("iomem")>> ELSE <<Drop("ports")>>)
        \o <<DropIf("page", "page")>>
short_init(mem) ==
    (IF mem THEN <<Must("iomem", <<>>), Get("ioremap")>> ELSE <<Must("ports", <<>>)>>)
        \o <<Must("chrdev", <<DropIf("ports", "ports")>>), Opt("page"), Opt("irq")>>

shortp_cleanup == <<DropIf("irq", "irq"), Drop("chrdev"), Drop("ports"), Drop("workqueue"),
                    DropIf("in_page", "in_page"), DropIf("out_page", "out_page")>>
shortp_init == <<Must("ports", <<>>), Must("chrdev", <<Drop("ports")>>), Opt("in_page"),
                 Opt("out_page"), Get("sem"), Opt("workqueue"), Must("irq", shortp_cleanup)>>
-----------------------------------------------------------------------------
(* The modules that register a driver and are bound to a device.           *)
skel_init == <<Must("driver", <<>>)>>
skel_exit == <<Drop("driver")>>
pci_skel_init == <<Must("driver", <<>>)>>
pci_skel_exit == <<Drop("driver")>>
pci_probe  == <<Get("enabled")>>
pci_remove == <<>>

of_chrdrv_init == <<Must("region", <<>>), Blind("devices"), Get("sem"), Get("cdevs"),
                    Opt("class"), Opt("device")>>
of_chrdrv_exit == <<Drop("device"), Drop("class"), Drop("cdevs"), Drop("region"),
                    Drop("devices")>>

(* The SSD1309 as a character device: its structure is allocated when the  *)
(* module is loaded and freed when the device is unbound.                  *)
oled_init   == <<Blind("devices"), Must("driver", <<>>)>>
oled_exit   == <<Drop("driver")>>
oled_probe  == <<Uses("devices"), Must("region", <<Drop("region")>>), Get("sem"), Get("cdevs"),
                 Opt("class"), Opt("device"), Opt("proc")>>
oled_remove == <<Drop("device"), Drop("class"), Drop("cdevs"), Drop("region"),
                 Drop("devices"), DropIf("proc", "proc")>>

(* The SSD1309 as a frame buffer: the steps of its error path in a row.    *)
fb_undo(n) == SubSeq(<<Drop("fbreg"), DropIf("regulator", "regulator"), Drop("defio"),
                       Drop("fb")>>, n, 4)
ssd1309fb_probe == <<Must("fb", <<>>), Must("gpio", fb_undo(4)), Must("vmem", fb_undo(4)),
                     Must("defio_mem", fb_undo(4)), Get("defio"),
                     Must("regulator", fb_undo(3)), Must("panel", fb_undo(2)),
                     Must("fbreg", fb_undo(2)), Must("backlight", fb_undo(1))>>
ssd1309fb_remove == <<Drop("backlight"), Drop("fbreg"), Drop("defio"), Drop("vmem"), Drop("fb")>>
-----------------------------------------------------------------------------
(* misc-modules.                                                           *)
sleepy_init   == <<Must("chrdev", <<>>)>>
sleepy_exit   == <<Drop("chrdev")>>
complete_init == <<Must("chrdev", <<>>)>>
complete_exit == <<Drop("chrdev")>>
faulty_init   == <<Must("chrdev", <<>>)>>
faulty_exit   == <<Drop("chrdev")>>
jiq_init      == <<Opt("proc"), Opt("proc2"), Opt("proc3"), Opt("proc4")>>
jiq_exit      == <<Drop("proc"), Drop("proc2"), Drop("proc3"), Drop("proc4")>>
jit_init      == jiq_init           \* and four more of the same kind
jit_exit      == jiq_exit
seq_module_init == <<Opt("proc")>>
seq_module_exit == <<Drop("proc")>>

(* Per module: loaded, bound to a device, unbound, unloaded.               *)
Life(in, probe, remove, exit) == [in |-> in, probe |-> probe, remove |-> remove, exit |-> exit]
Plain(in, exit) == Life(in, <<>>, <<>>, exit)

Plans == [scull |-> Plain(scull_init_module, scull_cleanup_module),
          scullp |-> Plain(scullp_init_module, scullp_cleanup_module),
          scullv |-> Plain(scullv_init_module, scullv_cleanup_module),
          scullc |-> Plain(scullc_init_module, scullc_cleanup_module),
          sculld |-> Plain(sculld_init, sculld_cleanup),
          lddbus |-> Plain(ldd_bus_init, ldd_bus_exit),
          short |-> Plain(short_init(FALSE), short_cleanup(FALSE)),
          short_mem |-> Plain(short_init(TRUE), short_cleanup(TRUE)),
          shortprint |-> Plain(shortp_init, shortp_cleanup),
          usb |-> Plain(skel_init, skel_exit),
          pci |-> Life(pci_skel_init, pci_probe, pci_remove, pci_skel_exit),
          ofdev |-> Plain(of_chrdrv_init, of_chrdrv_exit),
          spioled |-> Life(oled_init, oled_probe, oled_remove, oled_exit),
          ssd1309fb |-> Life(<<>>, ssd1309fb_probe, ssd1309fb_remove, <<>>),
          sleepy |-> Plain(sleepy_init, sleepy_exit),
          complete |-> Plain(complete_init, complete_exit),
          faulty |-> Plain(faulty_init, faulty_exit),
          jiq |-> Plain(jiq_init, jiq_exit), jit |-> Plain(jit_init, jit_exit),
          seq |-> Plain(seq_module_init, seq_module_exit)]
Names == DOMAIN Plans

ASSUME LoadingAssumption == Drivers \subseteq Names /\ MaxLoads \in Nat
-----------------------------------------------------------------------------
VARIABLES
    driver,     \* the module this behaviour is about
    phase,      \* "out" or "in", or what is under way
    bound,      \* it is bound to its device
    todo,       \* the steps still to carry out
    held,       \* the resources held
    wild,       \* those given back or used without being held
    users,      \* a process has a device of it open
    loads

lvars == <<driver, phase, bound, todo, held, wild, users, loads>>

Inert     == {"sem", "gpio", "defio_mem", "panel"}   \* nothing to give back
Exclusive == {"region", "p_region", "a_region", "driver", "bus", "ports", "iomem", "chrdev"}
Node      == {"cdevs", "chrdev", "p_cdevs", "a_cdevs"} \* what makes a device reachable

LoadingTypeOK ==
    /\ driver \in Drivers /\ users \in BOOLEAN /\ loads \in 0 .. MaxLoads
    /\ phase \in {"out", "loading", "in", "binding", "unbinding", "undoing", "unwinding", "leaving"}
    /\ bound \in BOOLEAN
    /\ (phase \in {"out", "in"} => todo = <<>>)
    /\ Inert \cap wild = {}

LoadingInit ==
    /\ driver \in Drivers /\ phase = "out" /\ bound = FALSE /\ todo = <<>> /\ held = {} /\ wild = {}
    /\ users = FALSE /\ loads = 0

Begin(from, to, steps) == /\ phase = from /\ phase' = to /\ todo' = steps
                          /\ UNCHANGED <<driver, bound, held, wild, users>>

Load   == /\ loads < MaxLoads /\ loads' = loads + 1
          /\ Begin("out", "loading", Plans[driver].in)
Bind   == /\ ~bound /\ Plans[driver].probe # <<>>
          /\ Begin("in", "binding", Plans[driver].probe) /\ UNCHANGED loads
Unbind == /\ bound /\ ~users
          /\ Begin("in", "unbinding", Plans[driver].remove) /\ UNCHANGED loads
Unload == /\ ~users /\ UNCHANGED loads
          /\ Begin("in", "leaving", (IF bound THEN Plans[driver].remove ELSE <<>>)
                                        \o Plans[driver].exit)

(* A process opens a device as soon as it is reachable; the module cannot  *)
(* leave, but a load that fails does not ask.                              *)
OpenDriver  == /\ ~users /\ phase \in {"loading", "binding", "in"} /\ held \cap Node # {} /\ users' = TRUE
         /\ UNCHANGED <<driver, phase, bound, todo, held, wild, loads>>
Close == /\ users /\ users' = FALSE /\ UNCHANGED <<driver, phase, bound, todo, held, wild, loads>>

Now       == Head(todo)
Skipped   == Now.given # "always" /\ Now.given \notin held
Available == Now.res \in Exclusive => Now.res \notin held

Proceed == /\ todo # <<>> /\ UNCHANGED <<driver, bound, users, loads>>
Advance == todo' = Tail(todo) /\ UNCHANGED phase

Skip    == Proceed /\ Skipped /\ Advance /\ UNCHANGED <<held, wild>>
Acquire == /\ Proceed /\ ~Skipped /\ Now.op \in {"get", "must", "opt", "blind"} /\ Available
           /\ Advance /\ held' = held \cup {Now.res} /\ UNCHANGED wild
GoOn    == /\ Proceed /\ ~Skipped /\ Now.op = "opt" /\ todo' = Now.undo \o Tail(todo)
           /\ UNCHANGED <<phase, held, wild>>
Oops    == /\ Proceed /\ ~Skipped /\ Now.op = "blind" /\ Advance
           /\ wild' = wild \cup {Now.res} /\ UNCHANGED held
Fail    == /\ Proceed /\ ~Skipped /\ Now.op = "must"
           /\ phase' = IF phase = "loading" THEN "undoing" ELSE "unwinding"
           /\ todo' = Now.undo /\ UNCHANGED <<held, wild>>
GiveBack == /\ Proceed /\ ~Skipped /\ Now.op = "drop" /\ Advance
            /\ held' = held \ {Now.res}
            /\ wild' = IF Now.res \in held \cup Exclusive THEN wild ELSE wild \cup {Now.res}
Touch   == /\ Proceed /\ ~Skipped /\ Now.op = "uses" /\ Advance
           /\ wild' = IF Now.res \in held THEN wild ELSE wild \cup {Now.res}
           /\ UNCHANGED held

End == /\ todo = <<>> /\ phase \notin {"out", "in"}
       /\ phase' = IF phase \in {"undoing", "leaving"} THEN "out" ELSE "in"
       /\ bound' = (phase = "binding")
       /\ held' = IF phase' = "out" THEN held \ Inert ELSE held
       /\ UNCHANGED <<driver, todo, wild, users, loads>>

LoadingNext == \/ Load \/ Bind \/ Unbind \/ Unload \/ OpenDriver \/ Close
               \/ Skip \/ Acquire \/ GoOn \/ Oops \/ Fail \/ GiveBack \/ Touch \/ End

LoadingSpec == LoadingInit /\ [][LoadingNext]_lvars
-----------------------------------------------------------------------------
(* What is known to stay behind when a module is out again.                *)
Leftovers == [scull |-> {"a_region"}, sculld |-> {"driver", "lddevs"},
              lddbus |-> {"bus", "busfile"}, short_mem |-> {"iomem", "ioremap"},
              spioled |-> {"devices"}, pci |-> {"enabled"},
              ssd1309fb |-> {"vmem", "regulator"}]

(* A module that is out, because it was unloaded or because a step of its  *)
(* load failed, wherever that was and after any earlier load, holds        *)
(* nothing; or nothing but what is listed.                                 *)
NothingElseStays ==
    phase = "out" => held \subseteq IF driver \in DOMAIN Leftovers THEN Leftovers[driver] ELSE {}

(* In the modules that check what they have before they give it back, a    *)
(* cleanup meets only what was set up, wherever the load failed.           *)
Careful == {"scullp", "scullv", "scullc", "short", "short_mem", "lddbus", "usb", "pci",
            "sleepy", "complete", "faulty"}
CleanupMeetsWhatItUndoes == driver \in Careful => wild = {}

(* A device that a process has open has its structure and its semaphore,   *)
(* and was not withdrawn under it by a load that failed; but in scullc and *)
(* shortprint, which can fail after their devices are reachable.           *)
OpenedIsReady ==
    (users /\ driver \in {"scull", "scullp", "scullv", "sculld"}) =>
        {"devices", "sem", "cdevs"} \subseteq held /\ phase # "undoing"

(* A load is undone wherever it fails, an unload wherever it comes.        *)
LoadsAreUndone ==
    LoadingTypeOK /\ NothingElseStays /\ CleanupMeetsWhatItUndoes /\ OpenedIsReady

(* The comment of the cleanup functions: that they work correctly even if  *)
(* some of the items have not been initialized.                            *)
CleanupWorksWithoutItems == wild = {}
=============================================================================
