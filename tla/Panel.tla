-------------------------------- MODULE Panel --------------------------------
(***************************************************************************)
(* The SSD1309 display and the three ways the repository drives it: the    *)
(* character device spi_device_model/spimodeldrv.c, the frame buffer       *)
(* spi_fbdev/spifbdev.c and the program spi_app_layer/spioled1.c.  The     *)
(* controller takes a byte for a command or for data by the level of one   *)
(* pin.  A call is a sequence of small steps, and a process carries out    *)
(* one step at a time.                                                     *)
(***************************************************************************)
EXTENDS Integers, Sequences, FiniteSets

CONSTANTS
    Proc,
    Styles,         \* of "oled", "fb" and "spidev": the driver of a behaviour
    Pages, Columns, \* of the display: 8 and 128; Columns a multiple of 8
    Pictures,       \* what is drawn: sets of pixels <<x, y>>
    MaxFaults       \* bound on the SPI transfers that fail

(* What is sent is an image, so that a picture is a set of its pixels: an  *)
(* upright one of 8 * Pages by Columns, or the memory of the frame buffer. *)
(* What the library draws beside the image is a matter of Paint.           *)
ASSUME PanelAssumption ==
    /\ Pages \in Nat \ {0} /\ Columns \in Nat \ {0} /\ Columns % 8 = 0
    /\ Styles \subseteq {"oled", "fb", "spidev"} /\ MaxFaults \in Nat
    /\ Styles \cap {"oled", "spidev"} # {} =>
          \A pic \in Pictures : pic \subseteq (0 .. 8 * Pages - 1) \X (0 .. Columns - 1)
    /\ "fb" \in Styles =>
          \A pic \in Pictures : pic \subseteq (0 .. Columns - 1) \X (0 .. 8 * Pages - 1)

Spots == (0 .. Pages - 1) \X (0 .. Columns - 1) \X (0 .. 7)   \* page, column, bit

VARIABLES
    style, steps,       \* per process: the steps of its call still to do
    sem,                \* the process that holds the semaphore, or none of them
    opened,             \* processes that have the device open
    vmem, array,        \* memory of the frame buffer, and copies of it to be sent
    pin, ptr, panelOn,  \* of the controller: D/C, the page it is at, display on
    waits,              \* it waits for the parameter of a command
    shown,              \* the cells of the display that are lit
    want, whole,        \* what the last write drew, and whether it was all sent
    faults, missed,     \* transfers that failed; a release gave up on a signal
    garbled, overlap    \* a byte was taken for what it is not; two calls overlapped

calls  == <<steps, sem, opened, array>>
oled   == <<pin, ptr, panelOn, waits, shown, garbled>>
ghosts == <<want, whole, faults, missed, overlap>>
dvars  == <<style, calls, vmem, oled, ghosts>>

(* Steps: a name and the set of cells or bits it is about.                 *)
M(do, bits) == [do |-> do, bits |-> bits]
Cmd(c) == M(c, {})

PanelTypeOK ==
    /\ style \in Styles /\ sem \in SUBSET Proc /\ Cardinality(sem) <= 1
    /\ opened \subseteq Proc /\ pin \in {0, 1} /\ ptr \in 0 .. Pages - 1
    /\ panelOn \in BOOLEAN /\ waits \in BOOLEAN /\ shown \subseteq Spots
    /\ whole \in BOOLEAN /\ faults \in 0 .. MaxFaults
    /\ garbled \in BOOLEAN /\ overlap \in BOOLEAN /\ missed \in BOOLEAN

PanelInit ==
    /\ style \in Styles
    /\ steps = [p \in Proc |-> <<>>] /\ sem = {} /\ opened = {}
    /\ vmem = {} /\ array = [p \in Proc |-> {}]
    /\ pin = 0 /\ ptr = 0 /\ panelOn = FALSE /\ waits = FALSE /\ shown = {}
    /\ want = {} /\ whole = FALSE /\ faults = 0 /\ missed = FALSE
    /\ garbled = FALSE /\ overlap = FALSE
-----------------------------------------------------------------------------
(* How pixels become bits of memory, and bits of memory cells of the       *)
(* display.  Bits are <<byte, bit>>.  The image of the character device is *)
(* drawn upright, Columns high; that of the frame buffer lies.             *)
Paint_bits(pic) == {<<q[1] \div 8 + q[2] * Pages, 7 - (q[1] % 8)>> : q \in pic}
set_pixel(pic)  == {<<q[2] * (Columns \div 8) + q[1] \div 8, 7 - (q[1] % 8)>> : q \in pic}

(* Mutant: the pages in the order of the image.                            *)
PageUpright(buf, page) ==
    {y \in (0 .. Columns - 1) \X (0 .. 7) : <<page + y[1] * Pages, y[2]>> \in buf}

PageOf(buf, page) ==
    {y \in (0 .. Columns - 1) \X (0 .. 7) : <<(Pages - 1 - page) + y[1] * Pages, y[2]>> \in buf}

Transpose(mem) ==
    {x \in Spots :
        <<Columns * x[1] + (Columns * x[3] + x[2]) \div 8, 7 - (x[2] % 8)>> \in mem}
-----------------------------------------------------------------------------
(* The messages of the character device.  One of data carries 128 bytes,   *)
(* a page, whatever length it is given.                                    *)
spi_oled_send_command(c)  == <<Cmd("low"), Cmd(c), Cmd("high")>>
spi_oled_send_commands    == <<Cmd("low"), Cmd("init"), Cmd("high")>>
spi_oled_send_datas(bits) == <<Cmd("high"), M("page", bits)>>
spi_oled_fill             == spi_oled_send_datas({})
spi_oled_init == <<Cmd("reset")>> \o spi_oled_send_commands
                    \o spi_oled_send_command("on") \o spi_oled_fill
spi_oled_display_buffer(buf) ==
    [n \in 1 .. 2 * Pages |->
        spi_oled_send_datas(PageOf(buf, (n - 1) \div 2))[1 + ((n - 1) % 2)]]

(* Mutant: a write that takes no semaphore.                                *)
WriteUnlocked(pic) == <<M("draw", pic)>> \o spi_oled_display_buffer(Paint_bits(pic))
                          \o <<Cmd("drawn")>>

oled_open       == <<Cmd("down")>> \o spi_oled_init \o <<Cmd("up")>>
oled_write(pic) == <<Cmd("down"), M("draw", pic)>> \o spi_oled_display_buffer(Paint_bits(pic))
                       \o <<Cmd("drawn"), Cmd("up")>>
(* Mutant: the display is switched on again.                               *)
ReleaseLit      == <<Cmd("down")>> \o spi_oled_send_command("on") \o <<Cmd("up")>>
oled_release    == <<Cmd("down")>> \o spi_oled_send_command("off") \o <<Cmd("up")>>

(* The program sends byte by byte, and fills the whole display.            *)
oled_sig_cmd(c) == <<Cmd("low"), Cmd(c)>>
oled_init_reg   == <<Cmd("low"), Cmd("init"), Cmd("high")>>
oled_init       == <<Cmd("reset")>> \o oled_init_reg \o oled_sig_cmd("on")
oled_fill(bits) == [n \in 1 .. 2 * Pages |-> spi_oled_send_datas(bits)[1 + ((n - 1) % 2)]]
oled_display(buf) == spi_oled_display_buffer(buf)
spioled1_main(pic) ==
    oled_init \o oled_fill((0 .. Columns - 1) \X (0 .. 7)) \o oled_fill({})
        \o <<M("draw", pic)>> \o oled_display(Paint_bits(pic)) \o <<Cmd("drawn")>>

(* The messages of the frame buffer: nothing serialises them.              *)
ssd1309fb_write_cmd(c) == <<Cmd("low"), Cmd(c)>>
ssd1309fb_update_display == <<Cmd("snap"), Cmd("high"), Cmd("screen")>>
ssd1309fb_fill == <<Cmd("high"), M("fill", Spots)>>
ssd1309fb_write(pic) == <<M("copy", set_pixel(pic))>> \o ssd1309fb_update_display
ssd1309fb_blank(c)   == ssd1309fb_write_cmd(c)
(* Mutant: the value goes as data.                                         *)
UpdateBlData         == ssd1309fb_write_cmd("contrast") \o <<Cmd("high"), Cmd("value")>>
ssd1309fb_update_bl  == ssd1309fb_write_cmd("contrast") \o ssd1309fb_write_cmd("value")
ssd1309fb_init == <<Cmd("low"), Cmd("init")>> \o ssd1309fb_update_display
                    \o ssd1309fb_write_cmd("on") \o ssd1309fb_fill
spi_ssd1309fb_probe == <<Cmd("reset")>> \o ssd1309fb_init \o <<Cmd("register")>>
-----------------------------------------------------------------------------
(* A call begins.                                                          *)
Starts(p, s) == /\ steps[p] = <<>> /\ steps' = [steps EXCEPT ![p] = s]
               /\ overlap' = (overlap \/ \E q \in Proc : steps[q] # <<>>)
               /\ UNCHANGED <<style, sem, array, vmem, oled, want, whole, faults, missed>>

OpenOled(p)    == /\ style = "oled" /\ p \notin opened /\ Starts(p, oled_open)
                  /\ opened' = opened \cup {p}
WriteOled(p)   == /\ style = "oled" /\ p \in opened /\ UNCHANGED opened
                  /\ \E pic \in Pictures : Starts(p, oled_write(pic))
ReleaseOled(p) == /\ style = "oled" /\ p \in opened /\ Starts(p, oled_release)
                  /\ opened' = opened \ {p}

Program(p) == /\ style = "spidev" /\ opened = {} /\ opened' = {p}
              /\ \E pic \in Pictures : Starts(p, spioled1_main(pic))

(* The frame buffer is registered once its panel is set up.                *)
ProbeFb(p) == /\ style = "fb" /\ opened = {} /\ \A q \in Proc : steps[q] = <<>>
              /\ Starts(p, spi_ssd1309fb_probe) /\ UNCHANGED opened
CallFb(p)  == /\ style = "fb" /\ opened # {} /\ UNCHANGED opened
              /\ \/ \E pic \in Pictures : Starts(p, ssd1309fb_write(pic))
                 \/ \E c \in {"on", "off"} : Starts(p, ssd1309fb_blank(c))
                 \/ Starts(p, ssd1309fb_update_bl)
                 \/ Starts(p, ssd1309fb_update_display)    \* deferred_io
-----------------------------------------------------------------------------
(* One step of a call.                                                     *)
Do(p)      == Head(steps[p]).do
Bits(p)    == Head(steps[p]).bits
StepsOn(p) == /\ steps[p] # <<>> /\ steps' = [steps EXCEPT ![p] = Tail(@)]
              /\ UNCHANGED <<style, opened, overlap>>
Register(p) == /\ steps[p] # <<>> /\ Do(p) = "register" /\ opened' = Proc
               /\ steps' = [steps EXCEPT ![p] = <<>>]
               /\ UNCHANGED <<style, overlap, sem, array, vmem, oled, want, whole, faults, missed>>

Down(p)   == /\ StepsOn(p) /\ Do(p) = "down" /\ sem = {} /\ sem' = {p}
             /\ UNCHANGED <<array, vmem, oled, want, whole, faults, missed>>
(* down_interruptible() gives up on a signal, and with it the call.        *)
Signalled(p) == /\ steps[p] # <<>> /\ Do(p) = "down" /\ steps' = [steps EXCEPT ![p] = <<>>]
                /\ missed' = TRUE
                /\ UNCHANGED <<style, opened, overlap, sem, array, vmem, oled, want, whole, faults>>
Up(p)     == /\ StepsOn(p) /\ Do(p) = "up" /\ sem' = {}
             /\ UNCHANGED <<array, vmem, oled, want, whole, faults, missed>>
Draw(p)   == /\ StepsOn(p)
             /\ \/ Do(p) = "draw" /\ want' = Bits(p) /\ whole' = FALSE
                \/ Do(p) = "drawn" /\ whole' = TRUE /\ UNCHANGED want
             /\ UNCHANGED <<sem, array, vmem, oled, faults, missed>>
Pin(p)    == /\ StepsOn(p) /\ Do(p) \in {"low", "high"}
             /\ pin' = IF Do(p) = "low" THEN 0 ELSE 1
             /\ UNCHANGED <<sem, array, vmem, ptr, panelOn, waits, shown, garbled,
                            want, whole, faults, missed>>
Reset(p)  == /\ StepsOn(p) /\ Do(p) = "reset"
             /\ ptr' = 0 /\ panelOn' = FALSE /\ waits' = FALSE /\ whole' = FALSE
             /\ UNCHANGED <<sem, array, vmem, pin, shown, garbled, want, faults, missed>>

(* A command: with the pin up its bytes land in the display memory, and a  *)
(* controller that waits for a parameter takes it for one.                 *)
Command(p) == /\ StepsOn(p) /\ Do(p) \in {"init", "on", "off", "contrast", "value"}
              /\ garbled' = (garbled \/ pin = 1 \/ waits # (Do(p) = "value"))
              /\ waits' = (Do(p) = "contrast")
              /\ panelOn' = IF Do(p) \in {"on", "off"} THEN Do(p) = "on" ELSE panelOn
              /\ UNCHANGED <<sem, array, vmem, pin, ptr, shown, want, whole, faults, missed>>

(* Data: a page of it at the pointer, or the display from the pointer on.  *)
Page(p)   == /\ StepsOn(p) /\ Do(p) = "page"
             /\ garbled' = (garbled \/ pin = 0)
             /\ shown' = {x \in shown : x[1] # ptr} \cup {<<ptr, y[1], y[2]>> : y \in Bits(p)}
             /\ ptr' = (ptr + 1) % Pages
             /\ UNCHANGED <<sem, array, vmem, pin, panelOn, waits, want, whole, faults, missed>>
Screen(p) == /\ StepsOn(p) /\ Do(p) \in {"screen", "fill"}
             /\ garbled' = (garbled \/ pin = 0)
             /\ shown' = IF Do(p) = "fill" THEN Bits(p) ELSE Transpose(array[p])
             /\ UNCHANGED <<sem, array, vmem, pin, ptr, panelOn, waits, want, whole, faults, missed>>

(* A transfer that fails is reported and its bytes are not sent.  The call *)
(* goes on, but the frame buffer gives up after a command.                 *)
Fault(p)  == /\ steps[p] # <<>> /\ faults < MaxFaults /\ faults' = faults + 1
             /\ \/ /\ Do(p) \in {"page", "screen", "fill"}
                   /\ steps' = [steps EXCEPT ![p] = Tail(@)]
                \/ /\ Do(p) \in {"init", "on", "off", "contrast", "value"}
                   /\ steps' = [steps EXCEPT ![p] = IF style = "fb" THEN <<>> ELSE Tail(@)]
             /\ UNCHANGED <<style, opened, overlap, sem, array, vmem, oled, want, whole, missed>>

Memory(p) == /\ StepsOn(p)
             /\ \/ Do(p) = "copy" /\ vmem' = Bits(p) /\ want' = Bits(p) /\ UNCHANGED array
                \/ /\ Do(p) = "snap" /\ array' = [array EXCEPT ![p] = vmem]
                   /\ UNCHANGED <<vmem, want>>
             /\ UNCHANGED <<sem, oled, whole, faults, missed>>

PanelStep(p) == \/ Down(p) \/ Signalled(p) \/ Up(p) \/ Draw(p) \/ Register(p) \/ Pin(p) \/ Reset(p)
                \/ Command(p) \/ Page(p) \/ Screen(p) \/ Fault(p) \/ Memory(p)

PanelNext == \E p \in Proc : \/ OpenOled(p) \/ WriteOled(p) \/ ReleaseOled(p) \/ Program(p)
                             \/ ProbeFb(p) \/ CallFb(p) \/ PanelStep(p)

PanelSpec == PanelInit /\ [][PanelNext]_dvars
-----------------------------------------------------------------------------
(* The cell where a pixel belongs: the upright image is turned by a        *)
(* quarter, the lying one is not.                                          *)
Turned(pic) == {<<(8 * Pages - 1 - q[1]) \div 8, q[2], (8 * Pages - 1 - q[1]) % 8>> : q \in pic}
Flat(pic)   == {<<q[2] \div 8, q[1], q[2] % 8>> : q \in pic}
Shifted(cells, n) == {<<(x[1] + n) % Pages, x[2], x[3]>> : x \in cells}

(* Under the semaphore of the character device, and in the program, every  *)
(* byte is taken for what it is, whatever calls overlap.                   *)
NothingIsGarbled == style \in {"oled", "spidev"} => ~garbled

(* A picture that was sent without a fault is shown whole, each of its     *)
(* pixels in its place; but the driver starts it where its fill of a       *)
(* single page left the controller, the program at the top.                *)
PictureIsShown ==
    (style \in {"oled", "spidev"} /\ whole /\ faults = 0 /\ sem = {} /\ ~missed
        /\ \A p \in Proc : steps[p] = <<>>) =>
        /\ shown = Shifted(Turned(want), ptr)
        /\ ptr = IF style = "spidev" THEN 0 ELSE 1 % Pages

(* Nobody has the device open: the display is dark, unless a signal kept a *)
(* release from saying so, or the bus did.                                 *)
DarkWhenClosed ==
    (style = "oled" /\ opened = {} /\ faults = 0 /\ ~missed
        /\ \A p \in Proc : steps[p] = <<>>) => ~panelOn

(* The frame buffer, as long as no two calls overlap: nothing is garbled,  *)
(* and once something was written the display shows the memory pixel by    *)
(* pixel; before that it shows what the probe filled it with.              *)
DisplayFollowsMemory ==
    (style = "fb" /\ ~overlap /\ faults = 0) =>
        /\ ~garbled
        /\ (want # {} /\ \A p \in Proc : steps[p] = <<>>) =>
               \E pic \in Pictures : vmem = set_pixel(pic) /\ shown = Flat(pic)

(* The display shows what the calls that went well have sent it.           *)
PanelIsRight ==
    /\ PanelTypeOK /\ NothingIsGarbled
    /\ PictureIsShown /\ DarkWhenClosed /\ DisplayFollowsMemory
=============================================================================
