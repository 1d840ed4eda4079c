---------------------------- MODULE Display_proofs ----------------------------
(***************************************************************************)
(* Proofs about the displays: Panel, for any processes, pictures and size  *)
(* of display, and Paint, for any images and whatever is drawn.            *)
(*                                                                         *)
(* Of Panel.  A call is a fixed sequence of steps, and a process is at one *)
(* of them: what is left of its call is the Rest of that sequence.  The    *)
(* invariant says, per driver, what the controller is like at each place   *)
(* of each call: the level of its pin, the page it is at, and how many     *)
(* pages of the picture it shows (Sending).  Of the character device only  *)
(* the holder of the semaphore is inside of a call, all others are Parked  *)
(* at the beginning of theirs.  The pages sent amount to the turned        *)
(* picture (PictureIsSent), the memory of the frame buffer to the lying    *)
(* one (LyingAsItIs).                                                      *)
(*                                                                         *)
(* Of Paint.  Settings and shapes keep an image Made, and a Made image has *)
(* a place of its own for every pixel (PlacesDiffer), in bits of its own   *)
(* (BitsAreCounted); what a shape paints is checked pixel by pixel         *)
(* (PixelsKeep), so that nothing need be known of the shapes but that      *)
(* their places are numbers (Frame).                                       *)
(***************************************************************************)
EXTENDS Panel, Paint, TLAPS, SequenceTheorems, FiniteSetTheorems

(* The steps of a call, and those that are left of it after some.          *)
Squares == (0 .. Columns - 1) \X (0 .. 7)
AnyBits == SUBSET ((Int \X Int) \cup Spots)
Names == {"down", "up", "draw", "drawn", "register", "low", "high", "reset", "init", "on",
          "off", "contrast", "value", "page", "screen", "fill", "copy", "snap"}
Step ==
    {s \in [do : Names, bits : AnyBits] :
        /\ s.do = "page" => s.bits \in SUBSET Squares
        /\ s.do = "fill" => s.bits \in SUBSET Spots}
Rest(s, i) == [k \in 1 .. Len(s) - i |-> s[k + i]]

(* Nothing failed so far, and no signal kept a call from being made.       *)
Clean == faults = 0 /\ ~missed

(* The pages of a picture that are on the panel, from page z on.           *)
PagesSent(pic, z, j) ==
    \A k \in 0 .. j - 1 : \A x \in Spots :
        x[1] = (z + k) % Pages => (x \in shown <=> <<x[2], x[3]>> \in PageOf(Paint_bits(pic), k))

(* The character device between two calls: the controller is where a fill  *)
(* of one page left it, and what was drawn is shown from there.            *)
AtRest ==
    /\ (whole \/ \E q \in opened : steps[q] # oled_open) => ptr = 1 % Pages
    /\ whole => shown = Shifted(Turned(want), 1 % Pages)

(* A process that does not hold its semaphore: its call has not begun.     *)
Parked(q) ==
    \/ steps[q] = <<>>
    \/ q \in opened /\ (steps[q] = oled_open \/ \E pic \in Pictures : steps[q] = oled_write(pic))
    \/ q \notin opened /\ steps[q] = oled_release

(* Those that hold it, by what is left of their call.                      *)
OpenAt(i) ==
    /\ i \in {3, 6} => pin = 0
    /\ i = 9 => pin = 1
    /\ Clean => /\ i >= 2 => ~whole
                /\ i \in 2 .. 9 => ptr = 0
                /\ i = 10 => ptr = 1 % Pages
Opening(p) ==
    p \in opened /\ \E i \in 1 .. 10 : steps[p] = Rest(oled_open, i) /\ OpenAt(i)

ReleaseAt(i) == (i = 2 => pin = 0) /\ (Clean => AtRest)
Releasing(p) ==
    p \notin opened /\ \E i \in 1 .. 4 : steps[p] = Rest(oled_release, i) /\ ReleaseAt(i)

Sending(pic, z, d) ==
    /\ d % 2 = 1 => pin = 1
    /\ Clean => /\ ~whole /\ want = pic /\ ptr = (z + d \div 2) % Pages
                /\ PagesSent(pic, z, d \div 2)
Writing(p) ==
    /\ p \in opened
    /\ \E pic \in Pictures :
          \/ steps[p] = Rest(oled_write(pic), 1) /\ (Clean => ptr = 1 % Pages)
          \/ \E d \in 0 .. 2 * Pages :
                steps[p] = Rest(oled_write(pic), d + 2) /\ Sending(pic, 1 % Pages, d)
          \/ /\ steps[p] = Rest(oled_write(pic), 2 * Pages + 3)
             /\ Clean => AtRest /\ ptr = 1 % Pages

Darkens(q) == \E i \in 0 .. 2 : steps[q] = Rest(oled_release, i)

OledInv ==
    /\ ~garbled /\ ~waits
    /\ \A p, q \in sem : p = q
    /\ \A q \in Proc : q \notin sem => Parked(q)
    /\ \A p \in sem : Opening(p) \/ Writing(p) \/ Releasing(p)
    /\ sem = {} /\ Clean => AtRest
    /\ Clean /\ panelOn => opened # {} \/ \E q \in Proc : Darkens(q)

(* The program, by how far it is.                                          *)
ProgramAt(pic, p) ==
    \/ \E i \in 0 .. 5 : /\ steps[p] = Rest(spioled1_main(pic), i)
                         /\ i \in {2, 5} => pin = 0
                         /\ Clean => ~whole /\ ptr = 0
    \/ \E d \in 0 .. 2 * (2 * Pages) :
          /\ steps[p] = Rest(spioled1_main(pic), d + 6)
          /\ d % 2 = 1 => pin = 1
          /\ Clean => ~whole /\ ptr = (d \div 2) % Pages
    \/ \E d \in 0 .. 2 * Pages :
          steps[p] = Rest(spioled1_main(pic), d + (7 + 2 * (2 * Pages))) /\ Sending(pic, 0, d)
    \/ /\ steps[p] = <<>>
       /\ Clean => ptr = 0 /\ shown = Shifted(Turned(want), 0)

ProgInv ==
    /\ ~garbled /\ ~waits /\ sem = {}
    /\ opened = {} => ~whole /\ ptr = 0
    /\ \A q \in Proc : q \notin opened => steps[q] = <<>>
    /\ \A p \in opened : opened = {p} /\ \E pic \in Pictures : ProgramAt(pic, p)

(* The frame buffer, as long as no two of its calls overlap.               *)
Follows == want # {} => shown = Transpose(vmem)

Probing(p) ==
    /\ opened = {} /\ ~waits
    /\ \E i \in 0 .. 10 : /\ steps[p] = Rest(spi_ssd1309fb_probe, i)
                          /\ i \in {2, 7} => pin = 0
                          /\ i \in {5, 9} => pin = 1
Copying(p) ==
    /\ opened # {} /\ ~waits
    /\ \E pic \in Pictures : steps[p] = ssd1309fb_write(pic)
Updating(p) ==
    /\ opened # {} /\ ~waits
    /\ \E i \in 0 .. 2 : /\ steps[p] = Rest(ssd1309fb_update_display, i)
                         /\ i \in {1, 2} => array[p] = vmem
                         /\ i = 2 => pin = 1
Blanking(p) ==
    /\ opened # {} /\ ~waits /\ Follows
    /\ \E c \in {"on", "off"}, i \in 0 .. 1 : /\ steps[p] = Rest(ssd1309fb_blank(c), i)
                                              /\ i = 1 => pin = 0
Dimming(p) ==
    /\ opened # {} /\ Follows
    /\ \E i \in 0 .. 3 : /\ steps[p] = Rest(ssd1309fb_update_bl, i)
                         /\ i \in {1, 3} => pin = 0
                         /\ waits <=> i \in {2, 3}

FbInv ==
    (~overlap /\ faults = 0) =>
        /\ ~garbled /\ want = vmem
        /\ want # {} => \E pic \in Pictures : vmem = set_pixel(pic)
        /\ opened = {} => want = {}
        /\ \A p, q \in Proc : steps[p] # <<>> /\ steps[q] # <<>> => p = q
        /\ (\A p \in Proc : steps[p] = <<>>) => ~waits /\ Follows
        /\ \A p \in Proc : steps[p] # <<>> =>
              Probing(p) \/ Copying(p) \/ Updating(p) \/ Blanking(p) \/ Dimming(p)

PanelInv ==
    /\ PanelTypeOK /\ steps \in [Proc -> Seq(Step)] /\ DOMAIN array = Proc
    /\ style = "oled" => OledInv
    /\ style = "spidev" => ProgInv
    /\ style = "fb" => FbInv

-----------------------------------------------------------------------------
(* Steps and sequences of them.                                            *)
LEMMA StepsAre ==
    /\ \A c \in Names : Cmd(c) \in Step /\ Cmd(c).do = c /\ Cmd(c).bits = {}
    /\ \A c \in Names \ {"page", "fill"}, b \in AnyBits :
          M(c, b) \in Step /\ M(c, b).do = c /\ M(c, b).bits = b
    /\ \A b \in SUBSET Squares : M("page", b) \in Step /\ M("page", b).do = "page" /\ M("page", b).bits = b
    /\ M("fill", Spots) \in Step /\ M("fill", Spots).do = "fill" /\ M("fill", Spots).bits = Spots
    /\ \A b \in SUBSET Squares : b \in AnyBits
<1>1. \A c \in Names : Cmd(c) \in Step /\ Cmd(c).do = c /\ Cmd(c).bits = {}
  BY DEF Cmd, M, Step, AnyBits
<1>2. \A b \in SUBSET Squares : b \in AnyBits
  BY PanelAssumption DEF AnyBits, Squares
<1>3. Spots \in AnyBits /\ "page" \in Names /\ "fill" \in Names
  BY DEF AnyBits, Names
<1>4. QED
  BY <1>1, <1>2, <1>3 DEF M, Step

LEMMA NamesAre ==
    /\ "down" \in Names /\ "up" \in Names /\ "draw" \in Names /\ "drawn" \in Names
    /\ "register" \in Names /\ "low" \in Names /\ "high" \in Names /\ "reset" \in Names
    /\ "init" \in Names /\ "on" \in Names /\ "off" \in Names /\ "contrast" \in Names
    /\ "value" \in Names /\ "page" \in Names /\ "screen" \in Names /\ "fill" \in Names
    /\ "copy" \in Names /\ "snap" \in Names
  BY DEF Names

LEMMA Tuples ==
    ASSUME NEW a \in Step, NEW b \in Step, NEW c \in Step
    PROVE  /\ <<a>> \in Seq(Step) /\ Len(<<a>>) = 1 /\ <<a>>[1] = a
           /\ <<a, b>> \in Seq(Step) /\ Len(<<a, b>>) = 2 /\ <<a, b>>[1] = a /\ <<a, b>>[2] = b
           /\ <<a, b, c>> \in Seq(Step) /\ Len(<<a, b, c>>) = 3
           /\ <<a, b, c>>[1] = a /\ <<a, b, c>>[2] = b /\ <<a, b, c>>[3] = c
  OBVIOUS

LEMMA Joined ==
    ASSUME NEW s \in Seq(Step), NEW t \in Seq(Step)
    PROVE  /\ s \o t \in Seq(Step) /\ Len(s \o t) = Len(s) + Len(t)
           /\ \A i \in 1 .. Len(s) : (s \o t)[i] = s[i]
           /\ \A i \in 1 .. Len(t) : (s \o t)[Len(s) + i] = t[i]
<1>1. /\ s \o t \in Seq(Step) /\ Len(s \o t) = Len(s) + Len(t)
      /\ \A i \in 1 .. Len(s) + Len(t) : (s \o t)[i] = IF i <= Len(s) THEN s[i] ELSE t[i - Len(s)]
  BY ConcatProperties
<1>2. \A i \in 1 .. Len(t) : /\ Len(s) + i \in 1 .. Len(s) + Len(t) /\ ~(Len(s) + i <= Len(s))
                             /\ (Len(s) + i) - Len(s) = i
  OBVIOUS
<1>3. \A i \in 1 .. Len(s) : i \in 1 .. Len(s) + Len(t) /\ i <= Len(s)
  OBVIOUS
<1>4. QED
  BY <1>1, <1>2, <1>3

LEMMA RestOf ==
    ASSUME NEW s \in Seq(Step), NEW i \in 0 .. Len(s)
    PROVE  /\ Rest(s, i) \in Seq(Step) /\ Rest(s, 0) = s
           /\ i = Len(s) => Rest(s, i) = <<>>
           /\ i < Len(s) => /\ Rest(s, i) # <<>> /\ Head(Rest(s, i)) = s[i + 1]
                            /\ s[i + 1] \in Step
                            /\ Tail(Rest(s, i)) = Rest(s, i + 1)
<1>1. Len(s) \in Nat /\ \A k \in 1 .. Len(s) : s[k] \in Step
  OBVIOUS
<1>2. Rest(s, i) \in Seq(Step) /\ Len(Rest(s, i)) = Len(s) - i
  BY <1>1 DEF Rest
<1>3. Rest(s, 0) = s
  BY <1>1 DEF Rest
<1>4. i = Len(s) => Rest(s, i) = <<>>
  BY <1>1, <1>2
<1>5. ASSUME i < Len(s)
      PROVE  /\ Rest(s, i) # <<>> /\ Head(Rest(s, i)) = s[i + 1]
             /\ Tail(Rest(s, i)) = Rest(s, i + 1)
  <2>0. Rest(s, i)[1] = s[i + 1]
    <3>1. 1 \in 1 .. Len(s) - i /\ 1 + i = i + 1
      BY <1>1, <1>5
    <3>2. QED
      BY <3>1 DEF Rest
  <2>1. Rest(s, i) # <<>> /\ Head(Rest(s, i)) = Rest(s, i)[1] /\ Rest(s, i)[1] = s[i + 1]
    <3> DEFINE u == Rest(s, i)
    <3>1. u \in Seq(Step) /\ Len(u) > 0
      BY <1>1, <1>2, <1>5
    <3> HIDE DEF u
    <3>2. u # <<>> /\ Head(u) = u[1]
      BY <3>1
    <3>3. QED
      BY <2>0, <3>2 DEF u
  <2>2. /\ Tail(Rest(s, i)) \in Seq(Step) /\ Len(Tail(Rest(s, i))) = Len(s) - i - 1
        /\ \A k \in 1 .. Len(s) - i - 1 : Tail(Rest(s, i))[k] = Rest(s, i)[k + 1]
    BY <1>2, <2>1, HeadTailProperties
  <2>3. /\ Rest(s, i + 1) \in Seq(Step) /\ Len(Rest(s, i + 1)) = Len(s) - i - 1
        /\ \A k \in 1 .. Len(s) - i - 1 : Rest(s, i + 1)[k] = s[k + (i + 1)]
    BY <1>1, <1>5 DEF Rest
  <2>4. \A k \in 1 .. Len(s) - i - 1 : Rest(s, i)[k + 1] = s[(k + 1) + i]
    BY <1>1 DEF Rest
  <2>5. \A k \in 1 .. Len(s) - i - 1 : Tail(Rest(s, i))[k] = Rest(s, i + 1)[k]
    BY <2>2, <2>3, <2>4
  <2>6. QED
    BY <2>1, <2>2, <2>3, <2>5, SeqEqual, Zenon
<1>6. QED
  BY <1>1, <1>2, <1>3, <1>4, <1>5

-----------------------------------------------------------------------------
(* The calls as sequences.                                                 *)
LEMMA CommandsAre ==
    /\ spi_oled_send_commands \in Seq(Step) /\ Len(spi_oled_send_commands) = 3
    /\ spi_oled_send_commands[1] = Cmd("low") /\ spi_oled_send_commands[2] = Cmd("init")
    /\ spi_oled_send_commands[3] = Cmd("high")
    /\ \A c \in Names : /\ spi_oled_send_command(c) \in Seq(Step) /\ Len(spi_oled_send_command(c)) = 3
                        /\ spi_oled_send_command(c)[1] = Cmd("low")
                        /\ spi_oled_send_command(c)[2] = Cmd(c)
                        /\ spi_oled_send_command(c)[3] = Cmd("high")
  BY StepsAre, NamesAre, Tuples DEF spi_oled_send_commands, spi_oled_send_command

LEMMA OpenIs ==
    /\ oled_open \in Seq(Step) /\ Len(oled_open) = 11
    /\ oled_open[1] = Cmd("down") /\ oled_open[2] = Cmd("reset") /\ oled_open[3] = Cmd("low")
    /\ oled_open[4] = Cmd("init") /\ oled_open[5] = Cmd("high") /\ oled_open[6] = Cmd("low")
    /\ oled_open[7] = Cmd("on") /\ oled_open[8] = Cmd("high") /\ oled_open[9] = Cmd("high")
    /\ oled_open[10] = M("page", {}) /\ oled_open[11] = Cmd("up")
<1> DEFINE a == <<Cmd("reset")>>
           b == spi_oled_send_commands
           c == spi_oled_send_command("on")
           d == spi_oled_fill
           u == <<Cmd("down")>>
           v == <<Cmd("up")>>
           ab == a \o b
           abc == ab \o c
           init == abc \o d
           up == u \o init
<1>1. /\ a \in Seq(Step) /\ Len(a) = 1 /\ a[1] = Cmd("reset")
      /\ u \in Seq(Step) /\ Len(u) = 1 /\ u[1] = Cmd("down")
      /\ v \in Seq(Step) /\ Len(v) = 1 /\ v[1] = Cmd("up")
  BY StepsAre, NamesAre, Tuples
<1>2. d \in Seq(Step) /\ Len(d) = 2 /\ d[1] = Cmd("high") /\ d[2] = M("page", {})
  <2>1. {} \in SUBSET Squares
    OBVIOUS
  <2>2. Cmd("high") \in Step /\ M("page", {}) \in Step
    BY <2>1, StepsAre, NamesAre
  <2>3. QED
    BY <2>2, Tuples DEF spi_oled_fill, spi_oled_send_datas
<1>3. /\ b \in Seq(Step) /\ Len(b) = 3 /\ b[1] = Cmd("low") /\ b[2] = Cmd("init") /\ b[3] = Cmd("high")
      /\ c \in Seq(Step) /\ Len(c) = 3 /\ c[1] = Cmd("low") /\ c[2] = Cmd("on") /\ c[3] = Cmd("high")
  BY CommandsAre, NamesAre
<1>4. oled_open = up \o v
  BY DEF oled_open, spi_oled_init
<1> HIDE DEF a, b, c, d, u, v
<1>5. /\ ab \in Seq(Step) /\ Len(ab) = 4 /\ ab[1] = a[1]
      /\ \A i \in 1 .. 3 : ab[1 + i] = b[i]
  <2>1. /\ a \o b \in Seq(Step) /\ Len(a \o b) = Len(a) + Len(b)
        /\ \A i \in 1 .. Len(a) : (a \o b)[i] = a[i]
        /\ \A i \in 1 .. Len(b) : (a \o b)[Len(a) + i] = b[i]
    BY <1>1, <1>3, Joined, Zenon
  <2>2. Len(a) = 1 /\ Len(b) = 3 /\ ab = a \o b
    BY <1>1, <1>3
  <2> HIDE DEF ab
  <2>3. ab \in Seq(Step) /\ Len(ab) = Len(a) + Len(b)
    BY <2>1, <2>2
  <2>4. ab[1] = a[1]
    BY <2>1, <2>2
  <2>5. \A i \in 1 .. 3 : ab[1 + i] = b[i]
    BY <2>1, <2>2, Zenon
  <2>6. QED
    BY <2>2, <2>3, <2>4, <2>5
<1> HIDE DEF ab
<1>6. /\ abc \in Seq(Step) /\ Len(abc) = 7 /\ \A i \in 1 .. 4 : abc[i] = ab[i]
      /\ \A i \in 1 .. 3 : abc[4 + i] = c[i]
  <2>1. /\ ab \o c \in Seq(Step) /\ Len(ab \o c) = Len(ab) + Len(c)
        /\ \A i \in 1 .. Len(ab) : (ab \o c)[i] = ab[i]
        /\ \A i \in 1 .. Len(c) : (ab \o c)[Len(ab) + i] = c[i]
    BY <1>3, <1>5, Joined, Zenon
  <2>2. QED
    BY <1>3, <1>5, <2>1
<1> HIDE DEF abc
<1>7. /\ init \in Seq(Step) /\ Len(init) = 9 /\ \A i \in 1 .. 7 : init[i] = abc[i]
      /\ \A i \in 1 .. 2 : init[7 + i] = d[i]
  <2>1. /\ abc \o d \in Seq(Step) /\ Len(abc \o d) = Len(abc) + Len(d)
        /\ \A i \in 1 .. Len(abc) : (abc \o d)[i] = abc[i]
        /\ \A i \in 1 .. Len(d) : (abc \o d)[Len(abc) + i] = d[i]
    BY <1>2, <1>6, Joined, Zenon
  <2>2. QED
    BY <1>2, <1>6, <2>1
<1> HIDE DEF init
<1>8. /\ up \in Seq(Step) /\ Len(up) = 10 /\ up[1] = u[1]
      /\ \A i \in 1 .. 9 : up[1 + i] = init[i]
  <2>1. /\ u \o init \in Seq(Step) /\ Len(u \o init) = Len(u) + Len(init)
        /\ \A i \in 1 .. Len(u) : (u \o init)[i] = u[i]
        /\ \A i \in 1 .. Len(init) : (u \o init)[Len(u) + i] = init[i]
    BY <1>1, <1>7, Joined, Zenon
  <2>2. Len(u) = 1 /\ Len(init) = 9 /\ 1 + 9 = 10 /\ 1 \in 1 .. 1
    BY <1>1, <1>7
  <2>3. /\ u \o init \in Seq(Step) /\ Len(u \o init) = 1 + 9
        /\ \A i \in 1 .. 1 : (u \o init)[i] = u[i]
        /\ \A i \in 1 .. 9 : (u \o init)[1 + i] = init[i]
    BY <2>1, <2>2, Zenon
  <2>4. QED
    BY <2>2, <2>3, Zenon
<1> HIDE DEF up
<1>9. /\ oled_open \in Seq(Step) /\ Len(oled_open) = 11
      /\ \A i \in 1 .. 10 : oled_open[i] = up[i]
      /\ oled_open[11] = v[1]
  <2>1. /\ up \o v \in Seq(Step) /\ Len(up \o v) = Len(up) + Len(v)
        /\ \A i \in 1 .. Len(up) : (up \o v)[i] = up[i]
        /\ \A i \in 1 .. Len(v) : (up \o v)[Len(up) + i] = v[i]
    BY <1>1, <1>8, Joined, Zenon
  <2>2. Len(up) = 10 /\ Len(v) = 1 /\ 1 \in 1 .. Len(v) /\ 10 + 1 = 11
    BY <1>1, <1>8
  <2>3. (up \o v)[11] = v[1]
    BY <2>1, <2>2
  <2>4. QED
    BY <1>4, <2>1, <2>2, <2>3, Zenon
<1>10. /\ abc[1] = a[1] /\ abc[2] = b[1] /\ abc[3] = b[2] /\ abc[4] = b[3]
       /\ abc[5] = c[1] /\ abc[6] = c[2] /\ abc[7] = c[3]
  BY <1>5, <1>6
<1>11. /\ init[1] = abc[1] /\ init[2] = abc[2] /\ init[3] = abc[3] /\ init[4] = abc[4]
       /\ init[5] = abc[5] /\ init[6] = abc[6] /\ init[7] = abc[7] /\ init[8] = d[1] /\ init[9] = d[2]
  BY <1>7
<1>12. /\ up[2] = init[1] /\ up[3] = init[2] /\ up[4] = init[3] /\ up[5] = init[4] /\ up[6] = init[5]
       /\ up[7] = init[6] /\ up[8] = init[7] /\ up[9] = init[8] /\ up[10] = init[9]
  BY <1>8
<1>13. QED
  BY <1>1, <1>2, <1>3, <1>8, <1>9, <1>10, <1>11, <1>12

LEMMA ReleaseIs ==
    /\ oled_release \in Seq(Step) /\ Len(oled_release) = 5
    /\ oled_release[1] = Cmd("down") /\ oled_release[2] = Cmd("low")
    /\ oled_release[3] = Cmd("off") /\ oled_release[4] = Cmd("high") /\ oled_release[5] = Cmd("up")
<1> DEFINE u == <<Cmd("down")>>
           c == spi_oled_send_command("off")
           v == <<Cmd("up")>>
           uc == u \o c
<1>1. /\ u \in Seq(Step) /\ Len(u) = 1 /\ u[1] = Cmd("down")
      /\ v \in Seq(Step) /\ Len(v) = 1 /\ v[1] = Cmd("up")
  BY StepsAre, NamesAre, Tuples
<1>2. c \in Seq(Step) /\ Len(c) = 3 /\ c[1] = Cmd("low") /\ c[2] = Cmd("off") /\ c[3] = Cmd("high")
  BY CommandsAre, NamesAre
<1>3. oled_release = uc \o v
  BY DEF oled_release
<1> HIDE DEF u, c, v
<1>4. uc \in Seq(Step) /\ Len(uc) = 4 /\ uc[1] = u[1] /\ \A i \in 1 .. 3 : uc[1 + i] = c[i]
  <2>1. /\ u \o c \in Seq(Step) /\ Len(u \o c) = Len(u) + Len(c)
        /\ \A i \in 1 .. Len(u) : (u \o c)[i] = u[i]
        /\ \A i \in 1 .. Len(c) : (u \o c)[Len(u) + i] = c[i]
    BY <1>1, <1>2, Joined, Zenon
  <2>2. QED
    BY <1>1, <1>2, <2>1
<1> HIDE DEF uc
<1>5. /\ uc \o v \in Seq(Step) /\ Len(uc \o v) = 5 /\ \A i \in 1 .. 4 : (uc \o v)[i] = uc[i]
      /\ \A i \in 1 .. 1 : (uc \o v)[4 + i] = v[i]
  <2>1. /\ uc \o v \in Seq(Step) /\ Len(uc \o v) = Len(uc) + Len(v)
        /\ \A i \in 1 .. Len(uc) : (uc \o v)[i] = uc[i]
        /\ \A i \in 1 .. Len(v) : (uc \o v)[Len(uc) + i] = v[i]
    BY <1>1, <1>4, Joined, Zenon
  <2>2. QED
    BY <1>1, <1>4, <2>1
<1>6. (uc \o v)[5] = v[1] /\ uc[2] = c[1] /\ uc[3] = c[2] /\ uc[4] = c[3]
  BY <1>4, <1>5
<1>7. /\ (uc \o v)[1] = uc[1] /\ (uc \o v)[2] = uc[2] /\ (uc \o v)[3] = uc[3]
      /\ (uc \o v)[4] = uc[4]
  BY <1>5
<1>8. /\ oled_release[1] = u[1] /\ oled_release[2] = c[1] /\ oled_release[3] = c[2]
      /\ oled_release[4] = c[3] /\ oled_release[5] = v[1]
  BY <1>3, <1>4, <1>6, <1>7
<1>9. oled_release \in Seq(Step) /\ Len(oled_release) = 5
  BY <1>3, <1>5
<1>10. QED
  BY <1>1, <1>2, <1>8, <1>9

(* A picture sent or filled in: for every page the pin and the page.       *)
UprightPixels == (0 .. 8 * Pages - 1) \X (0 .. Columns - 1)
LyingPixels   == (0 .. Columns - 1) \X (0 .. 8 * Pages - 1)

LEMMA Counts == /\ Pages \in Nat \ {0} /\ 2 * Pages \in Nat /\ 1 % Pages \in 0 .. Pages - 1
                /\ 0 % Pages = 0 /\ Pages % Pages = 0
  BY PanelAssumption

LEMMA PageIsPart == \A buf, n : PageOf(buf, n) \in SUBSET Squares
  BY DEF PageOf, Squares

LEMMA DatasAre ==
    ASSUME NEW bits \in SUBSET Squares
    PROVE  /\ spi_oled_send_datas(bits) \in Seq(Step)
           /\ spi_oled_send_datas(bits)[1] = Cmd("high")
           /\ spi_oled_send_datas(bits)[2] = M("page", bits)
           /\ Cmd("high") \in Step /\ M("page", bits) \in Step
  BY StepsAre, NamesAre DEF spi_oled_send_datas

LEMMA Halves == \A d \in Nat : d % 2 \in {0, 1} /\ d \div 2 \in Nat /\ d = 2 * (d \div 2) + (d % 2)
  OBVIOUS

LEMMA BufferIs ==
    ASSUME NEW buf
    PROVE  /\ spi_oled_display_buffer(buf) \in Seq(Step)
           /\ Len(spi_oled_display_buffer(buf)) = 2 * Pages
           /\ \A d \in 0 .. 2 * Pages - 1 :
                 spi_oled_display_buffer(buf)[d + 1]
                    = IF d % 2 = 0 THEN Cmd("high") ELSE M("page", PageOf(buf, d \div 2))
<1> DEFINE at(d) == spi_oled_send_datas(PageOf(buf, d \div 2))[1 + (d % 2)]
           s     == spi_oled_display_buffer(buf)
<1>1. \A d \in Nat :
         /\ at(d) \in Step
         /\ at(d) = IF d % 2 = 0 THEN Cmd("high") ELSE M("page", PageOf(buf, d \div 2))
  <2> SUFFICES ASSUME NEW d \in Nat
               PROVE  /\ at(d) \in Step
                      /\ at(d) = IF d % 2 = 0 THEN Cmd("high") ELSE M("page", PageOf(buf, d \div 2))
    OBVIOUS
  <2> DEFINE bits == PageOf(buf, d \div 2)
  <2>1. bits \in SUBSET Squares
    BY PageIsPart
  <2> HIDE DEF bits
  <2>2. /\ spi_oled_send_datas(bits)[1] = Cmd("high") /\ Cmd("high") \in Step
        /\ spi_oled_send_datas(bits)[2] = M("page", bits) /\ M("page", bits) \in Step
    BY <2>1, DatasAre
  <2>3. d % 2 \in {0, 1}
    BY Halves
  <2>4. CASE d % 2 = 0
    <3>1. 1 + (d % 2) = 1
      BY <2>4
    <3>2. QED
      BY <2>2, <2>4, <3>1 DEF bits
  <2>5. CASE d % 2 = 1
    <3>1. 1 + (d % 2) = 2 /\ d % 2 # 0
      BY <2>5
    <3>2. QED
      BY <2>2, <3>1 DEF bits
  <2>6. QED
    BY <2>3, <2>4, <2>5
<1>2. s = [n \in 1 .. 2 * Pages |-> at(n - 1)]
  BY DEF spi_oled_display_buffer
<1> HIDE DEF at, s
<1>3. \A n \in 1 .. 2 * Pages : n - 1 \in Nat /\ s[n] = at(n - 1)
  BY <1>2, Counts
<1>4. s \in Seq(Step) /\ Len(s) = 2 * Pages
  BY <1>1, <1>2, <1>3, Counts
<1>5. \A d \in 0 .. 2 * Pages - 1 : d \in Nat /\ s[d + 1] = at(d)
  <2> SUFFICES ASSUME NEW d \in 0 .. 2 * Pages - 1 PROVE d \in Nat /\ s[d + 1] = at(d)
    OBVIOUS
  <2>1. d + 1 \in 1 .. 2 * Pages /\ (d + 1) - 1 = d
    BY Counts
  <2>2. QED
    BY <1>3, <2>1
<1>6. QED
  BY <1>1, <1>4, <1>5, Zenon DEF s

LEMMA FillIs ==
    ASSUME NEW bits \in SUBSET Squares
    PROVE  /\ oled_fill(bits) \in Seq(Step) /\ Len(oled_fill(bits)) = 2 * Pages
           /\ \A d \in 0 .. 2 * Pages - 1 :
                 oled_fill(bits)[d + 1] = IF d % 2 = 0 THEN Cmd("high") ELSE M("page", bits)
<1> DEFINE at(d) == spi_oled_send_datas(bits)[1 + (d % 2)]
           s     == oled_fill(bits)
<1>1. \A d \in Nat :
         at(d) \in Step /\ at(d) = IF d % 2 = 0 THEN Cmd("high") ELSE M("page", bits)
  BY DatasAre, Halves
<1>2. s = [n \in 1 .. 2 * Pages |-> at(n - 1)]
  BY DEF oled_fill
<1> HIDE DEF at, s
<1>3. \A n \in 1 .. 2 * Pages : n - 1 \in Nat /\ s[n] = at(n - 1)
  BY <1>2, Counts
<1>4. s \in Seq(Step) /\ Len(s) = 2 * Pages
  BY <1>1, <1>2, <1>3, Counts
<1>5. \A d \in 0 .. 2 * Pages - 1 : d \in Nat /\ s[d + 1] = at(d)
  <2> SUFFICES ASSUME NEW d \in 0 .. 2 * Pages - 1 PROVE d \in Nat /\ s[d + 1] = at(d)
    OBVIOUS
  <2>1. d + 1 \in 1 .. 2 * Pages /\ (d + 1) - 1 = d
    BY Counts
  <2>2. QED
    BY <1>3, <2>1
<1>6. QED
  BY <1>1, <1>4, <1>5 DEF s

LEMMA WriteIs ==
    ASSUME NEW pic \in AnyBits
    PROVE  /\ oled_write(pic) \in Seq(Step) /\ Len(oled_write(pic)) = 2 * Pages + 4
           /\ oled_write(pic)[1] = Cmd("down") /\ oled_write(pic)[2] = M("draw", pic)
           /\ \A d \in 0 .. 2 * Pages - 1 :
                 oled_write(pic)[d + 3]
                    = IF d % 2 = 0 THEN Cmd("high") ELSE M("page", PageOf(Paint_bits(pic), d \div 2))
           /\ oled_write(pic)[2 * Pages + 3] = Cmd("drawn")
           /\ oled_write(pic)[2 * Pages + 4] = Cmd("up")
<1> DEFINE a == <<Cmd("down"), M("draw", pic)>>
           b == spi_oled_display_buffer(Paint_bits(pic))
           c == <<Cmd("drawn"), Cmd("up")>>
           at(d) == IF d % 2 = 0 THEN Cmd("high") ELSE M("page", PageOf(Paint_bits(pic), d \div 2))
           n == 2 * Pages
<1>1. a \in Seq(Step) /\ Len(a) = 2 /\ a[1] = Cmd("down") /\ a[2] = M("draw", pic)
  BY StepsAre, NamesAre
<1>2. c \in Seq(Step) /\ Len(c) = 2 /\ c[1] = Cmd("drawn") /\ c[2] = Cmd("up")
  BY StepsAre, NamesAre
<1>3. b \in Seq(Step) /\ Len(b) = n /\ \A d \in 0 .. n - 1 : b[d + 1] = at(d)
  BY BufferIs, Zenon
<1>4. oled_write(pic) = (a \o b) \o c
  BY DEF oled_write
<1>5. n \in Nat
  BY Counts
<1> HIDE DEF a, b, c, at, n
<1>6. /\ a \o b \in Seq(Step) /\ Len(a \o b) = n + 2
      /\ \A i \in 1 .. n + 2 : (a \o b)[i] = IF i <= 2 THEN a[i] ELSE b[i - 2]
  <2>1. /\ a \o b \in Seq(Step) /\ Len(a \o b) = Len(a) + Len(b)
        /\ \A i \in 1 .. Len(a) + Len(b) : (a \o b)[i] = IF i <= Len(a) THEN a[i] ELSE b[i - Len(a)]
    BY <1>1, <1>3, ConcatProperties, Zenon
  <2>2. Len(a) + Len(b) = n + 2
    BY <1>1, <1>3, <1>5
  <2>3. QED
    BY <1>1, <2>1, <2>2
<1>7. /\ (a \o b) \o c \in Seq(Step) /\ Len((a \o b) \o c) = n + 4
      /\ \A i \in 1 .. n + 4 : ((a \o b) \o c)[i] = IF i <= n + 2 THEN (a \o b)[i] ELSE c[i - (n + 2)]
  <2> DEFINE t == a \o b
  <2>1. t \in Seq(Step) /\ Len(t) = n + 2
    BY <1>6
  <2> HIDE DEF t
  <2>2. /\ t \o c \in Seq(Step) /\ Len(t \o c) = Len(t) + Len(c)
        /\ \A i \in 1 .. Len(t) + Len(c) : (t \o c)[i] = IF i <= Len(t) THEN t[i] ELSE c[i - Len(t)]
    BY <1>2, <2>1, ConcatProperties, Zenon
  <2>3. Len(t) + Len(c) = n + 4
    BY <1>2, <1>5, <2>1
  <2>4. QED
    BY <2>1, <2>2, <2>3 DEF t
<1>8. ((a \o b) \o c)[1] = a[1] /\ ((a \o b) \o c)[2] = a[2]
  BY <1>5, <1>6, <1>7
<1>9. ((a \o b) \o c)[n + 3] = c[1] /\ ((a \o b) \o c)[n + 4] = c[2]
  <2>1. /\ n + 3 \in 1 .. n + 4 /\ ~(n + 3 <= n + 2) /\ (n + 3) - (n + 2) = 1
        /\ n + 4 \in 1 .. n + 4 /\ ~(n + 4 <= n + 2) /\ (n + 4) - (n + 2) = 2
    BY <1>5
  <2>2. QED
    BY <1>7, <2>1, Zenon
<1>10. ASSUME NEW d \in 0 .. n - 1 PROVE ((a \o b) \o c)[d + 3] = at(d)
  <2>1. /\ d + 3 \in 1 .. n + 4 /\ d + 3 <= n + 2 /\ d + 3 \in 1 .. n + 2 /\ ~(d + 3 <= 2)
        /\ (d + 3) - 2 = d + 1
    BY <1>5
  <2>2. QED
    BY <1>3, <1>6, <1>7, <2>1, Zenon
<1>11. QED
  BY <1>1, <1>2, <1>4, <1>7, <1>8, <1>9, <1>10, Zenon DEF n, at

MainSoFar == oled_init \o oled_fill((0 .. Columns - 1) \X (0 .. 7)) \o oled_fill({})

LEMMA InitIs ==
    /\ oled_init \in Seq(Step) /\ Len(oled_init) = 6
    /\ oled_init[1] = Cmd("reset") /\ oled_init[2] = Cmd("low") /\ oled_init[3] = Cmd("init")
    /\ oled_init[4] = Cmd("high") /\ oled_init[5] = Cmd("low") /\ oled_init[6] = Cmd("on")
<1> DEFINE a == <<Cmd("reset")>>
           b == oled_init_reg
           c == oled_sig_cmd("on")
           ab == a \o b
<1>1. a \in Seq(Step) /\ Len(a) = 1 /\ a[1] = Cmd("reset")
  BY StepsAre, NamesAre, Tuples
<1>2. b \in Seq(Step) /\ Len(b) = 3 /\ b[1] = Cmd("low") /\ b[2] = Cmd("init") /\ b[3] = Cmd("high")
  BY StepsAre, NamesAre, Tuples DEF oled_init_reg
<1>3. c \in Seq(Step) /\ Len(c) = 2 /\ c[1] = Cmd("low") /\ c[2] = Cmd("on")
  BY StepsAre, NamesAre, Tuples DEF oled_sig_cmd
<1>4. oled_init = ab \o c
  BY DEF oled_init
<1> HIDE DEF a, b, c
<1>5. ab \in Seq(Step) /\ Len(ab) = 4 /\ ab[1] = a[1] /\ \A i \in 1 .. 3 : ab[1 + i] = b[i]
  <2>1. /\ a \o b \in Seq(Step) /\ Len(a \o b) = Len(a) + Len(b)
        /\ \A i \in 1 .. Len(a) : (a \o b)[i] = a[i]
        /\ \A i \in 1 .. Len(b) : (a \o b)[Len(a) + i] = b[i]
    BY <1>1, <1>2, Joined, Zenon
  <2>2. Len(a) = 1 /\ Len(b) = 3 /\ 1 \in 1 .. Len(a) /\ ab = a \o b
    BY <1>1, <1>2
  <2> HIDE DEF ab
  <2>3. QED
    BY <2>1, <2>2
<1> HIDE DEF ab
<1> DEFINE t == ab \o c
<1>6. /\ t \in Seq(Step) /\ Len(t) = Len(ab) + Len(c)
      /\ \A i \in 1 .. Len(ab) : t[i] = ab[i]
      /\ \A i \in 1 .. Len(c) : t[Len(ab) + i] = c[i]
  BY <1>3, <1>5, Joined, Zenon
<1>7. oled_init = t
  BY <1>4
<1> HIDE DEF t
<1>8. ab[2] = b[1] /\ ab[3] = b[2] /\ ab[4] = b[3]
  BY <1>5
<1>9. t[5] = c[1] /\ t[6] = c[2]
  BY <1>3, <1>5, <1>6
<1>10. t[1] = ab[1] /\ t[2] = ab[2] /\ t[3] = ab[3] /\ t[4] = ab[4]
  BY <1>5, <1>6
<1>11. t \in Seq(Step) /\ Len(t) = 6
  BY <1>3, <1>5, <1>6
<1>12. QED
  BY <1>1, <1>2, <1>3, <1>5, <1>7, <1>8, <1>9, <1>10, <1>11

LEMMA SetUpIs ==
    /\ MainSoFar \in Seq(Step) /\ Len(MainSoFar) = 6 + 2 * (2 * Pages)
    /\ MainSoFar[1] = Cmd("reset") /\ MainSoFar[2] = Cmd("low") /\ MainSoFar[3] = Cmd("init")
    /\ MainSoFar[4] = Cmd("high") /\ MainSoFar[5] = Cmd("low") /\ MainSoFar[6] = Cmd("on")
    /\ \A d \in 0 .. 2 * (2 * Pages) - 1 :
          IF d % 2 = 0 THEN MainSoFar[d + 7] = Cmd("high")
          ELSE \E bits \in SUBSET ((0 .. Columns - 1) \X (0 .. 7)) : MainSoFar[d + 7] = M("page", bits)
<1> DEFINE n == 2 * Pages
           full == (0 .. Columns - 1) \X (0 .. 7)
           a == oled_init
           b == oled_fill(full)
           c == oled_fill({})
           s == MainSoFar
<1>1. n \in Nat /\ n = 2 * Pages /\ Pages \in Nat
  BY Counts
<1>2. full \in SUBSET Squares /\ {} \in SUBSET Squares /\ full \in SUBSET full /\ {} \in SUBSET full
  BY DEF Squares
<1>3. /\ b \in Seq(Step) /\ Len(b) = n
      /\ \A d \in 0 .. n - 1 : b[d + 1] = IF d % 2 = 0 THEN Cmd("high") ELSE M("page", full)
  BY <1>2, FillIs
<1>4. /\ c \in Seq(Step) /\ Len(c) = n
      /\ \A d \in 0 .. n - 1 : c[d + 1] = IF d % 2 = 0 THEN Cmd("high") ELSE M("page", {})
  BY <1>2, FillIs
<1>5. a \in Seq(Step) /\ Len(a) = 6
      /\ a[1] = Cmd("reset") /\ a[2] = Cmd("low") /\ a[3] = Cmd("init") /\ a[4] = Cmd("high")
      /\ a[5] = Cmd("low") /\ a[6] = Cmd("on")
  BY InitIs
<1>7. s = (a \o b) \o c
  BY DEF MainSoFar
<1> HIDE DEF n, full, a, b, c, s
<1> DEFINE ab == a \o b
<1>9. /\ ab \in Seq(Step) /\ Len(ab) = 6 + n /\ \A i \in 1 .. 6 : ab[i] = a[i]
      /\ \A i \in 1 .. n : ab[6 + i] = b[i]
  <2>1. /\ a \o b \in Seq(Step) /\ Len(a \o b) = Len(a) + Len(b)
        /\ \A i \in 1 .. Len(a) : (a \o b)[i] = a[i]
        /\ \A i \in 1 .. Len(b) : (a \o b)[Len(a) + i] = b[i]
    BY <1>3, <1>5, Joined, Zenon
  <2>2. QED
    BY <1>3, <1>5, <2>1, Zenon
<1>14. s = ab \o c
  BY <1>7
<1> HIDE DEF ab
<1>10. /\ s \in Seq(Step) /\ Len(s) = 6 + n + n
       /\ \A i \in 1 .. 6 + n : s[i] = ab[i]
       /\ \A i \in 1 .. n : s[6 + n + i] = c[i]
  <2>1. /\ ab \o c \in Seq(Step) /\ Len(ab \o c) = Len(ab) + Len(c)
        /\ \A i \in 1 .. Len(ab) : (ab \o c)[i] = ab[i]
        /\ \A i \in 1 .. Len(c) : (ab \o c)[Len(ab) + i] = c[i]
    BY <1>4, <1>9, Joined, Zenon
  <2>2. QED
    BY <1>4, <1>14, <1>9, <2>1, Zenon
<1>11. \A i \in 1 .. 6 : s[i] = a[i]
  <2>1. \A i \in 1 .. 6 : i \in 1 .. 6 + n
    BY <1>1
  <2>2. QED
    BY <1>9, <1>10, <2>1
<1>12. ASSUME NEW d \in 0 .. 2 * n - 1
       PROVE  IF d % 2 = 0 THEN s[d + 7] = Cmd("high")
              ELSE \E bits \in SUBSET full : s[d + 7] = M("page", bits)
  <2>1. CASE d < n
    <3>1. d + 1 \in 1 .. n /\ 6 + (d + 1) = d + 7 /\ d + 7 \in 1 .. 6 + n /\ d \in 0 .. n - 1
      BY <1>1, <2>1
    <3>2. s[d + 7] = b[d + 1]
      BY <1>9, <1>10, <3>1
    <3>3. s[d + 7] = IF d % 2 = 0 THEN Cmd("high") ELSE M("page", full)
      BY <1>3, <3>1, <3>2, Zenon
    <3>4. QED
      BY <1>2, <3>3
  <2>2. CASE d >= n
    <3> DEFINE e == d - n
    <3>1. e + 1 \in 1 .. n /\ 6 + n + (e + 1) = d + 7 /\ e \in 0 .. n - 1 /\ e % 2 = d % 2
      BY <1>1, <2>2
    <3> HIDE DEF e
    <3>2. s[d + 7] = c[e + 1]
      BY <1>10, <3>1
    <3>3. s[d + 7] = IF d % 2 = 0 THEN Cmd("high") ELSE M("page", {})
      BY <1>4, <3>1, <3>2, Zenon
    <3>4. QED
      BY <1>2, <3>3
  <2>3. QED
    BY <1>1, <2>1, <2>2
<1>13. /\ s[1] = Cmd("reset") /\ s[2] = Cmd("low") /\ s[3] = Cmd("init")
       /\ s[4] = Cmd("high") /\ s[5] = Cmd("low") /\ s[6] = Cmd("on")
  <2>1. 1 \in 1 .. 6 /\ 2 \in 1 .. 6 /\ 3 \in 1 .. 6 /\ 4 \in 1 .. 6 /\ 5 \in 1 .. 6 /\ 6 \in 1 .. 6
    OBVIOUS
  <2>2. QED
    BY <1>5, <1>11, <2>1
<1>15. Len(s) = 6 + 2 * n
  BY <1>1, <1>10
<1>16. s \in Seq(Step)
  BY <1>10
<1>17. QED
  BY <1>12, <1>13, <1>15, <1>16 DEF s, n, full

LEMMA MainIs ==
    ASSUME NEW pic \in AnyBits
    PROVE  /\ spioled1_main(pic) \in Seq(Step) /\ Len(spioled1_main(pic)) = 8 + 3 * (2 * Pages)
           /\ \A i \in 1 .. 6 + 2 * (2 * Pages) : spioled1_main(pic)[i] = MainSoFar[i]
           /\ spioled1_main(pic)[7 + 2 * (2 * Pages)] = M("draw", pic)
           /\ \A d \in 0 .. 2 * Pages - 1 :
                 spioled1_main(pic)[d + (8 + 2 * (2 * Pages))]
                    = IF d % 2 = 0 THEN Cmd("high") ELSE M("page", PageOf(Paint_bits(pic), d \div 2))
           /\ spioled1_main(pic)[8 + 3 * (2 * Pages)] = Cmd("drawn")
<1> DEFINE n == 2 * Pages
           at(d) == IF d % 2 = 0 THEN Cmd("high") ELSE M("page", PageOf(Paint_bits(pic), d \div 2))
           a == MainSoFar
           b == <<M("draw", pic)>>
           c == spi_oled_display_buffer(Paint_bits(pic))
           e == <<Cmd("drawn")>>
           s == spioled1_main(pic)
<1>1. n \in Nat
  BY Counts
<1>2. a \in Seq(Step) /\ Len(a) = 6 + 2 * n
  BY SetUpIs
<1>3. b \in Seq(Step) /\ Len(b) = 1 /\ b[1] = M("draw", pic)
  BY StepsAre, NamesAre
<1>4. c \in Seq(Step) /\ Len(c) = n /\ \A d \in 0 .. n - 1 : c[d + 1] = at(d)
  BY BufferIs, Zenon
<1>5. e \in Seq(Step) /\ Len(e) = 1 /\ e[1] = Cmd("drawn")
  BY StepsAre, NamesAre
<1>6. s = ((a \o b) \o c) \o e
  BY DEF spioled1_main, MainSoFar, oled_display
<1> HIDE DEF n, at, a, b, c, e, s
<1>7. /\ a \o b \in Seq(Step) /\ Len(a \o b) = 7 + 2 * n
      /\ \A i \in 1 .. 6 + 2 * n : (a \o b)[i] = a[i]
      /\ (a \o b)[7 + 2 * n] = b[1]
  <2>1. /\ a \o b \in Seq(Step) /\ Len(a \o b) = Len(a) + Len(b)
        /\ \A i \in 1 .. Len(a) : (a \o b)[i] = a[i]
        /\ \A i \in 1 .. Len(b) : (a \o b)[Len(a) + i] = b[i]
    BY <1>2, <1>3, Joined, Zenon
  <2>2. 1 \in 1 .. Len(b) /\ Len(a) + 1 = 7 + 2 * n /\ Len(a) + Len(b) = 7 + 2 * n
    BY <1>1, <1>2, <1>3
  <2>3. (a \o b)[Len(a) + 1] = b[1]
    BY <2>1, <2>2
  <2>4. QED
    BY <1>2, <2>1, <2>2, <2>3
<1>8. /\ (a \o b) \o c \in Seq(Step) /\ Len((a \o b) \o c) = 7 + 3 * n
      /\ \A i \in 1 .. 7 + 2 * n : ((a \o b) \o c)[i] = (a \o b)[i]
      /\ \A i \in 1 .. n : ((a \o b) \o c)[7 + 2 * n + i] = c[i]
  <2> DEFINE t == a \o b
  <2>1. t \in Seq(Step) /\ Len(t) = 7 + 2 * n
    BY <1>7
  <2> HIDE DEF t
  <2>2. /\ t \o c \in Seq(Step) /\ Len(t \o c) = Len(t) + Len(c)
        /\ \A i \in 1 .. Len(t) : (t \o c)[i] = t[i]
        /\ \A i \in 1 .. Len(c) : (t \o c)[Len(t) + i] = c[i]
    BY <1>4, <2>1, Joined, Zenon
  <2>3. Len(t) + Len(c) = 7 + 3 * n
    BY <1>1, <1>4, <2>1
  <2>4. QED
    BY <1>4, <2>1, <2>2, <2>3, Zenon DEF t
<1>9. /\ s \in Seq(Step) /\ Len(s) = 8 + 3 * n
      /\ \A i \in 1 .. 7 + 3 * n : s[i] = ((a \o b) \o c)[i]
      /\ s[8 + 3 * n] = e[1]
  <2> DEFINE t == (a \o b) \o c
  <2>1. /\ t \o e \in Seq(Step) /\ Len(t \o e) = Len(t) + Len(e)
        /\ \A i \in 1 .. Len(t) : (t \o e)[i] = t[i]
        /\ \A i \in 1 .. Len(e) : (t \o e)[Len(t) + i] = e[i]
    BY <1>5, <1>8, Joined, Zenon
  <2> HIDE DEF t
  <2>2. 1 \in 1 .. Len(e) /\ Len(t) = 7 + 3 * n /\ Len(t) + 1 = 8 + 3 * n
    BY <1>1, <1>5, <1>8 DEF t
  <2>3. (t \o e)[Len(t) + 1] = e[1]
    BY <2>1, <2>2
  <2>4. s = t \o e
    BY <1>6 DEF t
  <2>5. QED
    BY <1>5, <2>1, <2>2, <2>3, <2>4, Zenon DEF t
<1>10. \A i \in 1 .. 6 + 2 * n : s[i] = a[i]
  <2>1. \A i \in 1 .. 6 + 2 * n : i \in 1 .. 7 + 2 * n /\ i \in 1 .. 7 + 3 * n
    BY <1>1
  <2>2. QED
    BY <1>7, <1>8, <1>9, <2>1, Zenon
<1>11. s[7 + 2 * n] = b[1]
  <2>1. 7 + 2 * n \in 1 .. 7 + 2 * n /\ 7 + 2 * n \in 1 .. 7 + 3 * n
    BY <1>1
  <2>2. QED
    BY <1>7, <1>8, <1>9, <2>1
<1>12. ASSUME NEW d \in 0 .. n - 1 PROVE s[d + (8 + 2 * n)] = at(d)
  <2>1. /\ d + 1 \in 1 .. n /\ d + (8 + 2 * n) = 7 + 2 * n + (d + 1)
        /\ d + (8 + 2 * n) \in 1 .. 7 + 3 * n
    BY <1>1
  <2>2. s[d + (8 + 2 * n)] = ((a \o b) \o c)[7 + 2 * n + (d + 1)]
    BY <1>9, <2>1, Zenon
  <2>3. ((a \o b) \o c)[7 + 2 * n + (d + 1)] = c[d + 1]
    BY <1>8, <2>1, Zenon
  <2>4. QED
    BY <1>4, <2>2, <2>3
<1>13. QED
  BY <1>3, <1>5, <1>9, <1>10, <1>11, <1>12 DEF a, s, n, at

-----------------------------------------------------------------------------
(* Pages and pixels.                                                       *)
LEMMA Rounds ==
    ASSUME NEW n \in Nat \ {0}
    PROVE  \A c \in 0 .. 2 * n : c % n = IF c < n THEN c ELSE IF c < 2 * n THEN c - n ELSE 0
<1> SUFFICES ASSUME NEW c \in 0 .. 2 * n
             PROVE  c % n = IF c < n THEN c ELSE IF c < 2 * n THEN c - n ELSE 0
  OBVIOUS
<1>1. CASE c < n
  BY <1>1
<1>2. CASE c >= n /\ c < 2 * n
  <2>1. c = n * 1 + (c - n) /\ c - n \in 0 .. n - 1
    BY <1>2
  <2>2. QED
    BY <2>1, <1>2
<1>3. CASE c = 2 * n
  <2>1. c = n * 2 + 0
    BY <1>3
  <2>2. QED
    BY <2>1, <1>3
<1>4. QED
  BY <1>1, <1>2, <1>3

LEMMA NextPage ==
    /\ \A k \in 0 .. 2 * Pages - 1 : ((k % Pages) + 1) % Pages = (k + 1) % Pages
    /\ \A z, v \in 0 .. Pages - 1 : \E k \in 0 .. Pages - 1 : (z + k) % Pages = v
    /\ \A z, k, l \in 0 .. Pages - 1 : (z + k) % Pages = (z + l) % Pages => k = l
    /\ \A z, k \in 0 .. Pages - 1 : (z + k) % Pages \in 0 .. Pages - 1
    /\ \A z, k \in 0 .. Pages - 1 : (((z + k) % Pages) + 1) % Pages = (z + (k + 1)) % Pages
    /\ \A z \in 0 .. Pages - 1 : z % Pages = z /\ (z + Pages) % Pages = z
    /\ \A c \in 0 .. 2 * Pages : c % Pages \in 0 .. Pages - 1
<1> DEFINE n == Pages
<1>1. n \in Nat \ {0}
  BY Counts
<1>2. \A c \in 0 .. 2 * n : c % n = IF c < n THEN c ELSE IF c < 2 * n THEN c - n ELSE 0
  BY <1>1, Rounds, Zenon
<1> HIDE DEF n
<1>3. \A c \in 0 .. 2 * n : c % n \in 0 .. n - 1
  BY <1>1, <1>2
<1>4. \A k \in 0 .. 2 * n - 1 : ((k % n) + 1) % n = (k + 1) % n
  <2> SUFFICES ASSUME NEW k \in 0 .. 2 * n - 1 PROVE ((k % n) + 1) % n = (k + 1) % n
    OBVIOUS
  <2>1. k % n = (IF k < n THEN k ELSE k - n) /\ k % n \in 0 .. n - 1
    BY <1>1, <1>2
  <2>2. ((k % n) + 1) % n = IF (k % n) + 1 < n THEN (k % n) + 1 ELSE 0
    BY <1>1, <1>2, <2>1
  <2>3. (k + 1) % n = IF k + 1 < n THEN k + 1 ELSE IF k + 1 < 2 * n THEN k + 1 - n ELSE 0
    BY <1>1, <1>2
  <2>4. QED
    BY <1>1, <2>1, <2>2, <2>3
<1>5. ASSUME NEW z \in 0 .. n - 1, NEW v \in 0 .. n - 1
      PROVE  \E k \in 0 .. n - 1 : (z + k) % n = v
  <2>1. CASE v >= z
    <3>1. v - z \in 0 .. n - 1 /\ (z + (v - z)) % n = v
      BY <1>1, <1>2, <2>1
    <3>2. QED
      BY <3>1
  <2>2. CASE v < z
    <3>1. v + n - z \in 0 .. n - 1 /\ z + (v + n - z) = v + n /\ v + n \in 0 .. 2 * n
          /\ ~(v + n < n) /\ v + n < 2 * n /\ (v + n) - n = v
      BY <1>1, <2>2
    <3>2. (z + (v + n - z)) % n = v
      BY <1>2, <3>1
    <3>3. QED
      BY <3>1, <3>2
  <2>3. QED
    BY <2>1, <2>2
<1>6. \A z, k \in 0 .. n - 1 : z + k \in 0 .. 2 * n - 1 /\ z + k < 2 * n
  BY <1>1
<1>7. \A z, k, l \in 0 .. n - 1 : (z + k) % n = (z + l) % n => k = l
  <2> SUFFICES ASSUME NEW z \in 0 .. n - 1, NEW k \in 0 .. n - 1, NEW l \in 0 .. n - 1,
                      (z + k) % n = (z + l) % n
               PROVE  k = l
    OBVIOUS
  <2>1. /\ (z + k) % n = IF z + k < n THEN z + k ELSE z + k - n
        /\ (z + l) % n = IF z + l < n THEN z + l ELSE z + l - n
    BY <1>1, <1>2, <1>6
  <2>2. QED
    BY <1>1, <2>1
<1>8. \A z \in 0 .. n - 1 : z % n = z /\ (z + n) % n = z
  BY <1>1, <1>2
<1>9. \A z, k \in 0 .. n - 1 : (z + k) % n \in 0 .. n - 1
  <2>1. \A z, k \in 0 .. n - 1 : z + k \in 0 .. 2 * n
    BY <1>1
  <2>2. QED
    BY <1>3, <2>1
<1>10. \A z, k \in 0 .. n - 1 : (((z + k) % n) + 1) % n = (z + (k + 1)) % n
  <2>1. \A z, k \in 0 .. n - 1 : z + k \in 0 .. 2 * n - 1 /\ z + (k + 1) = (z + k) + 1
    BY <1>1
  <2>2. QED
    BY <1>4, <2>1
<1>11. QED
  BY <1>3, <1>4, <1>5, <1>7, <1>8, <1>9, <1>10 DEF n

LEMMA Unique ==
    ASSUME NEW n \in Nat \ {0}, NEW a \in Nat, NEW b \in Nat,
           NEW r \in 0 .. n - 1, NEW t \in 0 .. n - 1, r + a * n = t + b * n
    PROVE  a = b /\ r = t
<1>1. ASSUME NEW c \in Nat, NEW d \in Nat, c < d
      PROVE  d * n >= c * n + n
  <2>1. PICK e \in Nat : d = c + 1 + e
    <3>1. d - c - 1 \in Nat /\ d = c + 1 + (d - c - 1)
      BY <1>1
    <3>2. QED
      BY <3>1
  <2>2. d * n = c * n + n + e * n /\ e * n >= 0 /\ c * n \in Nat /\ e * n \in Nat
    BY <2>1
  <2>3. QED
    BY <2>2
<1>2. a * n \in Nat /\ b * n \in Nat
  OBVIOUS
<1>3. ~(a < b)
  BY <1>1, <1>2
<1>4. ~(b < a)
  BY <1>1, <1>2
<1>5. QED
  BY <1>3, <1>4

(* The bit of a pixel, and the cell of the panel it is for.                *)
LEMMA CellOf ==
    ASSUME NEW q \in UprightPixels, NEW k \in 0 .. Pages - 1, NEW c \in 0 .. Columns - 1,
           NEW b \in 0 .. 7
    PROVE  <<(Pages - 1 - k) + c * Pages, b>> = <<q[1] \div 8 + q[2] * Pages, 7 - (q[1] % 8)>>
           <=> <<k, c, b>> = <<(8 * Pages - 1 - q[1]) \div 8, q[2], (8 * Pages - 1 - q[1]) % 8>>
<1>1. PICK x \in 0 .. 8 * Pages - 1, y \in 0 .. Columns - 1 : q = <<x, y>> /\ q[1] = x /\ q[2] = y
  BY DEF UprightPixels
<1> DEFINE a == x \div 8
           r == x % 8
<1>2. Pages \in Nat \ {0} /\ c \in Nat /\ y \in Nat /\ Pages - 1 - k \in 0 .. Pages - 1
  BY PanelAssumption
<1>3. a \in 0 .. Pages - 1 /\ r \in 0 .. 7 /\ x = 8 * a + r
  BY <1>2
<1>4. /\ (8 * Pages - 1 - x) \div 8 = Pages - 1 - a /\ (8 * Pages - 1 - x) % 8 = 7 - r
  <2>1. 8 * Pages - 1 - x = 8 * (Pages - 1 - a) + (7 - r)
    BY <1>2, <1>3
  <2>2. QED
    BY <1>2, <1>3, <2>1
<1> HIDE DEF a, r
<1>5. (Pages - 1 - k) + c * Pages = a + y * Pages <=> Pages - 1 - k = a /\ c = y
  <2> DEFINE e == Pages - 1 - k
  <2>1. e \in 0 .. Pages - 1 /\ a \in 0 .. Pages - 1
    BY <1>2, <1>3
  <2> HIDE DEF e
  <2>2. e + c * Pages = a + y * Pages => e = a /\ c = y
    BY <1>2, <2>1, Unique
  <2>3. QED
    BY <2>2 DEF e
<1>6. QED
  BY <1>1, <1>2, <1>3, <1>4, <1>5 DEF a, r

LEMMA PageHolds ==
    ASSUME NEW pic \in SUBSET UprightPixels, NEW k \in 0 .. Pages - 1,
           NEW c \in 0 .. Columns - 1, NEW b \in 0 .. 7
    PROVE  <<c, b>> \in PageOf(Paint_bits(pic), k) <=>
              \E q \in pic : <<k, c, b>> = <<(8 * Pages - 1 - q[1]) \div 8, q[2],
                                             (8 * Pages - 1 - q[1]) % 8>>
<1>1. <<c, b>> \in PageOf(Paint_bits(pic), k)
         <=> <<(Pages - 1 - k) + c * Pages, b>> \in Paint_bits(pic)
  BY DEF PageOf
<1>2. <<(Pages - 1 - k) + c * Pages, b>> \in Paint_bits(pic)
         <=> \E q \in pic : <<(Pages - 1 - k) + c * Pages, b>>
                              = <<q[1] \div 8 + q[2] * Pages, 7 - (q[1] % 8)>>
  BY DEF Paint_bits
<1>3. QED
  BY <1>1, <1>2, CellOf

LEMMA TurnedAre ==
    ASSUME NEW pic \in SUBSET UprightPixels, NEW q \in pic
    PROVE  /\ (8 * Pages - 1 - q[1]) \div 8 \in 0 .. Pages - 1 /\ q[2] \in 0 .. Columns - 1
           /\ (8 * Pages - 1 - q[1]) % 8 \in 0 .. 7
<1>1. PICK x \in 0 .. 8 * Pages - 1, y \in 0 .. Columns - 1 : q = <<x, y>> /\ q[1] = x /\ q[2] = y
  BY DEF UprightPixels
<1>2. QED
  BY <1>1, Counts

LEMMA PictureIsSent ==
    ASSUME NEW pic \in SUBSET UprightPixels, NEW z \in 0 .. Pages - 1, shown \subseteq Spots,
           PagesSent(pic, z, Pages)
    PROVE  shown = Shifted(Turned(pic), z)
<1>1. ASSUME NEW x \in shown PROVE x \in Shifted(Turned(pic), z)
  <2>1. PICK p \in 0 .. Pages - 1, c \in 0 .. Columns - 1, b \in 0 .. 7 : x = <<p, c, b>>
    BY DEF Spots
  <2>2. x[1] = p /\ x[2] = c /\ x[3] = b /\ x \in Spots
    BY <2>1
  <2>3. PICK k \in 0 .. Pages - 1 : (z + k) % Pages = p
    BY NextPage
  <2>4. <<c, b>> \in PageOf(Paint_bits(pic), k)
    BY <2>2, <2>3 DEF PagesSent
  <2>5. PICK q \in pic : <<k, c, b>> = <<(8 * Pages - 1 - q[1]) \div 8, q[2],
                                         (8 * Pages - 1 - q[1]) % 8>>
    BY <2>4, PageHolds, Zenon
  <2>6. <<k, c, b>> \in Turned(pic)
    BY <2>5 DEF Turned
  <2>7. k + z = z + k
    BY Counts
  <2>8. x = <<(<<k, c, b>>[1] + z) % Pages, <<k, c, b>>[2], <<k, c, b>>[3]>>
    BY <2>1, <2>3, <2>7
  <2>9. QED
    BY <2>6, <2>8 DEF Shifted
<1>2. ASSUME NEW x \in Shifted(Turned(pic), z) PROVE x \in shown
  <2>1. PICK t \in Turned(pic) : x = <<(t[1] + z) % Pages, t[2], t[3]>>
    BY DEF Shifted
  <2>2. PICK q \in pic : t = <<(8 * Pages - 1 - q[1]) \div 8, q[2], (8 * Pages - 1 - q[1]) % 8>>
    BY DEF Turned
  <2> DEFINE k == (8 * Pages - 1 - q[1]) \div 8
             c == q[2]
             b == (8 * Pages - 1 - q[1]) % 8
  <2>3. k \in 0 .. Pages - 1 /\ c \in 0 .. Columns - 1 /\ b \in 0 .. 7
    BY TurnedAre
  <2>4. t[1] = k /\ t[2] = c /\ t[3] = b /\ t = <<k, c, b>>
    BY <2>2
  <2> HIDE DEF k, c, b
  <2>5. k + z = z + k /\ (z + k) % Pages \in 0 .. Pages - 1
    BY <2>3, Counts, NextPage
  <2>6. x = <<(z + k) % Pages, c, b>>
    BY <2>1, <2>4, <2>5
  <2>7. x \in Spots /\ x[1] = (z + k) % Pages /\ x[2] = c /\ x[3] = b
    BY <2>3, <2>5, <2>6 DEF Spots
  <2>8. <<c, b>> \in PageOf(Paint_bits(pic), k)
    BY <2>2, <2>3, <2>4, PageHolds, Zenon
  <2>9. QED
    BY <2>3, <2>7, <2>8 DEF PagesSent
<1>3. QED
  BY <1>1, <1>2

(* One page more: the pointer has gone on, and the pages before it stay.   *)
LEMMA OnePageMore ==
    ASSUME NEW pic, NEW z \in 0 .. Pages - 1, NEW j \in 0 .. Pages - 1,
           PagesSent(pic, z, j), ptr = (z + j) % Pages,
           shown' = {x \in shown : x[1] # ptr}
                       \cup {<<ptr, y[1], y[2]>> : y \in PageOf(Paint_bits(pic), j)}
    PROVE  PagesSent(pic, z, j + 1)'
<1>1. SUFFICES ASSUME NEW k \in 0 .. j, NEW x \in Spots, x[1] = (z + k) % Pages
               PROVE  x \in shown' <=> <<x[2], x[3]>> \in PageOf(Paint_bits(pic), k)
  <2>1. j \in Nat /\ \A k \in 0 .. (j + 1) - 1 : k \in 0 .. j
    BY Counts
  <2>2. QED
    BY <1>1, <2>1 DEF PagesSent
<1>2. PICK p \in 0 .. Pages - 1, c \in 0 .. Columns - 1, b \in 0 .. 7 : x = <<p, c, b>>
  BY DEF Spots
<1>3. x[1] = p /\ x[2] = c /\ x[3] = b /\ p = (z + k) % Pages
  BY <1>1, <1>2
<1> DEFINE P == PageOf(Paint_bits(pic), j)
<1>4. CASE k = j
  <2>1. p = ptr
    BY <1>3, <1>4
  <2>2. x \notin {y \in shown : y[1] # ptr}
    BY <1>3, <2>1
  <2>3. \A y \in P : y \in (0 .. Columns - 1) \X (0 .. 7)
    BY PageIsPart DEF Squares
  <2>4. \A y \in P : y = <<y[1], y[2]>>
    BY <2>3
  <2> HIDE DEF P
  <2>5. x \in {<<ptr, y[1], y[2]>> : y \in P} <=> \E y \in P : y[1] = c /\ y[2] = b
    BY <1>2, <2>1
  <2>6. (\E y \in P : y[1] = c /\ y[2] = b) <=> <<c, b>> \in P
    BY <2>4
  <2>7. QED
    BY <1>3, <1>4, <2>2, <2>5, <2>6 DEF P
<1>5. CASE k # j
  <2>1. k \in 0 .. Pages - 1 /\ k \in 0 .. j - 1
    BY <1>5, Counts
  <2>2. p # ptr
    BY <1>3, <1>5, <2>1, NextPage
  <2>3. x \notin {<<ptr, y[1], y[2]>> : y \in P}
    BY <1>2, <2>2
  <2>4. x \in shown' <=> x \in shown
    BY <1>3, <2>2, <2>3
  <2>5. QED
    BY <1>3, <1>1, <2>1, <2>4 DEF PagesSent
<1>6. QED
  BY <1>4, <1>5

(* The frame buffer's memory is on the panel as it lies.                   *)
LEMMA LyingAsItIs ==
    ASSUME NEW pic \in SUBSET LyingPixels
    PROVE  Transpose(set_pixel(pic)) = Flat(pic)
<1> DEFINE m == Columns \div 8
<1>1. /\ m \in Nat \ {0} /\ Columns = 8 * m /\ Pages \in Nat \ {0}
  BY PanelAssumption
<1> HIDE DEF m
<1>2. ASSUME NEW i \in 0 .. Pages - 1, NEW j \in 0 .. Columns - 1, NEW k \in 0 .. 7, NEW q \in pic
      PROVE  <<Columns * i + (Columns * k + j) \div 8, 7 - (j % 8)>>
                = <<q[2] * (Columns \div 8) + q[1] \div 8, 7 - (q[1] % 8)>>
             <=> <<i, j, k>> = <<q[2] \div 8, q[1], q[2] % 8>>
  <2>1. PICK x \in 0 .. Columns - 1, y \in 0 .. 8 * Pages - 1 : q = <<x, y>> /\ q[1] = x /\ q[2] = y
    BY DEF LyingPixels
  <2> DEFINE a == j \div 8
             r == j % 8
             d == x \div 8
             s == x % 8
  <2>2. /\ a \in 0 .. m - 1 /\ r \in 0 .. 7 /\ j = 8 * a + r
        /\ d \in 0 .. m - 1 /\ s \in 0 .. 7 /\ x = 8 * d + s
    BY <1>1
  <2>3. (Columns * k + j) \div 8 = m * k + a
    <3>1. m * k \in Nat /\ Columns * k = 8 * (m * k)
      BY <1>1
    <3>2. Columns * k + j = 8 * (m * k + a) + r
      BY <2>2, <3>1
    <3> HIDE DEF a, r
    <3>3. QED
      BY <2>2, <3>1, <3>2
  <2>4. Columns * i + (m * k + a) = a + (8 * i + k) * m
    <3>1. Columns * i = 8 * (m * i) /\ (8 * i + k) * m = 8 * (m * i) + m * k
          /\ m * i \in Nat /\ m * k \in Nat
      BY <1>1
    <3> HIDE DEF a
    <3>2. QED
      BY <2>2, <3>1
  <2>5. q[2] * (Columns \div 8) + q[1] \div 8 = d + y * m
    <3>1. y * m \in Nat
      BY <1>1
    <3>2. QED
      BY <2>1, <2>2, <3>1 DEF m
  <2> HIDE DEF a, r, d, s
  <2>6. a + (8 * i + k) * m = d + y * m <=> 8 * i + k = y /\ a = d
    <3>1. 8 * i + k \in Nat /\ y \in Nat
      BY <1>1
    <3>2. QED
      BY <1>1, <2>2, <3>1, Unique
  <2>7. 8 * i + k = y <=> i = y \div 8 /\ k = y % 8
    BY <1>1
  <2>8. j = x <=> a = d /\ 7 - r = 7 - s
    BY <2>2
  <2>9. QED
    BY <2>1, <2>3, <2>4, <2>5, <2>6, <2>7, <2>8 DEF r, s
<1>3. ASSUME NEW q \in pic
      PROVE  q[2] \div 8 \in 0 .. Pages - 1 /\ q[1] \in 0 .. Columns - 1 /\ q[2] % 8 \in 0 .. 7
  <2>1. PICK x \in 0 .. Columns - 1, y \in 0 .. 8 * Pages - 1 : q = <<x, y>> /\ q[1] = x /\ q[2] = y
    BY DEF LyingPixels
  <2>2. QED
    BY <1>1, <2>1
<1>4. \A i \in 0 .. Pages - 1, j \in 0 .. Columns - 1, k \in 0 .. 7 :
         <<i, j, k>> \in Transpose(set_pixel(pic)) <=>
            \E q \in pic : <<i, j, k>> = <<q[2] \div 8, q[1], q[2] % 8>>
  <2> SUFFICES ASSUME NEW i \in 0 .. Pages - 1, NEW j \in 0 .. Columns - 1, NEW k \in 0 .. 7
               PROVE  <<i, j, k>> \in Transpose(set_pixel(pic)) <=>
                         \E q \in pic : <<i, j, k>> = <<q[2] \div 8, q[1], q[2] % 8>>
    BY Zenon
  <2> DEFINE v == <<Columns * i + (Columns * k + j) \div 8, 7 - (j % 8)>>
  <2>1. <<i, j, k>> \in Transpose(set_pixel(pic)) <=> v \in set_pixel(pic)
    BY DEF Transpose, Spots
  <2>2. v \in set_pixel(pic) <=>
           \E q \in pic : v = <<q[2] * (Columns \div 8) + q[1] \div 8, 7 - (q[1] % 8)>>
    BY DEF set_pixel
  <2>3. QED
    BY <1>2, <2>1, <2>2
<1>5. \A x \in Transpose(set_pixel(pic)) : x \in Spots
  BY DEF Transpose
<1>6. \A x \in Spots : \E i \in 0 .. Pages - 1, j \in 0 .. Columns - 1, k \in 0 .. 7 : x = <<i, j, k>>
  BY DEF Spots
<1>7. \A x : x \in Flat(pic) <=> \E q \in pic : x = <<q[2] \div 8, q[1], q[2] % 8>>
  BY DEF Flat
<1>8. \A x \in Flat(pic) : x \in Spots
  BY <1>3, <1>7 DEF Spots
<1>9. \A x \in Spots : x \in Transpose(set_pixel(pic)) <=> x \in Flat(pic)
  <2> SUFFICES ASSUME NEW x \in Spots PROVE x \in Transpose(set_pixel(pic)) <=> x \in Flat(pic)
    OBVIOUS
  <2>1. PICK i \in 0 .. Pages - 1, j \in 0 .. Columns - 1, k \in 0 .. 7 : x = <<i, j, k>>
    BY <1>6
  <2>2. x \in Transpose(set_pixel(pic)) <=> \E q \in pic : x = <<q[2] \div 8, q[1], q[2] % 8>>
    BY <1>4, <2>1, Zenon
  <2>3. QED
    BY <1>7, <2>2
<1>10. QED
  BY <1>5, <1>8, <1>9

-----------------------------------------------------------------------------
(* The calls of the frame buffer.                                          *)
LEMMA UpdateIs ==
    /\ ssd1309fb_update_display \in Seq(Step) /\ Len(ssd1309fb_update_display) = 3
    /\ ssd1309fb_update_display[1] = Cmd("snap") /\ ssd1309fb_update_display[2] = Cmd("high")
    /\ ssd1309fb_update_display[3] = Cmd("screen")
  BY StepsAre, NamesAre, Tuples DEF ssd1309fb_update_display

LEMMA CommandIs ==
    \A c \in Names : /\ ssd1309fb_write_cmd(c) \in Seq(Step) /\ Len(ssd1309fb_write_cmd(c)) = 2
                     /\ ssd1309fb_write_cmd(c)[1] = Cmd("low") /\ ssd1309fb_write_cmd(c)[2] = Cmd(c)
  BY StepsAre, NamesAre, Tuples DEF ssd1309fb_write_cmd

LEMMA BlankIs ==
    \A c \in {"on", "off"} :
        /\ ssd1309fb_blank(c) \in Seq(Step) /\ Len(ssd1309fb_blank(c)) = 2
        /\ ssd1309fb_blank(c)[1] = Cmd("low") /\ ssd1309fb_blank(c)[2] = Cmd(c)
  BY CommandIs, NamesAre DEF ssd1309fb_blank

LEMMA DimIs ==
    /\ ssd1309fb_update_bl \in Seq(Step) /\ Len(ssd1309fb_update_bl) = 4
    /\ ssd1309fb_update_bl[1] = Cmd("low") /\ ssd1309fb_update_bl[2] = Cmd("contrast")
    /\ ssd1309fb_update_bl[3] = Cmd("low") /\ ssd1309fb_update_bl[4] = Cmd("value")
<1> DEFINE a == ssd1309fb_write_cmd("contrast")
           b == ssd1309fb_write_cmd("value")
<1>1. /\ a \in Seq(Step) /\ Len(a) = 2 /\ a[1] = Cmd("low") /\ a[2] = Cmd("contrast")
      /\ b \in Seq(Step) /\ Len(b) = 2 /\ b[1] = Cmd("low") /\ b[2] = Cmd("value")
  BY CommandIs, NamesAre
<1>2. ssd1309fb_update_bl = a \o b
  BY DEF ssd1309fb_update_bl
<1> HIDE DEF a, b
<1>3. /\ a \o b \in Seq(Step) /\ Len(a \o b) = Len(a) + Len(b)
      /\ \A i \in 1 .. Len(a) : (a \o b)[i] = a[i]
      /\ \A i \in 1 .. Len(b) : (a \o b)[Len(a) + i] = b[i]
  BY <1>1, Joined, Zenon
<1>4. (a \o b)[2 + 1] = b[1] /\ (a \o b)[2 + 2] = b[2]
  BY <1>1, <1>3
<1>5. QED
  BY <1>1, <1>2, <1>3, <1>4

LEMMA HeadAndTail ==
    ASSUME NEW s \in Seq(Step), Len(s) > 0
    PROVE  /\ s # <<>> /\ Head(s) = s[1] /\ Tail(s) \in Seq(Step) /\ Len(Tail(s)) = Len(s) - 1
           /\ \A i \in 1 .. Len(s) - 1 : Tail(s)[i] = s[i + 1]
<1>1. s # <<>>
  OBVIOUS
<1>2. /\ Head(s) = s[1] /\ Tail(s) \in Seq(Step) /\ Len(Tail(s)) = Len(s) - 1
      /\ \A i \in 1 .. Len(Tail(s)) : Tail(s)[i] = s[i + 1]
  BY <1>1, HeadTailProperties
<1>3. QED
  BY <1>1, <1>2

LEMMA CopyIs ==
    ASSUME NEW pic, set_pixel(pic) \in AnyBits
    PROVE  /\ ssd1309fb_write(pic) \in Seq(Step) /\ ssd1309fb_write(pic) # <<>>
           /\ Head(ssd1309fb_write(pic)) = M("copy", set_pixel(pic))
           /\ Tail(ssd1309fb_write(pic)) = ssd1309fb_update_display
<1> DEFINE a == <<M("copy", set_pixel(pic))>>
           b == ssd1309fb_update_display
<1>1. a \in Seq(Step) /\ Len(a) = 1 /\ a[1] = M("copy", set_pixel(pic))
  BY StepsAre, NamesAre, Tuples
<1>2. b \in Seq(Step) /\ Len(b) = 3
  BY UpdateIs
<1>3. ssd1309fb_write(pic) = a \o b
  BY DEF ssd1309fb_write
<1> HIDE DEF a, b
<1> DEFINE s == a \o b
<1>4. /\ s \in Seq(Step) /\ Len(s) = 4 /\ s[1] = a[1]
      /\ \A i \in 1 .. 3 : s[1 + i] = b[i]
  <2>1. /\ a \o b \in Seq(Step) /\ Len(a \o b) = Len(a) + Len(b)
        /\ \A i \in 1 .. Len(a) : (a \o b)[i] = a[i]
        /\ \A i \in 1 .. Len(b) : (a \o b)[Len(a) + i] = b[i]
    BY <1>1, <1>2, Joined, Zenon
  <2>2. QED
    BY <1>1, <1>2, <2>1
<1> HIDE DEF s
<1>5. /\ s # <<>> /\ Head(s) = s[1] /\ Tail(s) \in Seq(Step) /\ Len(Tail(s)) = 3
      /\ \A i \in 1 .. 3 : Tail(s)[i] = s[i + 1]
  <2>1. s \in Seq(Step) /\ Len(s) > 0 /\ Len(s) - 1 = 3
    BY <1>4
  <2>2. QED
    BY <2>1, HeadAndTail, Zenon
<1>6. \A i \in 1 .. 3 : Tail(s)[i] = b[i]
  <2>1. \A i \in 1 .. 3 : i + 1 = 1 + i
    OBVIOUS
  <2>2. QED
    BY <1>4, <1>5, <2>1, Zenon
<1>7. Tail(s) = b
  BY <1>2, <1>5, <1>6, SeqEqual, Zenon
<1>8. QED
  BY <1>1, <1>3, <1>4, <1>5, <1>7 DEF s, b

LEMMA ProbeIs ==
    /\ spi_ssd1309fb_probe \in Seq(Step) /\ Len(spi_ssd1309fb_probe) = 11
    /\ spi_ssd1309fb_probe[1] = Cmd("reset") /\ spi_ssd1309fb_probe[2] = Cmd("low")
    /\ spi_ssd1309fb_probe[3] = Cmd("init") /\ spi_ssd1309fb_probe[4] = Cmd("snap")
    /\ spi_ssd1309fb_probe[5] = Cmd("high") /\ spi_ssd1309fb_probe[6] = Cmd("screen")
    /\ spi_ssd1309fb_probe[7] = Cmd("low") /\ spi_ssd1309fb_probe[8] = Cmd("on")
    /\ spi_ssd1309fb_probe[9] = Cmd("high") /\ spi_ssd1309fb_probe[10] = M("fill", Spots)
    /\ spi_ssd1309fb_probe[11] = Cmd("register")
<1> DEFINE a == <<Cmd("low"), Cmd("init")>>
           b == ssd1309fb_update_display
           c == ssd1309fb_write_cmd("on")
           d == ssd1309fb_fill
           u == <<Cmd("reset")>>
           v == <<Cmd("register")>>
           ab == a \o b
           abc == ab \o c
           init == abc \o d
           up == u \o init
           all == up \o v
<1>1. /\ a \in Seq(Step) /\ Len(a) = 2 /\ a[1] = Cmd("low") /\ a[2] = Cmd("init")
      /\ u \in Seq(Step) /\ Len(u) = 1 /\ u[1] = Cmd("reset")
      /\ v \in Seq(Step) /\ Len(v) = 1 /\ v[1] = Cmd("register")
  BY StepsAre, NamesAre, Tuples
<1>2. d \in Seq(Step) /\ Len(d) = 2 /\ d[1] = Cmd("high") /\ d[2] = M("fill", Spots)
  BY StepsAre, NamesAre, Tuples DEF ssd1309fb_fill
<1>3. /\ b \in Seq(Step) /\ Len(b) = 3 /\ b[1] = Cmd("snap") /\ b[2] = Cmd("high") /\ b[3] = Cmd("screen")
      /\ c \in Seq(Step) /\ Len(c) = 2 /\ c[1] = Cmd("low") /\ c[2] = Cmd("on")
  BY UpdateIs, CommandIs, NamesAre
<1>4. spi_ssd1309fb_probe = all
  BY DEF spi_ssd1309fb_probe, ssd1309fb_init
<1> HIDE DEF a, b, c, d, u, v
<1>5. /\ ab \in Seq(Step) /\ Len(ab) = 5 /\ \A i \in 1 .. 2 : ab[i] = a[i]
      /\ \A i \in 1 .. 3 : ab[2 + i] = b[i]
  <2>1. /\ a \o b \in Seq(Step) /\ Len(a \o b) = Len(a) + Len(b)
        /\ \A i \in 1 .. Len(a) : (a \o b)[i] = a[i]
        /\ \A i \in 1 .. Len(b) : (a \o b)[Len(a) + i] = b[i]
    BY <1>1, <1>3, Joined, Zenon
  <2>2. QED
    BY <1>1, <1>3, <2>1
<1> HIDE DEF ab
<1>6. /\ abc \in Seq(Step) /\ Len(abc) = 7 /\ \A i \in 1 .. 5 : abc[i] = ab[i]
      /\ \A i \in 1 .. 2 : abc[5 + i] = c[i]
  <2>1. /\ ab \o c \in Seq(Step) /\ Len(ab \o c) = Len(ab) + Len(c)
        /\ \A i \in 1 .. Len(ab) : (ab \o c)[i] = ab[i]
        /\ \A i \in 1 .. Len(c) : (ab \o c)[Len(ab) + i] = c[i]
    BY <1>3, <1>5, Joined, Zenon
  <2>2. QED
    BY <1>3, <1>5, <2>1
<1> HIDE DEF abc
<1>7. /\ init \in Seq(Step) /\ Len(init) = 9 /\ \A i \in 1 .. 7 : init[i] = abc[i]
      /\ \A i \in 1 .. 2 : init[7 + i] = d[i]
  <2>1. /\ abc \o d \in Seq(Step) /\ Len(abc \o d) = Len(abc) + Len(d)
        /\ \A i \in 1 .. Len(abc) : (abc \o d)[i] = abc[i]
        /\ \A i \in 1 .. Len(d) : (abc \o d)[Len(abc) + i] = d[i]
    BY <1>2, <1>6, Joined, Zenon
  <2>2. QED
    BY <1>2, <1>6, <2>1
<1> HIDE DEF init
<1>8. /\ up \in Seq(Step) /\ Len(up) = 10 /\ up[1] = u[1]
      /\ \A i \in 1 .. 9 : up[1 + i] = init[i]
  <2>1. /\ u \o init \in Seq(Step) /\ Len(u \o init) = Len(u) + Len(init)
        /\ \A i \in 1 .. Len(u) : (u \o init)[i] = u[i]
        /\ \A i \in 1 .. Len(init) : (u \o init)[Len(u) + i] = init[i]
    BY <1>1, <1>7, Joined, Zenon
  <2>2. Len(u) = 1 /\ Len(init) = 9 /\ 1 + 9 = 10 /\ 1 \in 1 .. 1
    BY <1>1, <1>7
  <2>3. /\ u \o init \in Seq(Step) /\ Len(u \o init) = 1 + 9
        /\ \A i \in 1 .. 1 : (u \o init)[i] = u[i]
        /\ \A i \in 1 .. 9 : (u \o init)[1 + i] = init[i]
    BY <2>1, <2>2, Zenon
  <2>4. QED
    BY <2>2, <2>3, Zenon
<1> HIDE DEF up
<1>9. /\ all \in Seq(Step) /\ Len(all) = 11 /\ \A i \in 1 .. 10 : all[i] = up[i]
      /\ all[11] = v[1]
  <2>1. /\ up \o v \in Seq(Step) /\ Len(up \o v) = Len(up) + Len(v)
        /\ \A i \in 1 .. Len(up) : (up \o v)[i] = up[i]
        /\ \A i \in 1 .. Len(v) : (up \o v)[Len(up) + i] = v[i]
    BY <1>1, <1>8, Joined, Zenon
  <2>2. Len(up) = 10 /\ Len(v) = 1 /\ 1 \in 1 .. 1 /\ 10 + 1 = 11
    BY <1>1, <1>8
  <2>3. /\ up \o v \in Seq(Step) /\ Len(up \o v) = 10 + 1
        /\ \A i \in 1 .. 10 : (up \o v)[i] = up[i]
        /\ \A i \in 1 .. 1 : (up \o v)[10 + i] = v[i]
    BY <2>1, <2>2, Zenon
  <2>4. QED
    BY <2>2, <2>3, Zenon
<1>10. /\ abc[1] = a[1] /\ abc[2] = a[2] /\ abc[3] = b[1] /\ abc[4] = b[2] /\ abc[5] = b[3]
       /\ abc[6] = c[1] /\ abc[7] = c[2]
  BY <1>5, <1>6
<1>11. /\ init[1] = abc[1] /\ init[2] = abc[2] /\ init[3] = abc[3] /\ init[4] = abc[4]
       /\ init[5] = abc[5] /\ init[6] = abc[6] /\ init[7] = abc[7] /\ init[8] = d[1] /\ init[9] = d[2]
  BY <1>7
<1>12. /\ up[2] = init[1] /\ up[3] = init[2] /\ up[4] = init[3] /\ up[5] = init[4] /\ up[6] = init[5]
       /\ up[7] = init[6] /\ up[8] = init[7] /\ up[9] = init[8] /\ up[10] = init[9]
  BY <1>8
<1> HIDE DEF all
<1>13. /\ all[1] = up[1] /\ all[2] = up[2] /\ all[3] = up[3] /\ all[4] = up[4] /\ all[5] = up[5]
       /\ all[6] = up[6] /\ all[7] = up[7] /\ all[8] = up[8] /\ all[9] = up[9] /\ all[10] = up[10]
  BY <1>9
<1>14. QED
  BY <1>1, <1>2, <1>3, <1>4, <1>8, <1>9, <1>10, <1>11, <1>12, <1>13

-----------------------------------------------------------------------------
(* The pictures of a style, and its calls as steps.                        *)
LEMMA PicturesFit ==
    ASSUME style \in Styles
    PROVE  /\ style \in {"oled", "spidev"} => \A pic \in Pictures : pic \in SUBSET UprightPixels
           /\ style = "fb" => \A pic \in Pictures : pic \in SUBSET LyingPixels
  BY PanelAssumption DEF UprightPixels, LyingPixels

LEMMA PicturesAre ==
    /\ \A pic \in SUBSET UprightPixels : pic \in AnyBits
    /\ \A pic \in SUBSET LyingPixels : set_pixel(pic) \in AnyBits
<1>1. \A pic \in SUBSET UprightPixels : pic \in AnyBits
  BY PanelAssumption DEF UprightPixels, AnyBits
<1>2. ASSUME NEW pic \in SUBSET LyingPixels, NEW q \in pic
      PROVE  <<q[2] * (Columns \div 8) + q[1] \div 8, 7 - (q[1] % 8)>> \in Int \X Int
  <2>1. PICK x \in 0 .. Columns - 1, y \in 0 .. 8 * Pages - 1 : q = <<x, y>> /\ q[1] = x /\ q[2] = y
    BY DEF LyingPixels
  <2>2. Columns \in Nat /\ Pages \in Nat
    BY PanelAssumption
  <2>3. x \in Int /\ y \in Int /\ Columns \div 8 \in Int
    BY <2>2
  <2>4. y * (Columns \div 8) + x \div 8 \in Int /\ 7 - (x % 8) \in Int
    BY <2>3
  <2>5. QED
    BY <2>1, <2>4
<1>3. QED
  BY <1>1, <1>2 DEF set_pixel, AnyBits

LEMMA CallsAre ==
    ASSUME style \in Styles
    PROVE  /\ oled_open \in Seq(Step) /\ oled_release \in Seq(Step)
           /\ style = "oled" => \A pic \in Pictures : oled_write(pic) \in Seq(Step)
           /\ style = "spidev" => \A pic \in Pictures : spioled1_main(pic) \in Seq(Step)
           /\ spi_ssd1309fb_probe \in Seq(Step)
           /\ style = "fb" => \A pic \in Pictures : ssd1309fb_write(pic) \in Seq(Step)
           /\ \A c \in {"on", "off"} : ssd1309fb_blank(c) \in Seq(Step)
           /\ ssd1309fb_update_bl \in Seq(Step) /\ ssd1309fb_update_display \in Seq(Step)
<1>1. style = "oled" => \A pic \in Pictures : oled_write(pic) \in Seq(Step)
  BY PicturesFit, PicturesAre, WriteIs
<1>2. style = "spidev" => \A pic \in Pictures : spioled1_main(pic) \in Seq(Step)
  BY PicturesFit, PicturesAre, MainIs
<1>3. style = "fb" => \A pic \in Pictures : ssd1309fb_write(pic) \in Seq(Step)
  BY PicturesFit, PicturesAre, CopyIs
<1>4. QED
  BY <1>1, <1>2, <1>3, OpenIs, ReleaseIs, ProbeIs, BlankIs, DimIs, UpdateIs

-----------------------------------------------------------------------------
(* One step of a call.                                                     *)
LEMMA Goes ==
    ASSUME NEW p \in Proc, NEW s \in Seq(Step), NEW i \in 0 .. Len(s) - 1, steps[p] = Rest(s, i)
    PROVE  /\ steps[p] # <<>> /\ Do(p) = s[i + 1].do /\ Bits(p) = s[i + 1].bits
           /\ Tail(steps[p]) = Rest(s, i + 1)
<1>1. i \in 0 .. Len(s) /\ i < Len(s)
  OBVIOUS
<1>2. QED
  BY <1>1, RestOf DEF Do, Bits

LEMMA WhatIsDone ==
    ASSUME NEW p \in Proc, PanelStep(p)
    PROVE  /\ steps[p] # <<>>
           /\ Do(p) = "down"  => Down(p) \/ Signalled(p)
           /\ Do(p) = "up"    => Up(p)
           /\ Do(p) \in {"draw", "drawn"} => Draw(p)
           /\ Do(p) = "register" => Register(p)
           /\ Do(p) \in {"low", "high"} => Pin(p)
           /\ Do(p) = "reset" => Reset(p)
           /\ Do(p) \in {"init", "on", "off", "contrast", "value"} => Command(p) \/ Fault(p)
           /\ Do(p) = "page"  => Page(p) \/ Fault(p)
           /\ Do(p) \in {"screen", "fill"} => Screen(p) \/ Fault(p)
           /\ Do(p) \in {"copy", "snap"} => Memory(p)
<1>1. (Down(p) => Do(p) = "down") /\ (Signalled(p) => Do(p) = "down") /\ (Up(p) => Do(p) = "up")
  BY DEF Down, Signalled, Up
<1>2. (Draw(p) => Do(p) \in {"draw", "drawn"}) /\ (Register(p) => Do(p) = "register")
      /\ (Pin(p) => Do(p) \in {"low", "high"}) /\ (Reset(p) => Do(p) = "reset")
  BY DEF Draw, Register, Pin, Reset
<1>3. /\ Command(p) => Do(p) \in {"init", "on", "off", "contrast", "value"}
      /\ Page(p) => Do(p) = "page"
      /\ Screen(p) => Do(p) \in {"screen", "fill"}
      /\ Memory(p) => Do(p) \in {"copy", "snap"}
  BY DEF Command, Page, Screen, Memory
<1>4. Fault(p) => Do(p) \in {"page", "screen", "fill", "init", "on", "off", "contrast", "value"}
  BY DEF Fault
<1>5. steps[p] # <<>>
  BY DEF PanelStep, Down, Signalled, Up, Draw, Register, Pin, Reset, Command, Page, Screen, Fault,
         Memory, StepsOn
<1>6. Down(p) \/ Signalled(p) \/ Up(p) \/ Draw(p) \/ Register(p) \/ Pin(p) \/ Reset(p)
      \/ Command(p) \/ Page(p) \/ Screen(p) \/ Fault(p) \/ Memory(p)
  BY DEF PanelStep
<1>7. /\ Do(p) = "down"  => Down(p) \/ Signalled(p)
      /\ Do(p) = "up"    => Up(p)
      /\ Do(p) \in {"draw", "drawn"} => Draw(p)
      /\ Do(p) = "register" => Register(p)
  BY <1>1, <1>2, <1>3, <1>4, <1>6
<1>8. /\ Do(p) \in {"low", "high"} => Pin(p)
      /\ Do(p) = "reset" => Reset(p)
      /\ Do(p) \in {"copy", "snap"} => Memory(p)
  BY <1>1, <1>2, <1>3, <1>4, <1>6
<1>9. Do(p) \in {"init", "on", "off", "contrast", "value"} => Command(p) \/ Fault(p)
  BY <1>1, <1>2, <1>3, <1>6
<1>10. /\ Do(p) = "page"  => Page(p) \/ Fault(p)
       /\ Do(p) \in {"screen", "fill"} => Screen(p) \/ Fault(p)
  BY <1>1, <1>2, <1>3, <1>6
<1>11. QED
  BY <1>5, <1>7, <1>8, <1>9, <1>10

(* A step changes the steps of its process alone, and the style of none.   *)
LEMMA OnlyItsOwn ==
    ASSUME NEW p \in Proc, PanelStep(p), steps \in [Proc -> Seq(Step)]
    PROVE  /\ style' = style /\ overlap' = overlap /\ faults' \in {faults, faults + 1}
           /\ missed => missed'
           /\ \A q \in Proc : q # p => steps'[q] = steps[q]
           /\ steps'[p] \in {Tail(steps[p]), <<>>}
           /\ DOMAIN steps' = Proc
           /\ opened' = opened \/ opened' = Proc
<1>1. \A t : [steps EXCEPT ![p] = t][p] = t
             /\ \A q \in Proc : q # p => [steps EXCEPT ![p] = t][q] = steps[q]
             /\ DOMAIN [steps EXCEPT ![p] = t] = Proc
  OBVIOUS
<1>2. CASE StepsOn(p) /\ UNCHANGED faults /\ UNCHANGED missed
  BY <1>1, <1>2 DEF StepsOn
<1>3. CASE Signalled(p) \/ Register(p)
  BY <1>1, <1>3 DEF Signalled, Register, oled
<1>4. CASE Fault(p)
  BY <1>1, <1>4 DEF Fault
<1>5. PanelStep(p) => \/ StepsOn(p) /\ UNCHANGED faults /\ UNCHANGED missed
                      \/ Signalled(p) \/ Register(p) \/ Fault(p)
  BY DEF PanelStep, Down, Up, Draw, Pin, Reset, Command, Page, Screen, Memory
<1>6. QED
  BY <1>2, <1>3, <1>4, <1>5

-----------------------------------------------------------------------------
(* The types.                                                              *)
Types == PanelTypeOK /\ steps \in [Proc -> Seq(Step)] /\ DOMAIN array = Proc

LEMMA TypesAtFirst == ASSUME PanelInit PROVE Types
<1>1. Cardinality({}) = 0 /\ 0 \in 0 .. MaxFaults /\ 0 \in 0 .. Pages - 1
  BY FS_EmptySet, PanelAssumption
<1>2. <<>> \in Seq(Step)
  OBVIOUS
<1>3. steps \in [Proc -> Seq(Step)]
  BY <1>2 DEF PanelInit
<1>4. PanelTypeOK
  <2>1. sem = {} /\ Cardinality(sem) <= 1
    BY <1>1 DEF PanelInit
  <2>2. /\ style \in Styles /\ opened = {} /\ pin = 0 /\ ptr = 0 /\ panelOn = FALSE /\ waits = FALSE
        /\ shown = {} /\ whole = FALSE /\ faults = 0 /\ missed = FALSE /\ garbled = FALSE
        /\ overlap = FALSE
    BY DEF PanelInit
  <2>3. QED
    BY <1>1, <2>1, <2>2, Zenon DEF PanelTypeOK
<1>5. DOMAIN array = Proc
  BY DEF PanelInit
<1>6. QED
  BY <1>3, <1>4, <1>5 DEF Types

LEMMA StartKeepsTypes ==
    ASSUME Types, NEW p \in Proc, NEW s \in Seq(Step), Starts(p, s), opened' \subseteq Proc
    PROVE  Types'
<1>1. /\ overlap \in BOOLEAN /\ overlap' = (overlap \/ \E q \in Proc : steps[q] # <<>>)
      /\ steps' = [steps EXCEPT ![p] = s] /\ steps \in [Proc -> Seq(Step)]
      /\ UNCHANGED <<style, sem, vmem, array, pin, ptr, panelOn, waits, shown, garbled, want, whole,
                     faults, missed>>
  BY DEF Starts, Types, PanelTypeOK, oled
<1>2. overlap' \in BOOLEAN
  BY <1>1
<1>3. steps' \in [Proc -> Seq(Step)]
  BY <1>1
<1>4. QED
  BY <1>1, <1>2, <1>3 DEF Types, PanelTypeOK

LEMMA HeadIsStep ==
    ASSUME Types, NEW p \in Proc, steps[p] # <<>>
    PROVE  /\ Head(steps[p]) \in Step /\ Tail(steps[p]) \in Seq(Step)
           /\ Do(p) = "page" => Bits(p) \in SUBSET Squares
           /\ Do(p) = "fill" => Bits(p) \in SUBSET Spots
<1>1. steps[p] \in Seq(Step)
  BY DEF Types
<1>2. Head(steps[p]) \in Step /\ Tail(steps[p]) \in Seq(Step)
  <2> DEFINE s == steps[p]
  <2>1. s \in Seq(Step) /\ s # <<>>
    BY <1>1
  <2> HIDE DEF s
  <2>2. Head(s) \in Step /\ Tail(s) \in Seq(Step)
    BY <2>1
  <2>3. QED
    BY <2>2 DEF s
<1>3. ASSUME NEW y \in Step, y = Head(steps[p])
      PROVE  /\ Do(p) = "page" => Bits(p) \in SUBSET Squares
             /\ Do(p) = "fill" => Bits(p) \in SUBSET Spots
  <2>1. y.do = "page" => y.bits \in SUBSET Squares
    BY DEF Step
  <2>2. y.do = "fill" => y.bits \in SUBSET Spots
    BY DEF Step
  <2>3. Do(p) = y.do /\ Bits(p) = y.bits
    BY <1>3 DEF Do, Bits
  <2>4. QED
    BY <2>1, <2>2, <2>3
<1>4. QED
  BY <1>2, <1>3

LEMMA StepKeepsTypes ==
    ASSUME Types, NEW p \in Proc, PanelStep(p)
    PROVE  Types'
<1>1. /\ steps \in [Proc -> Seq(Step)] /\ PanelTypeOK
  BY DEF Types
<1>2. steps[p] # <<>>
  BY WhatIsDone
<1>3. steps' \in [Proc -> Seq(Step)]
  <2>1. Tail(steps[p]) \in Seq(Step) /\ <<>> \in Seq(Step)
    BY <1>2, HeadIsStep
  <2>2. steps' = [steps EXCEPT ![p] = Tail(steps[p])] \/ steps' = [steps EXCEPT ![p] = <<>>]
    BY DEF PanelStep, Down, Signalled, Up, Draw, Register, Pin, Reset, Command, Page, Screen, Fault,
           Memory, StepsOn
  <2>3. QED
    BY <1>1, <2>1, <2>2, Zenon
<1>4. CASE Down(p)
  <2>1. Cardinality({p}) = 1
    BY FS_Singleton
  <2>2. QED
    BY <1>1, <1>3, <1>4, <2>1 DEF Down, StepsOn, Types, PanelTypeOK, oled
<1>5. CASE Signalled(p)
  BY <1>1, <1>3, <1>5 DEF Signalled, Types, PanelTypeOK, oled
<1>6. CASE Up(p)
  <2>1. Cardinality({}) = 0
    BY FS_EmptySet
  <2>2. QED
    BY <1>1, <1>3, <1>6, <2>1 DEF Up, StepsOn, Types, PanelTypeOK, oled
<1>7. CASE Draw(p)
  BY <1>1, <1>3, <1>7, Zenon DEF Draw, StepsOn, Types, PanelTypeOK, oled
<1>8. CASE Register(p)
  BY <1>1, <1>3, <1>8 DEF Register, Types, PanelTypeOK, oled
<1>9. CASE Pin(p)
  BY <1>1, <1>3, <1>9 DEF Pin, StepsOn, Types, PanelTypeOK
<1>10. CASE Reset(p)
  <2>1. 0 \in 0 .. Pages - 1
    BY PanelAssumption
  <2>2. QED
    BY <1>1, <1>3, <1>10, <2>1, Zenon DEF Reset, StepsOn, Types, PanelTypeOK
<1>11. CASE Command(p)
  <2>1. panelOn' \in BOOLEAN /\ waits' \in BOOLEAN /\ garbled' \in BOOLEAN
    BY <1>1, <1>11, Zenon DEF Command, PanelTypeOK
  <2>2. QED
    BY <1>1, <1>3, <1>11, <2>1 DEF Command, StepsOn, Types, PanelTypeOK
<1>12. CASE Page(p)
  <2>1. Bits(p) \in SUBSET Squares
    BY <1>2, <1>12, HeadIsStep DEF Page
  <2>2. ptr \in 0 .. Pages - 1 /\ shown \subseteq Spots
    BY <1>1 DEF PanelTypeOK
  <2>3. \A y \in Bits(p) : <<ptr, y[1], y[2]>> \in Spots
    BY <2>1, <2>2 DEF Squares, Spots
  <2>4. shown' \subseteq Spots
    BY <1>12, <2>2, <2>3 DEF Page
  <2>5. (ptr + 1) % Pages \in 0 .. Pages - 1
    BY <2>2, PanelAssumption
  <2>6. garbled' \in BOOLEAN /\ ptr' \in 0 .. Pages - 1
    BY <1>1, <1>12, <2>5 DEF Page, PanelTypeOK
  <2>7. QED
    BY <1>1, <1>3, <1>12, <2>4, <2>6 DEF Page, StepsOn, Types, PanelTypeOK
<1>13. CASE Screen(p)
  <2>1. Transpose(array[p]) \subseteq Spots
    BY DEF Transpose
  <2>2. shown' \subseteq Spots
    BY <1>2, <1>13, <2>1, HeadIsStep DEF Screen
  <2>3. garbled' \in BOOLEAN
    BY <1>1, <1>13 DEF Screen, PanelTypeOK
  <2>4. QED
    BY <1>1, <1>3, <1>13, <2>2, <2>3 DEF Screen, StepsOn, Types, PanelTypeOK
<1>14. CASE Fault(p)
  <2>1. faults + 1 \in 0 .. MaxFaults
    BY <1>1, <1>14, PanelAssumption DEF Fault, PanelTypeOK
  <2>2. QED
    BY <1>1, <1>3, <1>14, <2>1 DEF Fault, Types, PanelTypeOK, oled
<1>15. CASE Memory(p)
  BY <1>1, <1>3, <1>15 DEF Memory, StepsOn, Types, PanelTypeOK, oled
<1>16. QED
  BY <1>4, <1>5, <1>6, <1>7, <1>8, <1>9, <1>10, <1>11, <1>12, <1>13, <1>14, <1>15 DEF PanelStep

(* The calls of each style begin in one way.                               *)
LEMMA Begins ==
    ASSUME style \in Styles, NEW p \in Proc,
           \/ OpenOled(p) \/ WriteOled(p) \/ ReleaseOled(p) \/ Program(p) \/ ProbeFb(p) \/ CallFb(p)
    PROVE  \E s \in Seq(Step) : Starts(p, s)
<1>1. CASE OpenOled(p)
  BY <1>1, CallsAre DEF OpenOled
<1>2. CASE WriteOled(p)
  BY <1>2, CallsAre DEF WriteOled
<1>3. CASE ReleaseOled(p)
  BY <1>3, CallsAre DEF ReleaseOled
<1>4. CASE Program(p)
  BY <1>4, CallsAre DEF Program
<1>5. CASE ProbeFb(p)
  BY <1>5, CallsAre DEF ProbeFb
<1>6. CASE CallFb(p)
  BY <1>6, CallsAre DEF CallFb
<1>7. QED
  BY <1>1, <1>2, <1>3, <1>4, <1>5, <1>6

LEMMA TypesKept == ASSUME Types, [PanelNext]_dvars PROVE Types'
<1>1. CASE PanelNext
  <2>1. PICK p \in Proc : \/ OpenOled(p) \/ WriteOled(p) \/ ReleaseOled(p) \/ Program(p)
                          \/ ProbeFb(p) \/ CallFb(p) \/ PanelStep(p)
    BY <1>1 DEF PanelNext
  <2>2. CASE PanelStep(p)
    BY <2>2, StepKeepsTypes
  <2>3. CASE ~PanelStep(p)
    <3>1. opened \subseteq Proc /\ style \in Styles
      BY DEF Types, PanelTypeOK
    <3>2. opened' \subseteq Proc
      BY <2>1, <2>3, <3>1 DEF OpenOled, WriteOled, ReleaseOled, Program, ProbeFb, CallFb
    <3>3. \E s \in Seq(Step) : Starts(p, s)
      BY <2>1, <2>3, <3>1, Begins
    <3>4. QED
      BY <3>2, <3>3, StartKeepsTypes
  <2>4. QED
    BY <2>2, <2>3
<1>2. CASE UNCHANGED dvars
  BY <1>2 DEF dvars, calls, oled, ghosts, Types, PanelTypeOK
<1>3. QED
  BY <1>1, <1>2

-----------------------------------------------------------------------------
(* What the steps do, for the calls of every style.                        *)
Onward(p) ==
    /\ steps' = [steps EXCEPT ![p] = Tail(steps[p])]
    /\ UNCHANGED <<style, sem, opened, overlap, missed, vmem, array>>

LEMMA PinStep ==
    ASSUME NEW p \in Proc, PanelStep(p), Do(p) \in {"low", "high"}
    PROVE  /\ Onward(p) /\ pin' = IF Do(p) = "low" THEN 0 ELSE 1
           /\ UNCHANGED <<ptr, panelOn, waits, shown, garbled, want, whole, faults>>
<1>1. Pin(p)
  BY WhatIsDone
<1>2. QED
  BY <1>1 DEF Pin, StepsOn, Onward

LEMMA ResetStep ==
    ASSUME NEW p \in Proc, PanelStep(p), Do(p) = "reset"
    PROVE  /\ Onward(p) /\ ptr' = 0 /\ panelOn' = FALSE /\ waits' = FALSE /\ whole' = FALSE
           /\ UNCHANGED <<pin, shown, garbled, want, faults>>
<1>1. Reset(p)
  BY WhatIsDone
<1>2. QED
  BY <1>1 DEF Reset, StepsOn, Onward

LEMMA CommandStep ==
    ASSUME NEW p \in Proc, PanelStep(p), Do(p) \in {"init", "on", "off", "contrast", "value"}
    PROVE  /\ UNCHANGED <<pin, ptr, shown, want, whole>>
           /\ \/ /\ Onward(p) /\ faults' = faults
                 /\ garbled' = (garbled \/ pin = 1 \/ waits # (Do(p) = "value"))
                 /\ waits' = (Do(p) = "contrast")
                 /\ panelOn' = IF Do(p) \in {"on", "off"} THEN Do(p) = "on" ELSE panelOn
              \/ /\ style # "fb" => Onward(p)
                 /\ faults' = faults + 1 /\ UNCHANGED <<garbled, waits, panelOn>>
                 /\ UNCHANGED <<style, sem, opened, overlap, missed, vmem, array>>
<1>1. Command(p) \/ Fault(p)
  BY WhatIsDone
<1>2. CASE Command(p)
  BY <1>2 DEF Command, StepsOn, Onward
<1>3. CASE Fault(p)
  BY <1>3 DEF Fault, Onward, oled
<1>4. QED
  BY <1>1, <1>2, <1>3

LEMMA PageStep ==
    ASSUME NEW p \in Proc, PanelStep(p), Do(p) = "page"
    PROVE  /\ Onward(p) /\ UNCHANGED <<pin, panelOn, waits, want, whole>>
           /\ \/ /\ faults' = faults /\ garbled' = (garbled \/ pin = 0)
                 /\ shown' = {x \in shown : x[1] # ptr} \cup {<<ptr, y[1], y[2]>> : y \in Bits(p)}
                 /\ ptr' = (ptr + 1) % Pages
              \/ faults' = faults + 1 /\ UNCHANGED <<garbled, shown, ptr>>
<1>1. Page(p) \/ Fault(p)
  BY WhatIsDone
<1>2. CASE Page(p)
  BY <1>2 DEF Page, StepsOn, Onward
<1>3. CASE Fault(p)
  BY <1>3 DEF Fault, Onward, oled
<1>4. QED
  BY <1>1, <1>2, <1>3

LEMMA DrawStep ==
    ASSUME NEW p \in Proc, PanelStep(p), Do(p) \in {"draw", "drawn"}
    PROVE  /\ Onward(p) /\ UNCHANGED <<pin, ptr, panelOn, waits, shown, garbled, faults>>
           /\ Do(p) = "draw" => want' = Bits(p) /\ whole' = FALSE
           /\ Do(p) = "drawn" => whole' = TRUE /\ want' = want
<1>1. Draw(p)
  BY WhatIsDone
<1>2. QED
  BY <1>1 DEF Draw, StepsOn, Onward, oled

LEMMA FaultIsUnclean ==
    ASSUME Types, faults' = faults + 1
    PROVE  ~Clean'
  BY DEF Types, PanelTypeOK, Clean

-----------------------------------------------------------------------------
(* A picture is sent, page by page.                                        *)
LEMMA EvenAndOdd ==
    /\ \A d \in Nat : /\ d % 2 \in {0, 1} /\ d \div 2 \in Nat
                      /\ d % 2 = 0 => (d + 1) % 2 = 1 /\ (d + 1) \div 2 = d \div 2
                      /\ d % 2 = 1 => (d + 1) % 2 = 0 /\ (d + 1) \div 2 = (d \div 2) + 1
    /\ \A d \in 0 .. 2 * Pages - 1 : d \in Nat /\ d \div 2 \in 0 .. Pages - 1
    /\ \A d \in 0 .. 2 * (2 * Pages) - 1 : d \in Nat /\ d \div 2 \in 0 .. 2 * Pages - 1
    /\ 0 \div 2 = 0 /\ 0 % 2 = 0 /\ (2 * Pages) \div 2 = Pages /\ (2 * (2 * Pages)) \div 2 = 2 * Pages
    /\ (2 * Pages) % 2 = 0 /\ (2 * (2 * Pages)) % 2 = 0
<1>1. Pages \in Nat \ {0}
  BY PanelAssumption
<1>2. QED
  BY <1>1

LEMMA SendingGoesOn ==
    ASSUME Types, NEW p \in Proc, PanelStep(p), NEW pic, NEW z \in 0 .. Pages - 1,
           NEW d \in 0 .. 2 * Pages - 1, Sending(pic, z, d), ~garbled,
           d % 2 = 0 => Do(p) = "high",
           d % 2 = 1 => Do(p) = "page" /\ Bits(p) = PageOf(Paint_bits(pic), d \div 2)
    PROVE  /\ Sending(pic, z, d + 1)' /\ ~garbled'
           /\ Onward(p) /\ UNCHANGED <<waits, panelOn>>
<1>1. /\ d \in Nat /\ d % 2 \in {0, 1} /\ d \div 2 \in 0 .. Pages - 1
      /\ d % 2 = 0 => (d + 1) % 2 = 1 /\ (d + 1) \div 2 = d \div 2
      /\ d % 2 = 1 => (d + 1) % 2 = 0 /\ (d + 1) \div 2 = (d \div 2) + 1
  BY EvenAndOdd
<1>2. CASE d % 2 = 0
  <2>1. /\ Onward(p) /\ pin' = 1
        /\ UNCHANGED <<ptr, panelOn, waits, shown, garbled, want, whole, faults>>
    BY <1>2, PinStep
  <2>2. Clean' => Clean
    BY <2>1 DEF Onward, Clean
  <2>3. Clean' => /\ ~whole' /\ want' = pic /\ ptr' = (z + d \div 2) % Pages
                  /\ PagesSent(pic, z, d \div 2)'
    BY <2>1, <2>2 DEF Sending, PagesSent
  <2>4. QED
    BY <1>1, <1>2, <2>1, <2>3 DEF Sending
<1>3. CASE d % 2 = 1
  <2>1. pin = 1
    BY <1>3 DEF Sending
  <2>2. /\ Onward(p) /\ UNCHANGED <<pin, panelOn, waits, want, whole>> /\ ~garbled'
    BY <1>3, <2>1, PageStep, Zenon
  <2>3. ASSUME Clean'
        PROVE  /\ ~whole' /\ want' = pic /\ ptr' = (z + ((d \div 2) + 1)) % Pages
               /\ PagesSent(pic, z, (d \div 2) + 1)'
    <3>1. /\ faults' = faults /\ ptr' = (ptr + 1) % Pages
          /\ shown' = {x \in shown : x[1] # ptr} \cup {<<ptr, y[1], y[2]>> : y \in Bits(p)}
      BY <1>3, <2>3, PageStep, FaultIsUnclean
    <3>2. Clean
      BY <2>2, <2>3, <3>1 DEF Onward, Clean
    <3>3. ~whole /\ want = pic /\ ptr = (z + d \div 2) % Pages /\ PagesSent(pic, z, d \div 2)
      BY <3>2 DEF Sending
    <3>4. Bits(p) = PageOf(Paint_bits(pic), d \div 2)
      BY <1>3
    <3>5. PagesSent(pic, z, (d \div 2) + 1)'
      BY <1>1, <3>1, <3>3, <3>4, OnePageMore
    <3>6. ptr' = (z + ((d \div 2) + 1)) % Pages
      BY <1>1, <3>1, <3>3, NextPage
    <3>7. QED
      BY <2>2, <3>3, <3>5, <3>6
  <2>4. (d + 1) % 2 # 1
    BY <1>1, <1>3
  <2>5. QED
    BY <1>1, <1>3, <2>2, <2>3, <2>4 DEF Sending
<1>4. QED
  BY <1>1, <1>2, <1>3

LEMMA SendingEnds ==
    ASSUME Types, NEW pic \in SUBSET UprightPixels, NEW z \in 0 .. Pages - 1,
           Sending(pic, z, 2 * Pages), Clean
    PROVE  ~whole /\ want = pic /\ ptr = z /\ shown = Shifted(Turned(pic), z)
<1>1. /\ ~whole /\ want = pic /\ ptr = (z + Pages) % Pages /\ PagesSent(pic, z, Pages)
  BY EvenAndOdd DEF Sending
<1>2. shown \subseteq Spots
  BY DEF Types, PanelTypeOK
<1>3. QED
  BY <1>1, <1>2, NextPage, PictureIsSent, Zenon

LEMMA SendingBegins ==
    ASSUME NEW pic, NEW z \in 0 .. Pages - 1, Clean => ~whole /\ want = pic /\ ptr = z
    PROVE  Sending(pic, z, 0)
<1>1. z + 0 = z /\ z % Pages = z
  BY NextPage
<1>2. PagesSent(pic, z, 0)
  BY DEF PagesSent
<1>3. QED
  BY <1>1, <1>2, EvenAndOdd DEF Sending

-----------------------------------------------------------------------------
(* The program.                                                            *)
LEMMA OnwardIs ==
    ASSUME Types, NEW p \in Proc, NEW s \in Seq(Step), NEW i \in 0 .. Len(s) - 1,
           steps[p] = Rest(s, i), Onward(p)
    PROVE  steps'[p] = Rest(s, i + 1) /\ \A q \in Proc : q # p => steps'[q] = steps[q]
<1>1. Tail(steps[p]) = Rest(s, i + 1) /\ steps \in [Proc -> Seq(Step)]
  BY Goes DEF Types
<1>2. QED
  BY <1>1 DEF Onward

SetUpAt(pic, p, i) ==
    /\ steps[p] = Rest(spioled1_main(pic), i)
    /\ i \in {2, 5} => pin = 0
    /\ Clean => ~whole /\ ptr = 0
FillAt(pic, p, d) ==
    /\ steps[p] = Rest(spioled1_main(pic), d + 6)
    /\ d % 2 = 1 => pin = 1
    /\ Clean => ~whole /\ ptr = (d \div 2) % Pages
SendAt(pic, p, d) ==
    steps[p] = Rest(spioled1_main(pic), d + (7 + 2 * (2 * Pages))) /\ Sending(pic, 0, d)
Ended(p) == steps[p] = <<>> /\ (Clean => ptr = 0 /\ shown = Shifted(Turned(want), 0))

LEMMA ProgramIs ==
    ASSUME NEW pic, NEW p
    PROVE  ProgramAt(pic, p) <=> \/ \E i \in 0 .. 5 : SetUpAt(pic, p, i)
                                 \/ \E d \in 0 .. 2 * (2 * Pages) : FillAt(pic, p, d)
                                 \/ \E d \in 0 .. 2 * Pages : SendAt(pic, p, d)
                                 \/ Ended(p)
  BY DEF ProgramAt, SetUpAt, FillAt, SendAt, Ended

LEMMA SettingUp ==
    ASSUME Types, NEW p \in Proc, PanelStep(p), style = "spidev", NEW pic \in Pictures,
           NEW i \in 0 .. 5, SetUpAt(pic, p, i), ~garbled, ~waits
    PROVE  /\ IF i = 5 THEN FillAt(pic, p, 0)' ELSE SetUpAt(pic, p, i + 1)'
           /\ ~garbled' /\ ~waits' /\ Onward(p)
<1> DEFINE s == spioled1_main(pic)
<1>1. pic \in SUBSET UprightPixels /\ pic \in AnyBits
  BY PicturesFit, PicturesAre DEF Types, PanelTypeOK
<1>2. s \in Seq(Step) /\ Len(s) = 8 + 3 * (2 * Pages) /\ 2 * Pages \in Nat
  BY <1>1, MainIs, Counts
<1>3. i \in 0 .. Len(s) - 1 /\ i + 1 \in 1 .. 6
  BY <1>2
<1>4. s[i + 1] = MainSoFar[i + 1]
  <2>1. i + 1 \in 1 .. 6 + 2 * (2 * Pages)
    BY <1>2, <1>3
  <2>2. QED
    BY <1>1, <2>1, MainIs
<1>5. steps[p] = Rest(s, i)
  BY DEF SetUpAt
<1> HIDE DEF s
<1>6. Do(p) = s[i + 1].do
  BY <1>2, <1>3, <1>5, Goes, Zenon
<1>7. Onward(p) => steps'[p] = Rest(s, i + 1)
  BY <1>2, <1>3, <1>5, OnwardIs
<1>8. /\ i \in {2, 5} => pin = 0
      /\ Clean => ~whole /\ ptr = 0
  BY DEF SetUpAt
<1>9. i = 0 \/ i = 1 \/ i = 2 \/ i = 3 \/ i = 4 \/ i = 5
  OBVIOUS
<1>10. CASE i = 0
  <2>1. i + 1 = 1 /\ Do(p) = "reset"
    BY <1>4, <1>6, <1>10, SetUpIs, StepsAre, NamesAre
  <2>2. Onward(p) /\ ptr' = 0 /\ waits' = FALSE /\ whole' = FALSE /\ garbled' = garbled
    BY <2>1, ResetStep, Zenon
  <2>3. QED
    BY <1>7, <1>10, <2>1, <2>2 DEF SetUpAt, s
<1>11. CASE i \in {1, 3, 4}
  <2>1. Do(p) \in {"low", "high"} /\ (i \in {1, 4} => Do(p) = "low")
    BY <1>4, <1>6, <1>11, SetUpIs, StepsAre, NamesAre
  <2>2. /\ Onward(p) /\ pin' = (IF Do(p) = "low" THEN 0 ELSE 1)
        /\ UNCHANGED <<ptr, waits, whole, garbled, faults>>
    BY <2>1, PinStep
  <2>3. Clean' => Clean
    BY <2>2 DEF Onward, Clean
  <2>4. i + 1 \in {2, 5} => pin' = 0
    BY <1>11, <2>1, <2>2
  <2>5. QED
    BY <1>7, <1>8, <1>11, <2>2, <2>3, <2>4 DEF SetUpAt, s
<1>12. CASE i \in {2, 5}
  <2>1. Do(p) \in {"init", "on"} /\ Do(p) # "value" /\ Do(p) # "contrast"
    BY <1>4, <1>6, <1>12, SetUpIs, StepsAre, NamesAre
  <2>2. Onward(p) /\ ~garbled' /\ ~waits' /\ UNCHANGED <<pin, ptr, shown, want, whole>>
    <3>1. waits = FALSE /\ garbled = FALSE /\ pin = 0
      BY <1>8, <1>12 DEF Types, PanelTypeOK
    <3>2. style # "fb"
      OBVIOUS
    <3>3. Onward(p) /\ UNCHANGED <<pin, ptr, shown, want, whole>>
      BY <2>1, <3>2, CommandStep
    <3>4. \/ garbled' = (garbled \/ pin = 1 \/ waits # (Do(p) = "value")) /\ waits' = (Do(p) = "contrast")
          \/ garbled' = garbled /\ waits' = waits
      BY <2>1, CommandStep
    <3>5. (Do(p) = "value") = FALSE /\ (Do(p) = "contrast") = FALSE /\ (pin = 1) = FALSE
      BY <2>1, <3>1
    <3>6. ~garbled' /\ ~waits'
      BY <3>1, <3>4, <3>5, Zenon
    <3>7. QED
      BY <3>3, <3>6
  <2>3. Clean' => Clean
    BY <2>1, <2>2, CommandStep, FaultIsUnclean, Zenon DEF Onward, Clean
  <2>4. CASE i = 2
    BY <1>7, <1>8, <2>2, <2>3, <2>4 DEF SetUpAt, s
  <2>5. CASE i = 5
    <3>1. i + 1 = 0 + 6 /\ 0 \div 2 = 0 /\ 0 % 2 = 0 /\ 0 % Pages = 0
      BY <2>5, EvenAndOdd, Counts
    <3>2. Clean' => ~whole' /\ ptr' = 0
      BY <1>8, <2>2, <2>3
    <3>3. steps'[p] = Rest(s, 0 + 6)
      BY <1>7, <2>2, <3>1
    <3>4. FillAt(pic, p, 0)'
      BY <3>1, <3>2, <3>3 DEF FillAt, s
    <3>5. QED
      BY <2>2, <2>5, <3>4
  <2>6. QED
    BY <1>12, <2>4, <2>5
<1>13. QED
  BY <1>9, <1>10, <1>11, <1>12

LEMMA Filling ==
    ASSUME Types, NEW p \in Proc, PanelStep(p), style = "spidev", NEW pic \in Pictures,
           NEW d \in 0 .. 2 * (2 * Pages), FillAt(pic, p, d), ~garbled, ~waits
    PROVE  /\ IF d = 2 * (2 * Pages) THEN SendAt(pic, p, 0)' ELSE FillAt(pic, p, d + 1)'
           /\ ~garbled' /\ ~waits' /\ Onward(p)
<1> DEFINE s == spioled1_main(pic)
           n == 2 * Pages
<1>1. pic \in SUBSET UprightPixels /\ pic \in AnyBits
  BY PicturesFit, PicturesAre DEF Types, PanelTypeOK
<1>2. s \in Seq(Step) /\ Len(s) = 8 + 3 * n /\ n \in Nat
  BY <1>1, MainIs, Counts
<1>3. d + 6 \in 0 .. Len(s) - 1 /\ d \in Nat
  BY <1>2
<1>4. steps[p] = Rest(s, d + 6)
  BY DEF FillAt
<1>5. Do(p) = s[(d + 6) + 1].do /\ Bits(p) = s[(d + 6) + 1].bits
  BY <1>2, <1>3, <1>4, Goes, Zenon
<1>6. Onward(p) => steps'[p] = Rest(s, (d + 6) + 1)
  BY <1>2, <1>3, <1>4, OnwardIs, Zenon
<1>7. /\ d % 2 = 1 => pin = 1
      /\ Clean => ~whole /\ ptr = (d \div 2) % Pages
  BY DEF FillAt
<1>8. d \in 0 .. 2 * n - 1 => s[(d + 6) + 1] = MainSoFar[d + 7]
  <2>1. d \in 0 .. 2 * n - 1 => (d + 6) + 1 \in 1 .. 6 + 2 * n /\ (d + 6) + 1 = d + 7
    BY <1>2
  <2>2. QED
    BY <1>1, <2>1, MainIs DEF s, n
<1> HIDE DEF s
<1>9. /\ d % 2 \in {0, 1}
      /\ d % 2 = 0 => (d + 1) % 2 = 1 /\ (d + 1) \div 2 = d \div 2
      /\ d % 2 = 1 => (d + 1) % 2 = 0 /\ (d + 1) \div 2 = (d \div 2) + 1
  BY <1>3, EvenAndOdd
<1>10. CASE d # 2 * n /\ d % 2 = 0
  <2>1. Do(p) = "high"
    <3>1. d \in 0 .. 2 * n - 1
      BY <1>10, Counts
    <3>2. MainSoFar[d + 7] = Cmd("high")
      BY <1>10, <3>1, SetUpIs DEF n
    <3>3. QED
      BY <1>5, <1>8, <3>1, <3>2, StepsAre, NamesAre
  <2>2. Onward(p) /\ pin' = 1 /\ UNCHANGED <<ptr, waits, whole, garbled, faults>>
    BY <2>1, PinStep
  <2>3. Clean' => Clean
    BY <2>2 DEF Onward, Clean
  <2>4. steps'[p] = Rest(s, (d + 1) + 6)
    BY <1>3, <1>6, <2>2
  <2>5. FillAt(pic, p, d + 1)'
    BY <1>7, <1>9, <1>10, <2>2, <2>3, <2>4 DEF FillAt, s
  <2>6. QED
    BY <1>10, <2>2, <2>5
<1>11. CASE d # 2 * n /\ d % 2 = 1
  <2>1. d \in 0 .. 2 * n - 1
    BY <1>2, <1>11
  <2>2. Do(p) = "page"
    <3>1. PICK bits \in SUBSET ((0 .. Columns - 1) \X (0 .. 7)) : MainSoFar[d + 7] = M("page", bits)
      BY <1>11, <2>1, SetUpIs DEF n
    <3>2. bits \in SUBSET Squares
      BY DEF Squares
    <3>3. QED
      BY <1>5, <1>8, <2>1, <3>1, <3>2, StepsAre
  <2>3. pin = 1
    BY <1>7, <1>11
  <2>4. Onward(p) /\ UNCHANGED <<pin, panelOn, waits, want, whole>> /\ ~garbled'
    <3>1. Onward(p) /\ UNCHANGED <<pin, panelOn, waits, want, whole>>
      BY <2>2, PageStep
    <3>2. garbled' = (garbled \/ pin = 0) \/ garbled' = garbled
      BY <2>2, PageStep
    <3>3. ~(pin = 0)
      BY <2>3
    <3>4. ~garbled'
      BY <3>2, <3>3, Zenon
    <3>5. QED
      BY <3>1, <3>4
  <2>5. ASSUME Clean' PROVE ~whole' /\ ptr' = ((d + 1) \div 2) % Pages
    <3>1. faults' = faults /\ ptr' = (ptr + 1) % Pages
      BY <2>2, <2>5, PageStep, FaultIsUnclean
    <3>2. Clean
      BY <2>4, <2>5, <3>1 DEF Onward, Clean
    <3>3. ~whole /\ ptr = (d \div 2) % Pages
      BY <1>7, <3>2
    <3>4. d \div 2 \in 0 .. 2 * Pages - 1
      BY <2>1, EvenAndOdd
    <3>5. (((d \div 2) % Pages) + 1) % Pages = ((d \div 2) + 1) % Pages
      BY <3>4, NextPage
    <3>6. QED
      BY <1>9, <1>11, <2>4, <3>1, <3>3, <3>5
  <2>6. steps'[p] = Rest(s, (d + 1) + 6)
    BY <1>3, <1>6, <2>4
  <2>7. FillAt(pic, p, d + 1)'
    BY <1>9, <1>11, <2>5, <2>6 DEF FillAt, s
  <2>8. QED
    BY <1>11, <2>4, <2>7
<1>12. CASE d = 2 * n
  <2>1. (d + 6) + 1 = 7 + 2 * n /\ 7 + 2 * n = 0 + (7 + 2 * n)
    BY <1>2, <1>12
  <2>2. s[7 + 2 * n] = M("draw", pic)
    BY <1>1, MainIs DEF s
  <2>3. Do(p) = "draw" /\ Bits(p) = pic
    BY <1>1, <1>5, <2>1, <2>2, StepsAre, NamesAre
  <2>4. /\ Onward(p) /\ UNCHANGED <<ptr, waits, garbled, faults>>
        /\ want' = pic /\ whole' = FALSE
    BY <2>3, DrawStep, Zenon
  <2>5. ASSUME Clean' PROVE ptr' = 0
    <3>1. Clean
      BY <2>4, <2>5 DEF Onward, Clean
    <3>2. ptr = (2 * Pages) % Pages
      BY <1>7, <1>12, <3>1, EvenAndOdd
    <3>3. (2 * Pages) % Pages = 0
      BY Rounds, PanelAssumption
    <3>4. QED
      BY <2>4, <3>2, <3>3
  <2>6. 0 \in 0 .. Pages - 1
    BY PanelAssumption
  <2>7. Sending(pic, 0, 0)'
    <3>1. Clean' => ~whole' /\ want' = pic /\ ptr' = 0
      BY <2>4, <2>5
    <3>2. 0 + 0 = 0 /\ 0 % Pages = 0 /\ 0 \div 2 = 0 /\ 0 % 2 # 1
      BY EvenAndOdd, Counts
    <3>3. PagesSent(pic, 0, 0)'
      BY DEF PagesSent
    <3>4. QED
      BY <3>1, <3>2, <3>3 DEF Sending
  <2>8. steps'[p] = Rest(s, 0 + (7 + 2 * n))
    BY <1>6, <2>1, <2>4
  <2>9. SendAt(pic, p, 0)'
    BY <2>7, <2>8 DEF SendAt, s
  <2>10. QED
    BY <1>12, <2>4, <2>9
<1>13. QED
  BY <1>9, <1>10, <1>11, <1>12

LEMMA Sends ==
    ASSUME Types, NEW p \in Proc, PanelStep(p), style = "spidev", NEW pic \in Pictures,
           NEW d \in 0 .. 2 * Pages, SendAt(pic, p, d), ~garbled, ~waits
    PROVE  /\ IF d = 2 * Pages THEN Ended(p)' ELSE SendAt(pic, p, d + 1)'
           /\ ~garbled' /\ ~waits' /\ Onward(p)
<1> DEFINE s == spioled1_main(pic)
           n == 2 * Pages
           m == 7 + 2 * n
<1>1. pic \in SUBSET UprightPixels /\ pic \in AnyBits
  BY PicturesFit, PicturesAre DEF Types, PanelTypeOK
<1>2. s \in Seq(Step) /\ Len(s) = 8 + 3 * n /\ n \in Nat /\ m \in Nat
  <2>1. n \in Nat /\ m \in Nat
    BY Counts
  <2>2. s \in Seq(Step) /\ Len(s) = 8 + 3 * (2 * Pages)
    BY <1>1, MainIs
  <2>3. QED
    BY <2>1, <2>2
<1>3. d + m \in 0 .. Len(s) - 1 /\ d \in Nat
  BY <1>2
<1>4. steps[p] = Rest(s, d + m) /\ Sending(pic, 0, d)
  BY DEF SendAt
<1>5. Do(p) = s[(d + m) + 1].do /\ Bits(p) = s[(d + m) + 1].bits
  <2> HIDE DEF s, m
  <2>1. QED
    BY <1>2, <1>3, <1>4, Goes, Zenon
<1>6. Onward(p) => steps'[p] = Rest(s, (d + m) + 1)
  <2> HIDE DEF s, m
  <2>1. QED
    BY <1>2, <1>3, <1>4, OnwardIs, Zenon
<1>7. (d + m) + 1 = (d + 1) + m /\ (d + m) + 1 = d + (8 + 2 * n)
  <2>1. m = 7 + 2 * n /\ n \in Nat /\ d \in Nat
    BY <1>2, <1>3
  <2> HIDE DEF m, n
  <2>2. QED
    BY <2>1
<1>8. 0 \in 0 .. Pages - 1
  BY PanelAssumption
<1>9. d \in 0 .. 2 * Pages - 1 =>
         s[d + (8 + 2 * n)] = IF d % 2 = 0 THEN Cmd("high") ELSE M("page", PageOf(Paint_bits(pic), d \div 2))
  BY <1>1, MainIs
<1>10. s[8 + 3 * n] = Cmd("drawn")
  BY <1>1, MainIs
<1> HIDE DEF s, m
<1>11. CASE d # 2 * Pages
  <2>1. d \in 0 .. 2 * Pages - 1
    BY <1>11, Counts
  <2>2. d % 2 = 0 => Do(p) = "high"
    BY <1>5, <1>7, <1>9, <2>1, StepsAre, NamesAre
  <2>3. d % 2 = 1 => Do(p) = "page" /\ Bits(p) = PageOf(Paint_bits(pic), d \div 2)
    <3>1. PageOf(Paint_bits(pic), d \div 2) \in SUBSET Squares
      BY PageIsPart
    <3>2. d % 2 = 1 => s[(d + m) + 1] = M("page", PageOf(Paint_bits(pic), d \div 2))
      BY <1>7, <1>9, <2>1
    <3>3. QED
      BY <1>5, <3>1, <3>2, StepsAre
  <2>4. Sending(pic, 0, d + 1)' /\ ~garbled' /\ Onward(p) /\ UNCHANGED <<waits, panelOn>>
    BY <1>4, <1>8, <2>1, <2>2, <2>3, SendingGoesOn
  <2>5. SendAt(pic, p, d + 1)'
    BY <1>6, <1>7, <2>4 DEF SendAt, s, m, n
  <2>6. QED
    BY <1>11, <2>4, <2>5
<1>12. CASE d = 2 * Pages
  <2>1. (d + m) + 1 = 8 + 3 * n
    <3>1. d = n /\ m = 7 + 2 * n /\ n \in Nat
      BY <1>2, <1>12 DEF m, n
    <3>2. QED
      BY <3>1
  <2>2. Do(p) = "drawn"
    BY <1>5, <1>10, <2>1, StepsAre, NamesAre
  <2>3. /\ Onward(p) /\ UNCHANGED <<pin, ptr, panelOn, waits, shown, garbled, faults>>
        /\ want' = want
    BY <2>2, DrawStep, Zenon
  <2>4. steps'[p] = <<>>
    <3>1. Len(s) = (d + m) + 1 /\ (d + m) + 1 \in 0 .. Len(s)
      BY <1>2, <2>1
    <3>2. Rest(s, (d + m) + 1) = <<>>
      BY <1>2, <3>1, RestOf
    <3>3. QED
      BY <1>6, <2>3, <3>2
  <2>5. ASSUME Clean' PROVE ptr' = 0 /\ shown' = Shifted(Turned(want), 0)'
    <3>1. Clean
      BY <2>3, <2>5 DEF Onward, Clean
    <3>2. want = pic /\ ptr = 0 /\ shown = Shifted(Turned(pic), 0)
      BY <1>1, <1>4, <1>8, <1>12, <3>1, SendingEnds
    <3>3. shown' = shown /\ want' = want /\ ptr' = ptr
      BY <2>3
    <3>4. QED
      BY <3>2, <3>3 DEF Shifted, Turned
  <2>6. Ended(p)'
    BY <2>4, <2>5 DEF Ended
  <2>7. QED
    BY <1>12, <2>3, <2>6
<1>13. QED
  BY <1>11, <1>12

LEMMA ProgramGoesOn ==
    ASSUME Types, NEW p \in Proc, PanelStep(p), style = "spidev", NEW pic \in Pictures,
           ProgramAt(pic, p), ~garbled, ~waits
    PROVE  ProgramAt(pic, p)' /\ ~garbled' /\ ~waits' /\ Onward(p)
<1>1. ASSUME NEW i \in 0 .. 5, SetUpAt(pic, p, i)
      PROVE  ProgramAt(pic, p)' /\ ~garbled' /\ ~waits' /\ Onward(p)
  <2>1. /\ IF i = 5 THEN FillAt(pic, p, 0)' ELSE SetUpAt(pic, p, i + 1)'
        /\ ~garbled' /\ ~waits' /\ Onward(p)
    BY <1>1, SettingUp
  <2>2. i # 5 => i + 1 \in 0 .. 5
    OBVIOUS
  <2>3. 0 \in 0 .. 2 * (2 * Pages)
    BY Counts
  <2>4. (\E e \in 0 .. 5 : SetUpAt(pic, p, e)') \/ (\E e \in 0 .. 2 * (2 * Pages) : FillAt(pic, p, e)')
    BY <2>1, <2>2, <2>3
  <2>5. ProgramAt(pic, p)'
    BY <2>4 DEF ProgramAt, SetUpAt, FillAt
  <2>6. QED
    BY <2>1, <2>5
<1>2. ASSUME NEW d \in 0 .. 2 * (2 * Pages), FillAt(pic, p, d)
      PROVE  ProgramAt(pic, p)' /\ ~garbled' /\ ~waits' /\ Onward(p)
  <2>1. /\ IF d = 2 * (2 * Pages) THEN SendAt(pic, p, 0)' ELSE FillAt(pic, p, d + 1)'
        /\ ~garbled' /\ ~waits' /\ Onward(p)
    BY <1>2, Filling
  <2>2. d # 2 * (2 * Pages) => d + 1 \in 0 .. 2 * (2 * Pages)
    BY Counts
  <2>3. 0 \in 0 .. 2 * Pages
    BY Counts
  <2>4. (\E e \in 0 .. 2 * Pages : SendAt(pic, p, e)') \/ (\E e \in 0 .. 2 * (2 * Pages) : FillAt(pic, p, e)')
    BY <2>1, <2>2, <2>3
  <2>5. ProgramAt(pic, p)'
    BY <2>4 DEF ProgramAt, SendAt, FillAt
  <2>6. QED
    BY <2>1, <2>5
<1>3. ASSUME NEW d \in 0 .. 2 * Pages, SendAt(pic, p, d)
      PROVE  ProgramAt(pic, p)' /\ ~garbled' /\ ~waits' /\ Onward(p)
  <2>1. /\ IF d = 2 * Pages THEN Ended(p)' ELSE SendAt(pic, p, d + 1)'
        /\ ~garbled' /\ ~waits' /\ Onward(p)
    BY <1>3, Sends
  <2>2. d # 2 * Pages => d + 1 \in 0 .. 2 * Pages
    BY Counts
  <2>3. Ended(p)' \/ (\E e \in 0 .. 2 * Pages : SendAt(pic, p, e)')
    BY <2>1, <2>2
  <2>4. ProgramAt(pic, p)'
    BY <2>3 DEF ProgramAt, SendAt, Ended
  <2>5. QED
    BY <2>1, <2>4
<1>4. ~Ended(p)
  BY WhatIsDone DEF Ended
<1>5. QED
  BY <1>1, <1>2, <1>3, <1>4, ProgramIs

LEMMA ProgramKept ==
    ASSUME Types, style = "spidev", ProgInv, [PanelNext]_dvars
    PROVE  ProgInv'
<1>1. /\ ~garbled /\ ~waits /\ sem = {}
      /\ opened = {} => ~whole /\ ptr = 0
      /\ \A q \in Proc : q \notin opened => steps[q] = <<>>
      /\ \A p \in opened : opened = {p} /\ \E pic \in Pictures : ProgramAt(pic, p)
  BY DEF ProgInv
<1>2. ASSUME NEW p \in Proc, Program(p)
      PROVE  ProgInv'
  <2>1. PICK pic \in Pictures : Starts(p, spioled1_main(pic))
    BY <1>2 DEF Program
  <2>2. /\ opened = {} /\ opened' = {p}
        /\ steps' = [steps EXCEPT ![p] = spioled1_main(pic)]
        /\ UNCHANGED <<style, sem, array, vmem, oled, want, whole, faults, missed>>
    BY <1>2, <2>1, Zenon DEF Program, Starts
  <2>3. /\ UNCHANGED <<pin, ptr, panelOn, waits, shown, garbled>>
        /\ UNCHANGED <<style, sem, want, whole, faults, missed>>
    BY <2>2 DEF oled
  <2>4. steps \in [Proc -> Seq(Step)] /\ style \in Styles
    BY DEF Types, PanelTypeOK
  <2>5. \A q \in Proc : q \notin opened' => steps'[q] = <<>>
    BY <1>1, <2>2, <2>4
  <2>6. spioled1_main(pic) \in Seq(Step)
    BY <2>4, CallsAre
  <2>7. steps'[p] = Rest(spioled1_main(pic), 0)
    <3>1. 0 \in 0 .. Len(spioled1_main(pic))
      BY <2>6
    <3>2. Rest(spioled1_main(pic), 0) = spioled1_main(pic)
      BY <2>6, <3>1, RestOf
    <3>3. QED
      BY <2>2, <2>4, <3>2
  <2>8. ProgramAt(pic, p)'
    <3>1. ~whole' /\ ptr' = 0 /\ 0 \in 0 .. 5 /\ 0 \notin {2, 5}
      BY <1>1, <2>2, <2>3
    <3>2. SetUpAt(pic, p, 0)'
      BY <2>7, <3>1 DEF SetUpAt
    <3>3. \E e \in 0 .. 5 : SetUpAt(pic, p, e)'
      BY <3>1, <3>2
    <3>4. QED
      BY <3>3 DEF ProgramAt, SetUpAt
  <2>9. ~garbled' /\ ~waits' /\ sem' = {}
    BY <1>1, <2>3
  <2>10. opened' # {} /\ \A q \in opened' : opened' = {q} /\ \E e \in Pictures : ProgramAt(e, q)'
    BY <2>2, <2>8
  <2>11. QED
    BY <2>5, <2>9, <2>10 DEF ProgInv
<1>3. ASSUME NEW p \in Proc, PanelStep(p)
      PROVE  ProgInv'
  <2>1. steps[p] # <<>>
    BY <1>3, WhatIsDone
  <2>2. p \in opened /\ opened = {p}
    BY <1>1, <2>1
  <2>3. PICK pic \in Pictures : ProgramAt(pic, p)
    BY <1>1, <2>2
  <2>4. ProgramAt(pic, p)' /\ ~garbled' /\ ~waits' /\ Onward(p)
    BY <1>1, <1>3, <2>3, ProgramGoesOn
  <2>5. sem' = sem /\ opened' = opened
    BY <2>4 DEF Onward
  <2>6. \A q \in Proc : q # p => steps'[q] = steps[q]
    BY <1>3, OnlyItsOwn DEF Types
  <2>7. \A q \in Proc : q \notin opened' => steps'[q] = <<>>
    BY <1>1, <2>2, <2>5, <2>6
  <2>8. opened' # {} /\ \A q \in opened' : opened' = {q} /\ \E e \in Pictures : ProgramAt(e, q)'
    BY <2>2, <2>4, <2>5
  <2>9. QED
    BY <1>1, <2>4, <2>5, <2>7, <2>8 DEF ProgInv
<1>4. CASE UNCHANGED dvars
  BY <1>4 DEF dvars, calls, oled, ghosts, ProgInv, ProgramAt, Sending, PagesSent, Clean, Shifted, Turned
<1>5. ASSUME NEW p \in Proc, OpenOled(p) \/ WriteOled(p) \/ ReleaseOled(p) \/ ProbeFb(p) \/ CallFb(p)
      PROVE  FALSE
  BY <1>5 DEF OpenOled, WriteOled, ReleaseOled, ProbeFb, CallFb
<1>6. QED
  BY <1>2, <1>3, <1>4, <1>5 DEF PanelNext

-----------------------------------------------------------------------------
(* The frame buffer.                                                       *)
LEMMA MemoryStep ==
    ASSUME NEW p \in Proc, PanelStep(p), Do(p) \in {"copy", "snap"}
    PROVE  /\ steps' = [steps EXCEPT ![p] = Tail(steps[p])] /\ opened' = opened
           /\ UNCHANGED <<pin, waits, shown, garbled, faults>>
           /\ Do(p) = "copy" => vmem' = Bits(p) /\ want' = Bits(p)
           /\ Do(p) = "snap" => array' = [array EXCEPT ![p] = vmem] /\ vmem' = vmem /\ want' = want
<1>1. Memory(p)
  BY WhatIsDone
<1>2. QED
  BY <1>1 DEF Memory, StepsOn, oled

LEMMA ScreenStep ==
    ASSUME NEW p \in Proc, PanelStep(p), Do(p) \in {"screen", "fill"}, faults \in Nat, faults' = faults
    PROVE  /\ Onward(p) /\ UNCHANGED <<pin, waits, want>> /\ garbled' = (garbled \/ pin = 0)
           /\ shown' = IF Do(p) = "fill" THEN Bits(p) ELSE Transpose(array[p])
<1>1. Screen(p) \/ Fault(p)
  BY WhatIsDone
<1>2. ~Fault(p)
  BY DEF Fault
<1>3. Screen(p)
  BY <1>1, <1>2
<1>4. QED
  BY <1>3 DEF Screen, StepsOn, Onward

LEMMA RegisterStep ==
    ASSUME NEW p \in Proc, PanelStep(p), Do(p) = "register"
    PROVE  /\ opened' = Proc /\ steps' = [steps EXCEPT ![p] = <<>>]
           /\ UNCHANGED <<pin, waits, shown, garbled, faults, want, vmem>>
<1>1. Register(p)
  BY WhatIsDone
<1>2. QED
  BY <1>1 DEF Register, oled

(* Commands that went well, as the frame buffer gives up after the others. *)
LEMMA CommandWell ==
    ASSUME Types, NEW p \in Proc, PanelStep(p), faults' = faults, pin = 0, ~garbled,
           Do(p) \in {"init", "on", "off", "contrast", "value"}, waits = (Do(p) = "value")
    PROVE  /\ Onward(p) /\ UNCHANGED <<pin, ptr, shown, want, whole>>
           /\ ~garbled' /\ waits' = (Do(p) = "contrast")
<1>1. faults \in Nat
  BY PanelAssumption DEF Types, PanelTypeOK
<1>2. faults' # faults + 1
  BY <1>1
<1>3. /\ Onward(p) /\ UNCHANGED <<pin, ptr, shown, want, whole>>
      /\ garbled' = (garbled \/ pin = 1 \/ waits # (Do(p) = "value"))
      /\ waits' = (Do(p) = "contrast")
  BY <1>2, CommandStep
<1>4. ~(pin = 1)
  OBVIOUS
<1>5. ~garbled'
  BY <1>3, <1>4, Zenon
<1>6. QED
  BY <1>3, <1>5

LEMMA ScreenWell ==
    ASSUME Types, NEW p \in Proc, PanelStep(p), faults' = faults, pin = 1, ~garbled,
           Do(p) \in {"screen", "fill"}
    PROVE  /\ Onward(p) /\ UNCHANGED <<pin, waits, want>> /\ ~garbled'
           /\ shown' = IF Do(p) = "fill" THEN Bits(p) ELSE Transpose(array[p])
<1>1. faults \in Nat
  BY PanelAssumption DEF Types, PanelTypeOK
<1>2. /\ Onward(p) /\ UNCHANGED <<pin, waits, want>> /\ garbled' = (garbled \/ pin = 0)
      /\ shown' = IF Do(p) = "fill" THEN Bits(p) ELSE Transpose(array[p])
  BY <1>1, ScreenStep
<1>3. ~(pin = 0)
  OBVIOUS
<1>4. ~garbled'
  BY <1>2, <1>3, Zenon
<1>5. QED
  BY <1>2, <1>4

(* What holds of the memory, and of the one call that is under way.        *)
FbBase ==
    /\ ~garbled /\ want = vmem
    /\ want # {} => \E pic \in Pictures : vmem = set_pixel(pic)
    /\ opened = {} => want = {}
FbCall(p) ==
    \/ steps[p] = <<>> /\ ~waits /\ Follows
    \/ Probing(p) \/ Copying(p) \/ Updating(p) \/ Blanking(p) \/ Dimming(p)

LEMMA BusyIs ==
    ASSUME Types, style = "fb", NEW p \in Proc,
           Probing(p) \/ Copying(p) \/ Updating(p) \/ Blanking(p) \/ Dimming(p)
    PROVE  steps[p] # <<>>
<1>1. CASE Probing(p)
  <2>1. PICK i \in 0 .. 10 : steps[p] = Rest(spi_ssd1309fb_probe, i)
    BY <1>1 DEF Probing
  <2>2. i \in 0 .. Len(spi_ssd1309fb_probe) - 1
    BY ProbeIs
  <2>3. QED
    BY <2>1, <2>2, ProbeIs, Goes, Zenon
<1>2. CASE Copying(p)
  <2>1. PICK pic \in Pictures : steps[p] = ssd1309fb_write(pic)
    BY <1>2 DEF Copying
  <2>2. set_pixel(pic) \in AnyBits
    BY PicturesFit, PicturesAre DEF Types, PanelTypeOK
  <2>3. QED
    BY <2>1, <2>2, CopyIs
<1>3. CASE Updating(p)
  <2>1. PICK i \in 0 .. 2 : steps[p] = Rest(ssd1309fb_update_display, i)
    BY <1>3 DEF Updating
  <2>2. i \in 0 .. Len(ssd1309fb_update_display) - 1
    BY UpdateIs
  <2>3. QED
    BY <2>1, <2>2, UpdateIs, Goes, Zenon
<1>4. CASE Blanking(p)
  <2>1. PICK c \in {"on", "off"}, i \in 0 .. 1 : steps[p] = Rest(ssd1309fb_blank(c), i)
    BY <1>4 DEF Blanking
  <2>2. i \in 0 .. Len(ssd1309fb_blank(c)) - 1
    BY BlankIs
  <2>3. QED
    BY <2>1, <2>2, BlankIs, Goes
<1>5. CASE Dimming(p)
  <2>1. PICK i \in 0 .. 3 : steps[p] = Rest(ssd1309fb_update_bl, i)
    BY <1>5 DEF Dimming
  <2>2. i \in 0 .. Len(ssd1309fb_update_bl) - 1
    BY DimIs
  <2>3. QED
    BY <2>1, <2>2, DimIs, Goes, Zenon
<1>6. QED
  BY <1>1, <1>2, <1>3, <1>4, <1>5

LEMMA FbInvIs ==
    ASSUME Types, style = "fb", ~overlap, faults = 0, NEW p \in Proc,
           \A q \in Proc : q # p => steps[q] = <<>>
    PROVE  FbInv <=> FbBase /\ FbCall(p)
<1>1. ASSUME FbInv PROVE FbBase /\ FbCall(p)
  BY <1>1 DEF FbInv, FbBase, FbCall
<1>2. ASSUME FbBase, FbCall(p) PROVE FbInv
  <2>1. \A q, r \in Proc : steps[q] # <<>> /\ steps[r] # <<>> => q = r
    OBVIOUS
  <2>2. (\A q \in Proc : steps[q] = <<>>) => ~waits /\ Follows
    BY <1>2, BusyIs DEF FbCall
  <2>3. \A q \in Proc : steps[q] # <<>> =>
           Probing(q) \/ Copying(q) \/ Updating(q) \/ Blanking(q) \/ Dimming(q)
    BY <1>2 DEF FbCall
  <2>4. QED
    BY <1>2, <2>1, <2>2, <2>3 DEF FbInv, FbBase
<1>3. QED
  BY <1>1, <1>2

FbFits(p) ==
    (/\ Types /\ style = "fb" /\ ~overlap /\ faults = 0
     /\ \A q \in Proc : q # p => steps[q] = <<>>) => (FbInv <=> FbBase /\ FbCall(p))

LEMMA FbInvFits == \A p \in Proc : FbFits(p)
  BY FbInvIs DEF FbFits

LEMMA FbInvFitsNext == (\A p \in Proc : FbFits(p))'
  BY FbInvFits, PTL

LEMMA BaseStays ==
    ASSUME FbBase, want' = want, vmem' = vmem, ~garbled', opened' = {} => opened = {}
    PROVE  FbBase'
  BY DEF FbBase

LEMMA ProbingGoesOn ==
    ASSUME Types, NEW p \in Proc, PanelStep(p), style = "fb", faults' = faults, FbBase, Probing(p)
    PROVE  FbBase' /\ FbCall(p)'
<1> DEFINE s == spi_ssd1309fb_probe
<1>1. s \in Seq(Step) /\ Len(s) = 11
  BY ProbeIs
<1>2. opened = {} /\ ~waits /\ ~garbled /\ waits = FALSE /\ want = {} /\ want = vmem
  BY DEF Probing, Types, PanelTypeOK, FbBase
<1>3. PICK i \in 0 .. 10 : steps[p] = Rest(s, i) /\ (i \in {2, 7} => pin = 0) /\ (i \in {5, 9} => pin = 1)
  BY DEF Probing
<1>4. i \in 0 .. Len(s) - 1
  BY <1>1
<1>5. Do(p) = s[i + 1].do
  BY <1>1, <1>3, <1>4, Goes, Zenon
<1>6. Onward(p) => steps'[p] = Rest(s, i + 1)
  BY <1>1, <1>3, <1>4, OnwardIs, Zenon
<1>7. ASSUME steps'[p] = Rest(s, i + 1), i # 10, opened' = opened, ~waits', ~garbled', want' = want, vmem' = vmem,
             i + 1 \in {2, 7} => pin' = 0, i + 1 \in {5, 9} => pin' = 1
      PROVE  FbBase' /\ FbCall(p)'
  <2>1. i + 1 \in 0 .. 10
    BY <1>7
  <2>2. Probing(p)'
    BY <1>2, <1>7, <2>1 DEF Probing
  <2>3. QED
    BY <1>7, <2>2, BaseStays DEF FbCall
<1>8. i = 0 \/ i \in {1, 4, 6, 8} \/ i \in {2, 7} \/ i = 3 \/ i \in {5, 9} \/ i = 10
  OBVIOUS
<1>9. CASE i = 0
  <2>1. i + 1 = 1 /\ Do(p) = "reset"
    BY <1>5, <1>9, ProbeIs, StepsAre, NamesAre
  <2>2. Onward(p) /\ waits' = FALSE /\ garbled' = garbled /\ want' = want
    BY <2>1, ResetStep, Zenon
  <2>3. opened' = opened /\ vmem' = vmem
    BY <2>2 DEF Onward
  <2>4. QED
    BY <1>2, <1>6, <1>7, <1>9, <2>1, <2>2, <2>3
<1>10. CASE i \in {1, 4, 6, 8}
  <2>1. /\ Do(p) \in {"low", "high"}
        /\ i \in {1, 6} => Do(p) = "low"
        /\ i \in {4, 8} => Do(p) = "high"
    BY <1>5, <1>10, ProbeIs, StepsAre, NamesAre
  <2>2. /\ Onward(p) /\ pin' = (IF Do(p) = "low" THEN 0 ELSE 1)
        /\ UNCHANGED <<ptr, panelOn, waits, shown, garbled, want, whole, faults>>
    BY <2>1, PinStep
  <2>3. opened' = opened /\ vmem' = vmem
    BY <2>2 DEF Onward
  <2>4. (i + 1 \in {2, 7} => pin' = 0) /\ (i + 1 \in {5, 9} => pin' = 1) /\ i # 10
    BY <1>10, <2>1, <2>2
  <2>5. ~waits' /\ ~garbled' /\ want' = want
    BY <1>2, <2>2
  <2>6. QED
    BY <1>6, <1>7, <2>2, <2>3, <2>4, <2>5
<1>11. CASE i \in {2, 7}
  <2>1. Do(p) \in {"init", "on"} /\ (Do(p) = "value") = FALSE /\ (Do(p) = "contrast") = FALSE
    BY <1>5, <1>11, ProbeIs, StepsAre, NamesAre
  <2>2. /\ Onward(p) /\ UNCHANGED <<pin, ptr, shown, want, whole>>
        /\ ~garbled' /\ waits' = (Do(p) = "contrast")
    BY <1>2, <1>3, <1>11, <2>1, CommandWell, Zenon
  <2>3. opened' = opened /\ vmem' = vmem
    BY <2>2 DEF Onward
  <2>4. i + 1 \notin {2, 7} /\ i + 1 \notin {5, 9} /\ i # 10
    BY <1>11
  <2>5. ~waits' /\ want' = want
    BY <2>1, <2>2, Zenon
  <2>6. QED
    BY <1>6, <1>7, <2>2, <2>3, <2>4, <2>5
<1>12. CASE i = 3
  <2>1. i + 1 = 4 /\ Do(p) = "snap"
    BY <1>5, <1>12, ProbeIs, StepsAre, NamesAre
  <2>2. /\ steps' = [steps EXCEPT ![p] = Tail(steps[p])] /\ opened' = opened
        /\ UNCHANGED <<pin, waits, shown, garbled, faults>> /\ vmem' = vmem /\ want' = want
    BY <2>1, MemoryStep
  <2>3. steps'[p] = Rest(s, i + 1)
    <3>1. Tail(steps[p]) = Rest(s, i + 1) /\ steps \in [Proc -> Seq(Step)]
      BY <1>1, <1>3, <1>4, Goes, Zenon DEF Types
    <3>2. QED
      BY <2>2, <3>1
  <2>4. ~waits' /\ ~garbled'
    BY <1>2, <2>2
  <2>5. QED
    BY <1>7, <1>12, <2>1, <2>2, <2>3, <2>4
<1>13. CASE i \in {5, 9}
  <2>1. Do(p) \in {"screen", "fill"}
    BY <1>5, <1>13, ProbeIs, StepsAre, NamesAre
  <2>2. Onward(p) /\ UNCHANGED <<pin, waits, want>> /\ ~garbled'
    BY <1>2, <1>3, <1>13, <2>1, ScreenWell
  <2>3. opened' = opened /\ vmem' = vmem
    BY <2>2 DEF Onward
  <2>4. i + 1 \notin {2, 7} /\ i + 1 \notin {5, 9} /\ i # 10
    BY <1>13
  <2>5. ~waits' /\ want' = want
    BY <1>2, <2>2
  <2>6. QED
    BY <1>6, <1>7, <2>2, <2>3, <2>4, <2>5
<1>14. CASE i = 10
  <2>1. i + 1 = 11 /\ Do(p) = "register"
    BY <1>5, <1>14, ProbeIs, StepsAre, NamesAre
  <2>2. /\ opened' = Proc /\ steps' = [steps EXCEPT ![p] = <<>>]
        /\ UNCHANGED <<pin, waits, shown, garbled, faults, want, vmem>>
    BY <2>1, RegisterStep
  <2>3. steps'[p] = <<>> /\ ~waits' /\ ~garbled' /\ want' = {} /\ want' = want /\ vmem' = vmem
    BY <1>2, <2>2 DEF Types
  <2>4. FbBase'
    BY <1>2, <2>3, BaseStays
  <2>5. FbCall(p)'
    BY <2>3 DEF FbCall, Follows
  <2>6. QED
    BY <2>4, <2>5
<1>15. QED
  BY <1>8, <1>9, <1>10, <1>11, <1>12, <1>13, <1>14

LEMMA CopyingGoesOn ==
    ASSUME Types, NEW p \in Proc, PanelStep(p), style = "fb", FbBase, Copying(p)
    PROVE  FbBase' /\ FbCall(p)'
<1>1. opened # {} /\ ~waits
  BY DEF Copying
<1>2. PICK pic \in Pictures : steps[p] = ssd1309fb_write(pic)
  BY DEF Copying
<1>3. set_pixel(pic) \in AnyBits
  BY PicturesFit, PicturesAre DEF Types, PanelTypeOK
<1>4. /\ Head(steps[p]) = M("copy", set_pixel(pic)) /\ Tail(steps[p]) = ssd1309fb_update_display
  BY <1>2, <1>3, CopyIs
<1>5. Do(p) = "copy" /\ Bits(p) = set_pixel(pic)
  BY <1>4 DEF Do, Bits, M
<1>6. /\ steps' = [steps EXCEPT ![p] = Tail(steps[p])] /\ opened' = opened
      /\ UNCHANGED <<pin, waits, shown, garbled, faults>>
      /\ vmem' = set_pixel(pic) /\ want' = set_pixel(pic)
  BY <1>5, MemoryStep
<1>7. opened' # {} /\ ~waits' /\ ~garbled'
  BY <1>1, <1>6 DEF FbBase
<1>8. FbBase'
  BY <1>6, <1>7 DEF FbBase
<1>9. steps'[p] = Rest(ssd1309fb_update_display, 0)
  <2>1. 0 \in 0 .. Len(ssd1309fb_update_display)
    BY UpdateIs
  <2>2. Rest(ssd1309fb_update_display, 0) = ssd1309fb_update_display
    BY <2>1, UpdateIs, RestOf
  <2>3. steps \in [Proc -> Seq(Step)]
    BY DEF Types
  <2>4. QED
    BY <1>4, <1>6, <2>2, <2>3
<1>10. Updating(p)'
  <2>1. 0 \in 0 .. 2 /\ 0 \notin {1, 2} /\ 0 # 2
    OBVIOUS
  <2>2. QED
    BY <1>7, <1>9, <2>1 DEF Updating
<1>11. QED
  BY <1>8, <1>10 DEF FbCall

LEMMA UpdatingGoesOn ==
    ASSUME Types, NEW p \in Proc, PanelStep(p), style = "fb", faults' = faults, FbBase, Updating(p)
    PROVE  FbBase' /\ FbCall(p)'
<1> DEFINE s == ssd1309fb_update_display
<1>1. s \in Seq(Step) /\ Len(s) = 3
  BY UpdateIs
<1>2. opened # {} /\ ~waits /\ ~garbled /\ want = vmem
  BY DEF Updating, FbBase
<1>3. PICK i \in 0 .. 2 : steps[p] = Rest(s, i) /\ (i \in {1, 2} => array[p] = vmem) /\ (i = 2 => pin = 1)
  BY DEF Updating
<1>4. i \in 0 .. Len(s) - 1
  BY <1>1
<1>5. Do(p) = s[i + 1].do /\ Tail(steps[p]) = Rest(s, i + 1) /\ steps \in [Proc -> Seq(Step)]
  BY <1>1, <1>3, <1>4, Goes, Zenon DEF Types
<1>6. i = 0 \/ i = 1 \/ i = 2
  OBVIOUS
<1>7. CASE i = 0
  <2>1. Do(p) = "snap"
    BY <1>5, <1>7, UpdateIs, StepsAre, NamesAre
  <2>2. /\ steps' = [steps EXCEPT ![p] = Tail(steps[p])] /\ opened' = opened
        /\ UNCHANGED <<pin, waits, shown, garbled, faults>>
        /\ array' = [array EXCEPT ![p] = vmem] /\ vmem' = vmem /\ want' = want
    BY <2>1, MemoryStep
  <2>3. steps'[p] = Rest(s, 1) /\ 1 \in 0 .. 2 /\ 1 # 2
    BY <1>5, <1>7, <2>2
  <2>4. ~waits' /\ ~garbled' /\ opened' # {}
    BY <1>2, <2>2
  <2>5. array'[p] = vmem'
    BY <2>2 DEF Types
  <2>6. Updating(p)'
    BY <2>3, <2>4, <2>5 DEF Updating
  <2>7. QED
    BY <2>2, <2>4, <2>6, BaseStays DEF FbCall
<1>8. CASE i = 1
  <2>1. Do(p) = "high"
    BY <1>5, <1>8, UpdateIs, StepsAre, NamesAre
  <2>2. /\ Onward(p) /\ pin' = 1
        /\ UNCHANGED <<ptr, panelOn, waits, shown, garbled, want, whole, faults>>
    BY <2>1, PinStep
  <2>3. /\ opened' = opened /\ vmem' = vmem /\ array' = array
        /\ steps' = [steps EXCEPT ![p] = Tail(steps[p])]
    BY <2>2 DEF Onward
  <2>4. steps'[p] = Rest(s, 2) /\ 2 \in 0 .. 2
    BY <1>5, <1>8, <2>3
  <2>5. ~waits' /\ ~garbled' /\ opened' # {} /\ want' = want
    BY <1>2, <2>2, <2>3
  <2>6. array'[p] = vmem'
    BY <1>3, <1>8, <2>3
  <2>7. Updating(p)'
    BY <2>2, <2>4, <2>5, <2>6 DEF Updating
  <2>8. QED
    BY <2>3, <2>5, <2>7, BaseStays DEF FbCall
<1>9. CASE i = 2
  <2>1. Do(p) = "screen" /\ Do(p) # "fill"
    BY <1>5, <1>9, UpdateIs, StepsAre, NamesAre
  <2>2. Onward(p) /\ UNCHANGED <<pin, waits, want>> /\ ~garbled' /\ shown' = Transpose(array[p])
    BY <1>2, <1>3, <1>9, <2>1, ScreenWell
  <2>3. /\ opened' = opened /\ vmem' = vmem /\ steps' = [steps EXCEPT ![p] = Tail(steps[p])]
    BY <2>2 DEF Onward
  <2>4. steps'[p] = <<>>
    <3>1. 3 \in 0 .. Len(s) /\ Len(s) = 3
      BY <1>1
    <3>2. Rest(s, 3) = <<>>
      BY <1>1, <3>1, RestOf, Zenon
    <3>3. QED
      BY <1>5, <1>9, <2>3, <3>2
  <2>5. ~waits' /\ opened' # {} /\ want' = want
    BY <1>2, <2>2, <2>3
  <2>6. shown' = Transpose(vmem)
    BY <1>3, <1>9, <2>2
  <2>7. Follows'
    BY <2>3, <2>6 DEF Follows, Transpose
  <2>8. QED
    BY <2>2, <2>3, <2>4, <2>5, <2>7, BaseStays DEF FbCall
<1>10. QED
  BY <1>6, <1>7, <1>8, <1>9

LEMMA BlankingGoesOn ==
    ASSUME Types, NEW p \in Proc, PanelStep(p), style = "fb", faults' = faults, FbBase, Blanking(p)
    PROVE  FbBase' /\ FbCall(p)'
<1>1. PICK c \in {"on", "off"}, i \in 0 .. 1 : steps[p] = Rest(ssd1309fb_blank(c), i) /\ (i = 1 => pin = 0)
  BY DEF Blanking
<1> DEFINE s == ssd1309fb_blank(c)
<1>2. s \in Seq(Step) /\ Len(s) = 2 /\ s[1] = Cmd("low") /\ s[2] = Cmd(c)
  BY BlankIs
<1>3. opened # {} /\ ~waits /\ waits = FALSE /\ ~garbled /\ Follows
  BY DEF Blanking, FbBase, Types, PanelTypeOK
<1>4. i \in 0 .. Len(s) - 1
  BY <1>2
<1>5. steps[p] = Rest(s, i)
  BY <1>1
<1> HIDE DEF s
<1>6. Do(p) = s[i + 1].do /\ (Onward(p) => steps'[p] = Rest(s, i + 1))
  BY <1>2, <1>4, <1>5, Goes, OnwardIs
<1>7. CASE i = 0
  <2>1. Do(p) = "low"
    BY <1>2, <1>6, <1>7, StepsAre, NamesAre
  <2>2. /\ Onward(p) /\ pin' = 0
        /\ UNCHANGED <<ptr, panelOn, waits, shown, garbled, want, whole, faults>>
    BY <2>1, PinStep
  <2>3. opened' = opened /\ vmem' = vmem
    BY <2>2 DEF Onward
  <2>4. steps'[p] = Rest(s, 1) /\ 1 \in 0 .. 1
    BY <1>6, <1>7, <2>2
  <2>5. ~waits' /\ ~garbled' /\ opened' # {} /\ want' = want /\ shown' = shown
    BY <1>3, <2>2, <2>3
  <2>6. Follows'
    BY <1>3, <2>3, <2>5 DEF Follows, Transpose
  <2>7. Blanking(p)'
    BY <2>2, <2>4, <2>5, <2>6 DEF Blanking, s
  <2>8. QED
    BY <2>3, <2>5, <2>7, BaseStays DEF FbCall
<1>8. CASE i = 1
  <2>1. Do(p) \in {"on", "off"} /\ (Do(p) = "value") = FALSE /\ (Do(p) = "contrast") = FALSE
    BY <1>2, <1>6, <1>8, StepsAre, NamesAre
  <2>2. /\ Onward(p) /\ UNCHANGED <<pin, ptr, shown, want, whole>>
        /\ ~garbled' /\ waits' = (Do(p) = "contrast")
    BY <1>1, <1>3, <1>8, <2>1, CommandWell, Zenon
  <2>3. opened' = opened /\ vmem' = vmem
    BY <2>2 DEF Onward
  <2>4. steps'[p] = <<>>
    <3>1. 2 \in 0 .. Len(s) /\ Len(s) = 2 /\ i + 1 = 2
      BY <1>2, <1>8
    <3>2. Rest(s, 2) = <<>>
      BY <1>2, <3>1, RestOf, Zenon
    <3>3. QED
      BY <1>6, <2>2, <3>1, <3>2
  <2>5. ~waits' /\ opened' # {} /\ want' = want /\ shown' = shown
    BY <1>3, <2>1, <2>2, <2>3, Zenon
  <2>6. Follows'
    BY <1>3, <2>3, <2>5 DEF Follows, Transpose
  <2>7. QED
    BY <2>2, <2>3, <2>4, <2>5, <2>6, BaseStays DEF FbCall
<1>9. QED
  BY <1>7, <1>8

LEMMA DimmingGoesOn ==
    ASSUME Types, NEW p \in Proc, PanelStep(p), style = "fb", faults' = faults, FbBase, Dimming(p)
    PROVE  FbBase' /\ FbCall(p)'
<1> DEFINE s == ssd1309fb_update_bl
<1>1. PICK i \in 0 .. 3 : /\ steps[p] = Rest(s, i) /\ (i \in {1, 3} => pin = 0)
                          /\ waits <=> i \in {2, 3}
  BY DEF Dimming
<1>2. /\ s \in Seq(Step) /\ Len(s) = 4
      /\ s[1] = Cmd("low") /\ s[2] = Cmd("contrast") /\ s[3] = Cmd("low") /\ s[4] = Cmd("value")
  BY DimIs
<1>3. opened # {} /\ waits \in BOOLEAN /\ ~garbled /\ Follows
  BY DEF Dimming, FbBase, Types, PanelTypeOK
<1>4. i \in 0 .. Len(s) - 1
  BY <1>2
<1> HIDE DEF s
<1>5. Do(p) = s[i + 1].do /\ (Onward(p) => steps'[p] = Rest(s, i + 1))
  BY <1>1, <1>2, <1>4, Goes, OnwardIs, Zenon
<1>6. CASE i \in {0, 2}
  <2>1. Do(p) = "low"
    BY <1>2, <1>5, <1>6, StepsAre, NamesAre
  <2>2. /\ Onward(p) /\ pin' = 0
        /\ UNCHANGED <<ptr, panelOn, waits, shown, garbled, want, whole, faults>>
    BY <2>1, PinStep
  <2>3. opened' = opened /\ vmem' = vmem
    BY <2>2 DEF Onward
  <2>4. ~garbled' /\ opened' # {} /\ want' = want /\ shown' = shown /\ waits' = waits
    BY <1>3, <2>2, <2>3
  <2>5. steps'[p] = Rest(s, i + 1) /\ i + 1 \in 0 .. 3 /\ (waits' <=> i + 1 \in {2, 3})
    BY <1>1, <1>5, <1>6, <2>2, <2>4
  <2>6. Follows'
    BY <1>3, <2>3, <2>4 DEF Follows, Transpose
  <2>7. Dimming(p)'
    BY <2>2, <2>4, <2>5, <2>6 DEF Dimming, s
  <2>8. QED
    BY <2>3, <2>4, <2>7, BaseStays DEF FbCall
<1>7. CASE i = 1
  <2>1. Do(p) = "contrast" /\ (Do(p) = "value") = FALSE
    BY <1>2, <1>5, <1>7, StepsAre, NamesAre
  <2>2. waits = FALSE /\ pin = 0
    BY <1>1, <1>3, <1>7
  <2>3. /\ Onward(p) /\ UNCHANGED <<pin, ptr, shown, want, whole>>
        /\ ~garbled' /\ waits' = (Do(p) = "contrast")
    BY <1>3, <2>1, <2>2, CommandWell
  <2>4. opened' = opened /\ vmem' = vmem
    BY <2>3 DEF Onward
  <2>5. opened' # {} /\ want' = want /\ shown' = shown /\ waits'
    BY <1>3, <2>1, <2>3, <2>4, Zenon
  <2>6. steps'[p] = Rest(s, 2) /\ 2 \in 0 .. 3 /\ 2 \notin {1, 3}
    BY <1>5, <1>7, <2>3
  <2>7. Follows'
    BY <1>3, <2>4, <2>5 DEF Follows, Transpose
  <2>8. Dimming(p)'
    BY <2>5, <2>6, <2>7 DEF Dimming, s
  <2>9. QED
    BY <2>3, <2>4, <2>5, <2>8, BaseStays DEF FbCall
<1>8. CASE i = 3
  <2>1. Do(p) = "value" /\ (Do(p) = "contrast") = FALSE
    BY <1>2, <1>5, <1>8, StepsAre, NamesAre
  <2>2. waits = TRUE /\ pin = 0
    BY <1>1, <1>3, <1>8
  <2>3. /\ Onward(p) /\ UNCHANGED <<pin, ptr, shown, want, whole>>
        /\ ~garbled' /\ waits' = (Do(p) = "contrast")
    BY <1>3, <2>1, <2>2, CommandWell, Zenon
  <2>4. opened' = opened /\ vmem' = vmem
    BY <2>3 DEF Onward
  <2>5. opened' # {} /\ want' = want /\ shown' = shown /\ ~waits'
    BY <1>3, <2>1, <2>3, <2>4, Zenon
  <2>6. steps'[p] = <<>>
    <3>1. 4 \in 0 .. Len(s) /\ Len(s) = 4 /\ i + 1 = 4
      BY <1>2, <1>8
    <3>2. Rest(s, 4) = <<>>
      BY <1>2, <3>1, RestOf, Zenon
    <3>3. QED
      BY <1>5, <2>3, <3>1, <3>2
  <2>7. Follows'
    BY <1>3, <2>4, <2>5 DEF Follows, Transpose
  <2>8. QED
    BY <2>3, <2>4, <2>5, <2>6, <2>7, BaseStays DEF FbCall
<1>9. QED
  BY <1>6, <1>7, <1>8

(* A call of the frame buffer begins, none being under way.                *)
LEMMA FbBegins ==
    ASSUME Types, style = "fb", NEW p \in Proc, ProbeFb(p) \/ CallFb(p), FbBase, FbCall(p),
           steps[p] = <<>>
    PROVE  FbBase' /\ FbCall(p)'
<1>1. steps \in [Proc -> Seq(Step)] /\ style \in Styles
  BY DEF Types, PanelTypeOK
<1>2. ~waits /\ Follows /\ ~garbled
  BY BusyIs DEF FbCall, FbBase
<1>3. PICK s \in Seq(Step) : Starts(p, s)
  BY <1>1, Begins
<1>4. /\ UNCHANGED <<style, sem, array, vmem, oled, want, whole, faults, missed>>
      /\ opened' = opened
  BY <1>3 DEF Starts, ProbeFb, CallFb
<1>5. /\ want' = want /\ vmem' = vmem /\ shown' = shown /\ waits' = waits /\ garbled' = garbled
  BY <1>4 DEF oled
<1>6. FbBase' /\ ~waits' /\ Follows'
  BY <1>2, <1>4, <1>5, BaseStays DEF Follows, Transpose
<1>7. \A t : Starts(p, t) => steps'[p] = t
  BY <1>1 DEF Starts
<1>8. \A t \in Seq(Step) : Rest(t, 0) = t
  <2>1. \A t \in Seq(Step) : 0 \in 0 .. Len(t)
    OBVIOUS
  <2>2. QED
    BY <2>1, RestOf
<1>9. CASE ProbeFb(p)
  <2>1. opened' = {} /\ steps'[p] = Rest(spi_ssd1309fb_probe, 0)
    BY <1>4, <1>7, <1>8, <1>9, ProbeIs DEF ProbeFb
  <2>2. 0 \in 0 .. 10 /\ 0 \notin {2, 7} /\ 0 \notin {5, 9}
    OBVIOUS
  <2>3. Probing(p)'
    BY <1>6, <2>1, <2>2 DEF Probing
  <2>4. QED
    BY <1>6, <2>3 DEF FbCall
<1>10. CASE CallFb(p)
  <2>1. opened' # {}
    BY <1>4, <1>10 DEF CallFb
  <2>2. \/ \E pic \in Pictures : Starts(p, ssd1309fb_write(pic))
        \/ \E c \in {"on", "off"} : Starts(p, ssd1309fb_blank(c))
        \/ Starts(p, ssd1309fb_update_bl) \/ Starts(p, ssd1309fb_update_display)
    BY <1>10 DEF CallFb
  <2>3. ASSUME NEW pic \in Pictures, Starts(p, ssd1309fb_write(pic))
        PROVE  Copying(p)'
    BY <1>6, <1>7, <2>1, <2>3 DEF Copying
  <2>4. ASSUME NEW c \in {"on", "off"}, Starts(p, ssd1309fb_blank(c))
        PROVE  Blanking(p)'
    <3>1. steps'[p] = Rest(ssd1309fb_blank(c), 0) /\ 0 \in 0 .. 1 /\ 0 # 1
      BY <1>7, <1>8, <2>4, BlankIs
    <3>2. QED
      BY <1>6, <2>1, <3>1 DEF Blanking
  <2>5. ASSUME Starts(p, ssd1309fb_update_bl)
        PROVE  Dimming(p)'
    <3>1. steps'[p] = Rest(ssd1309fb_update_bl, 0) /\ 0 \in 0 .. 3 /\ 0 \notin {1, 3} /\ 0 \notin {2, 3}
      BY <1>7, <1>8, <2>5, DimIs
    <3>2. QED
      BY <1>6, <2>1, <3>1 DEF Dimming
  <2>6. ASSUME Starts(p, ssd1309fb_update_display)
        PROVE  Updating(p)'
    <3>1. steps'[p] = Rest(ssd1309fb_update_display, 0) /\ 0 \in 0 .. 2 /\ 0 \notin {1, 2} /\ 0 # 2
      BY <1>7, <1>8, <2>6, UpdateIs
    <3>2. QED
      BY <1>6, <2>1, <3>1 DEF Updating
  <2>7. QED
    BY <1>6, <2>2, <2>3, <2>4, <2>5, <2>6 DEF FbCall
<1>11. QED
  BY <1>9, <1>10

LEMMA FbKept ==
    ASSUME Types, style = "fb", FbInv, [PanelNext]_dvars
    PROVE  FbInv'
<1>1. CASE UNCHANGED dvars
  BY <1>1 DEF dvars, calls, oled, ghosts, FbInv, Follows, Transpose, Probing, Copying, Updating, Blanking, Dimming
<1>2. ASSUME NEW p \in Proc, PanelStep(p), ~overlap', faults' = 0
      PROVE  FbInv'
  <2>1. /\ style' = style /\ overlap' = overlap /\ faults' \in {faults, faults + 1}
        /\ \A q \in Proc : q # p => steps'[q] = steps[q]
    BY <1>2, OnlyItsOwn DEF Types
  <2>2. faults = 0 /\ faults' = faults /\ ~overlap
    BY <1>2, <2>1, PanelAssumption DEF Types, PanelTypeOK
  <2>3. steps[p] # <<>>
    BY <1>2, WhatIsDone
  <2>4. \A q \in Proc : q # p => steps[q] = <<>>
    BY <2>2, <2>3 DEF FbInv
  <2>5. FbBase /\ FbCall(p)
    BY <2>2, <2>4, FbInvIs
  <2>6. FbBase' /\ FbCall(p)'
    BY <1>2, <2>2, <2>3, <2>5, ProbingGoesOn, CopyingGoesOn, UpdatingGoesOn, BlankingGoesOn,
       DimmingGoesOn DEF FbCall
  <2>7. Types' /\ style' = "fb" /\ \A q \in Proc : q # p => steps'[q] = <<>>
    BY <1>2, <2>1, <2>4, StepKeepsTypes
  <2>8. FbInv'
    <3>1. FbFits(p)'
      BY FbInvFitsNext
    <3>2. QED
      BY <1>2, <2>6, <2>7, <3>1 DEF FbFits
  <2>9. QED
    BY <2>8
<1>3. ASSUME NEW p \in Proc, ProbeFb(p) \/ CallFb(p), ~overlap', faults' = 0
      PROVE  FbInv'
  <2>1. style \in Styles /\ steps \in [Proc -> Seq(Step)] /\ overlap \in BOOLEAN
    BY DEF Types, PanelTypeOK
  <2>2. PICK s \in Seq(Step) : Starts(p, s)
    BY <1>3, <2>1, Begins
  <2>3. /\ steps[p] = <<>> /\ overlap' = (overlap \/ \E q \in Proc : steps[q] # <<>>)
        /\ steps' = [steps EXCEPT ![p] = s] /\ style' = style /\ faults' = faults
    BY <2>2 DEF Starts
  <2>4. ~overlap /\ faults = 0 /\ \A q \in Proc : steps[q] = <<>>
    BY <1>3, <2>1, <2>3, Zenon
  <2>5. FbBase /\ FbCall(p)
    BY <2>4, FbInvIs
  <2>6. FbBase' /\ FbCall(p)'
    BY <1>3, <2>3, <2>5, FbBegins
  <2>7. style' = "fb" /\ \A q \in Proc : q # p => steps'[q] = <<>>
    BY <2>1, <2>3, <2>4
  <2>8. Types'
    BY <1>3, TypesKept DEF PanelNext
  <2>9. FbFits(p)'
    BY FbInvFitsNext
  <2>10. QED
    BY <1>3, <2>6, <2>7, <2>8, <2>9 DEF FbFits
<1>4. ASSUME NEW p \in Proc, OpenOled(p) \/ WriteOled(p) \/ ReleaseOled(p) \/ Program(p)
      PROVE  FALSE
  BY <1>4 DEF OpenOled, WriteOled, ReleaseOled, Program
<1>5. overlap' \/ faults' # 0 => FbInv'
  BY DEF FbInv
<1>6. QED
  BY <1>1, <1>2, <1>3, <1>4, <1>5 DEF PanelNext

-----------------------------------------------------------------------------
(* The character device.                                                   *)
LEMMA UpStep ==
    ASSUME NEW p \in Proc, PanelStep(p), Do(p) = "up"
    PROVE  /\ steps' = [steps EXCEPT ![p] = Tail(steps[p])] /\ opened' = opened /\ sem' = {}
           /\ UNCHANGED <<pin, ptr, panelOn, waits, shown, garbled, want, whole, faults, missed>>
<1>1. Up(p)
  BY WhatIsDone
<1>2. QED
  BY <1>1 DEF Up, StepsOn, oled

LEMMA OpenIsNoOther ==
    /\ <<>> # oled_open
    /\ \A pic \in AnyBits : oled_write(pic) # oled_open
<1>1. <<>> # oled_open
  <2>1. Len(<<>>) = 0
    OBVIOUS
  <2>2. Len(oled_open) # 0
    BY OpenIs
  <2>3. QED
    BY <2>1, <2>2
<1>2. ASSUME NEW pic \in AnyBits PROVE oled_write(pic) # oled_open
  <2>1. oled_write(pic)[2] = M("draw", pic) /\ M("draw", pic).do = "draw"
    BY WriteIs, StepsAre, NamesAre
  <2>2. oled_open[2] = Cmd("reset") /\ Cmd("reset").do = "reset"
    BY OpenIs, StepsAre, NamesAre
  <2>3. QED
    BY <2>1, <2>2
<1>3. QED
  BY <1>1, <1>2

LEMMA RestStays ==
    ASSUME AtRest, ptr' = ptr, whole' = whole, shown' = shown, want' = want,
           \A q \in opened' : steps'[q] # oled_open => q \in opened /\ steps[q] # oled_open
    PROVE  AtRest'
<1>1. (whole' \/ \E q \in opened' : steps'[q] # oled_open) => ptr' = 1 % Pages
  BY DEF AtRest
<1>2. whole' => shown' = Shifted(Turned(want), 1 % Pages)'
  BY DEF AtRest, Shifted, Turned
<1>3. QED
  BY <1>1, <1>2 DEF AtRest

(* What the process that holds the semaphore does next.                    *)
HoldsOn(p) ==
    /\ ~garbled' /\ ~waits' /\ opened' = opened
    /\ \/ sem' = sem /\ (Opening(p)' \/ Writing(p)' \/ Releasing(p)')
       \/ sem' = {} /\ steps'[p] = <<>> /\ (Clean' => AtRest')

LEMMA OpeningGoesOn ==
    ASSUME Types, NEW p \in Proc, PanelStep(p), style = "oled", ~garbled, ~waits, Opening(p)
    PROVE  HoldsOn(p)
<1> DEFINE s == oled_open
<1>1. s \in Seq(Step) /\ Len(s) = 11
  BY OpenIs
<1>2. p \in opened /\ waits = FALSE /\ garbled = FALSE
  BY DEF Opening, Types, PanelTypeOK
<1>3. PICK i \in 1 .. 10 : steps[p] = Rest(s, i) /\ OpenAt(i)
  BY DEF Opening
<1>4. i \in 0 .. Len(s) - 1
  BY <1>1
<1>5. Do(p) = s[i + 1].do
  BY <1>1, <1>3, <1>4, Goes, Zenon
<1>6. Onward(p) => steps'[p] = Rest(s, i + 1)
  BY <1>1, <1>3, <1>4, OnwardIs, Zenon
<1>7. /\ i \in {3, 6} => pin = 0
      /\ i = 9 => pin = 1
      /\ Clean => /\ i >= 2 => ~whole
                  /\ i \in 2 .. 9 => ptr = 0
                  /\ i = 10 => ptr = 1 % Pages
  BY <1>3 DEF OpenAt
<1>8. ASSUME Onward(p), i # 10, ~waits', ~garbled',
             i + 1 \in {3, 6} => pin' = 0, i + 1 = 9 => pin' = 1,
             Clean' => ~whole' /\ (i + 1 # 10 => ptr' = 0) /\ (i + 1 = 10 => ptr' = 1 % Pages)
      PROVE  HoldsOn(p)
  <2>1. i + 1 \in 1 .. 10
    BY <1>8
  <2>2. OpenAt(i + 1)'
    BY <1>8, <2>1 DEF OpenAt
  <2>3. opened' = opened /\ sem' = sem
    BY <1>8 DEF Onward
  <2>4. Opening(p)'
    BY <1>2, <1>6, <1>8, <2>1, <2>2, <2>3 DEF Opening
  <2>5. QED
    BY <1>8, <2>3, <2>4 DEF HoldsOn
<1>9. i = 1 \/ i \in {2, 4, 5, 7, 8} \/ i \in {3, 6} \/ i = 9 \/ i = 10
  OBVIOUS
<1>10. CASE i = 1
  <2>1. i + 1 = 2 /\ Do(p) = "reset"
    BY <1>5, <1>10, OpenIs, StepsAre, NamesAre
  <2>2. Onward(p) /\ ptr' = 0 /\ waits' = FALSE /\ whole' = FALSE /\ garbled' = garbled
    BY <2>1, ResetStep, Zenon
  <2>3. QED
    BY <1>2, <1>8, <1>10, <2>1, <2>2
<1>11. CASE i \in {2, 4, 5, 7, 8}
  <2>1. /\ Do(p) \in {"low", "high"}
        /\ i \in {2, 5} => Do(p) = "low"
        /\ i = 8 => Do(p) = "high"
    BY <1>5, <1>11, OpenIs, StepsAre, NamesAre
  <2>2. /\ Onward(p) /\ pin' = (IF Do(p) = "low" THEN 0 ELSE 1)
        /\ UNCHANGED <<ptr, panelOn, waits, shown, garbled, want, whole, faults>>
    BY <2>1, PinStep
  <2>3. Clean' => Clean
    BY <2>2 DEF Onward, Clean
  <2>4. (i + 1 \in {3, 6} => pin' = 0) /\ (i + 1 = 9 => pin' = 1) /\ i # 10 /\ i + 1 # 10 /\ i \in 2 .. 9 /\ i >= 2
    BY <1>11, <2>1, <2>2
  <2>5. ~waits' /\ ~garbled' /\ (Clean' => ~whole' /\ ptr' = 0)
    BY <1>2, <1>7, <2>2, <2>3, <2>4
  <2>6. QED
    BY <1>8, <2>2, <2>4, <2>5
<1>12. CASE i \in {3, 6}
  <2>1. Do(p) \in {"init", "on"} /\ (Do(p) = "value") = FALSE /\ (Do(p) = "contrast") = FALSE
    BY <1>5, <1>12, OpenIs, StepsAre, NamesAre
  <2>2. Onward(p) /\ ~garbled' /\ ~waits' /\ UNCHANGED <<pin, ptr, shown, want, whole>>
    <3>1. (pin = 1) = FALSE
      BY <1>7, <1>12
    <3>2. Onward(p) /\ UNCHANGED <<pin, ptr, shown, want, whole>>
      BY <2>1, CommandStep
    <3>3. \/ garbled' = (garbled \/ pin = 1 \/ waits # (Do(p) = "value")) /\ waits' = (Do(p) = "contrast")
          \/ garbled' = garbled /\ waits' = waits
      BY <2>1, CommandStep
    <3>4. ~garbled' /\ ~waits'
      BY <1>2, <2>1, <3>1, <3>3, Zenon
    <3>5. QED
      BY <3>2, <3>4
  <2>3. Clean' => Clean
    BY <2>1, <2>2, CommandStep, FaultIsUnclean, Zenon DEF Onward, Clean
  <2>4. i # 10 /\ i + 1 \notin {3, 6} /\ i + 1 # 9 /\ i + 1 # 10 /\ i \in 2 .. 9 /\ i >= 2
    BY <1>12
  <2>5. Clean' => ~whole' /\ ptr' = 0
    BY <1>7, <2>2, <2>3, <2>4
  <2>6. QED
    BY <1>8, <2>2, <2>4, <2>5
<1>13. CASE i = 9
  <2>1. i + 1 = 10 /\ Do(p) = "page"
    <3>1. {} \in SUBSET Squares
      OBVIOUS
    <3>2. QED
      BY <1>5, <1>13, <3>1, OpenIs, StepsAre
  <2>2. Onward(p) /\ UNCHANGED <<pin, panelOn, waits, want, whole>>
    BY <2>1, PageStep
  <2>3. ~garbled'
    <3>1. garbled' = (garbled \/ pin = 0) \/ garbled' = garbled
      BY <2>1, PageStep
    <3>2. ~(pin = 0)
      BY <1>7, <1>13
    <3>3. QED
      BY <1>2, <3>1, <3>2, Zenon
  <2>4. ASSUME Clean' PROVE ~whole' /\ ptr' = 1 % Pages
    <3>1. faults' = faults /\ ptr' = (ptr + 1) % Pages
      BY <2>1, <2>4, PageStep, FaultIsUnclean
    <3>2. Clean
      BY <2>2, <2>4, <3>1 DEF Onward, Clean
    <3>3. ~whole /\ ptr = 0 /\ 0 + 1 = 1
      BY <1>7, <1>13, <3>2
    <3>4. QED
      BY <2>2, <3>1, <3>3
  <2>5. ~waits'
    BY <1>2, <2>2
  <2>6. i # 10 /\ i + 1 \notin {3, 6} /\ i + 1 # 9
    BY <1>13
  <2>7. QED
    BY <1>8, <2>1, <2>2, <2>3, <2>4, <2>5, <2>6
<1>14. CASE i = 10
  <2>1. i + 1 = 11 /\ Do(p) = "up"
    BY <1>5, <1>14, OpenIs, StepsAre, NamesAre
  <2>2. /\ steps' = [steps EXCEPT ![p] = Tail(steps[p])] /\ opened' = opened /\ sem' = {}
        /\ UNCHANGED <<pin, ptr, panelOn, waits, shown, garbled, want, whole, faults, missed>>
    BY <2>1, UpStep
  <2>3. steps'[p] = <<>>
    <3>1. Tail(steps[p]) = Rest(s, i + 1) /\ steps \in [Proc -> Seq(Step)]
      BY <1>1, <1>3, <1>4, Goes, Zenon DEF Types
    <3>2. 11 \in 0 .. Len(s) /\ 11 = Len(s)
      BY <1>1
    <3>3. Rest(s, 11) = <<>>
      BY <1>1, <3>2, RestOf, Zenon
    <3>4. QED
      BY <2>1, <2>2, <3>1, <3>3
  <2>4. ASSUME Clean' PROVE AtRest'
    <3>1. Clean
      BY <2>2, <2>4 DEF Clean
    <3>2. ~whole' /\ ptr' = 1 % Pages
      BY <1>7, <1>14, <2>2, <3>1
    <3>3. QED
      BY <3>2 DEF AtRest
  <2>5. ~garbled' /\ ~waits'
    BY <1>2, <2>2
  <2>6. QED
    BY <2>2, <2>3, <2>4, <2>5 DEF HoldsOn
<1>15. QED
  BY <1>9, <1>10, <1>11, <1>12, <1>13, <1>14

LEMMA ReleasingGoesOn ==
    ASSUME Types, NEW p \in Proc, PanelStep(p), style = "oled", ~garbled, ~waits, Releasing(p)
    PROVE  HoldsOn(p)
<1> DEFINE s == oled_release
<1>1. s \in Seq(Step) /\ Len(s) = 5
  BY ReleaseIs
<1>2. p \notin opened /\ waits = FALSE /\ garbled = FALSE /\ opened \subseteq Proc
  BY DEF Releasing, Types, PanelTypeOK
<1>3. PICK i \in 1 .. 4 : steps[p] = Rest(s, i) /\ ReleaseAt(i)
  BY DEF Releasing
<1>4. i \in 0 .. Len(s) - 1
  BY <1>1
<1>5. /\ Do(p) = s[i + 1].do /\ Tail(steps[p]) = Rest(s, i + 1) /\ steps \in [Proc -> Seq(Step)]
      /\ \A q \in Proc : q # p => steps'[q] = steps[q]
  <2>1. steps \in [Proc -> Seq(Step)]
    BY DEF Types
  <2>2. Do(p) = s[i + 1].do /\ Tail(steps[p]) = Rest(s, i + 1)
    BY <1>1, <1>3, <1>4, Goes, Zenon
  <2>3. \A q \in Proc : q # p => steps'[q] = steps[q]
    BY <2>1, OnlyItsOwn
  <2>4. QED
    BY <2>1, <2>2, <2>3
<1>6. Onward(p) => steps'[p] = Rest(s, i + 1)
  BY <1>1, <1>3, <1>4, OnwardIs, Zenon
<1>7. (i = 2 => pin = 0) /\ (Clean => AtRest)
  BY <1>3 DEF ReleaseAt
<1>8. ASSUME opened' = opened, ptr' = ptr, whole' = whole, shown' = shown, want' = want, Clean
      PROVE  AtRest'
  <2>1. \A q \in opened' : steps'[q] # oled_open => q \in opened /\ steps[q] # oled_open
    BY <1>2, <1>5, <1>8
  <2>2. QED
    BY <1>7, <1>8, <2>1, RestStays
<1>9. ASSUME Onward(p), i # 4, ~waits', ~garbled', i + 1 = 2 => pin' = 0, Clean' => Clean,
             ptr' = ptr, whole' = whole, shown' = shown, want' = want
      PROVE  HoldsOn(p)
  <2>1. i + 1 \in 1 .. 4 /\ opened' = opened /\ sem' = sem
    BY <1>9 DEF Onward
  <2>2. ReleaseAt(i + 1)'
    BY <1>8, <1>9, <2>1 DEF ReleaseAt
  <2>3. Releasing(p)'
    BY <1>2, <1>6, <1>9, <2>1, <2>2 DEF Releasing
  <2>4. QED
    BY <1>9, <2>1, <2>3 DEF HoldsOn
<1>10. i \in {1, 3} \/ i = 2 \/ i = 4
  OBVIOUS
<1>11. CASE i \in {1, 3}
  <2>1. Do(p) \in {"low", "high"} /\ (i = 1 => Do(p) = "low")
    BY <1>5, <1>11, ReleaseIs, StepsAre, NamesAre
  <2>2. /\ Onward(p) /\ pin' = (IF Do(p) = "low" THEN 0 ELSE 1)
        /\ UNCHANGED <<ptr, panelOn, waits, shown, garbled, want, whole, faults>>
    BY <2>1, PinStep
  <2>3. Clean' => Clean
    BY <2>2 DEF Onward, Clean
  <2>4. (i + 1 = 2 => pin' = 0) /\ i # 4
    BY <1>11, <2>1, <2>2
  <2>5. QED
    BY <1>2, <1>9, <2>2, <2>3, <2>4
<1>12. CASE i = 2
  <2>1. Do(p) = "off" /\ (Do(p) = "value") = FALSE /\ (Do(p) = "contrast") = FALSE
    BY <1>5, <1>12, ReleaseIs, StepsAre, NamesAre
  <2>2. Onward(p) /\ ~garbled' /\ ~waits' /\ UNCHANGED <<pin, ptr, shown, want, whole>>
    <3>1. (pin = 1) = FALSE
      BY <1>7, <1>12
    <3>2. Onward(p) /\ UNCHANGED <<pin, ptr, shown, want, whole>>
      BY <2>1, CommandStep
    <3>3. \/ garbled' = (garbled \/ pin = 1 \/ waits # (Do(p) = "value")) /\ waits' = (Do(p) = "contrast")
          \/ garbled' = garbled /\ waits' = waits
      BY <2>1, CommandStep
    <3>4. ~garbled' /\ ~waits'
      BY <1>2, <2>1, <3>1, <3>3, Zenon
    <3>5. QED
      BY <3>2, <3>4
  <2>3. Clean' => Clean
    BY <2>1, <2>2, CommandStep, FaultIsUnclean, Zenon DEF Onward, Clean
  <2>4. i + 1 # 2 /\ i # 4
    BY <1>12
  <2>5. QED
    BY <1>9, <2>2, <2>3, <2>4
<1>13. CASE i = 4
  <2>1. i + 1 = 5 /\ Do(p) = "up"
    BY <1>5, <1>13, ReleaseIs, StepsAre, NamesAre
  <2>2. /\ steps' = [steps EXCEPT ![p] = Tail(steps[p])] /\ opened' = opened /\ sem' = {}
        /\ UNCHANGED <<pin, ptr, panelOn, waits, shown, garbled, want, whole, faults, missed>>
    BY <2>1, UpStep
  <2>3. steps'[p] = <<>>
    <3>1. 5 \in 0 .. Len(s) /\ 5 = Len(s)
      BY <1>1
    <3>2. Rest(s, 5) = <<>>
      BY <1>1, <3>1, RestOf, Zenon
    <3>3. QED
      BY <1>5, <2>1, <2>2, <3>2
  <2>4. Clean' => Clean
    BY <2>2 DEF Clean
  <2>5. QED
    BY <1>2, <1>8, <2>2, <2>3, <2>4 DEF HoldsOn
<1>14. QED
  BY <1>10, <1>11, <1>12, <1>13

(* The stages of a write.                                                  *)
LEMMA WriteBegins ==
    ASSUME Types, NEW p \in Proc, PanelStep(p), style = "oled", ~garbled, ~waits, p \in opened,
           NEW pic \in Pictures, steps[p] = Rest(oled_write(pic), 1), Clean => ptr = 1 % Pages
    PROVE  HoldsOn(p)
<1> DEFINE s == oled_write(pic)
<1>1. pic \in AnyBits
  BY PicturesFit, PicturesAre DEF Types, PanelTypeOK
<1>2. s \in Seq(Step) /\ Len(s) = 2 * Pages + 4 /\ s[2] = M("draw", pic)
  BY <1>1, WriteIs
<1>3. 1 \in 0 .. Len(s) - 1 /\ 1 + 1 = 2
  BY <1>2, Counts
<1> HIDE DEF s
<1>4. Do(p) = "draw" /\ Bits(p) = pic
  BY <1>1, <1>2, <1>3, Goes, StepsAre, NamesAre DEF s
<1>5. /\ Onward(p) /\ UNCHANGED <<pin, ptr, panelOn, waits, shown, garbled, faults>>
      /\ want' = pic /\ whole' = FALSE
  BY <1>4, DrawStep, Zenon
<1>6. steps'[p] = Rest(s, 1 + 1) /\ 1 + 1 = 0 + 2
  BY <1>2, <1>3, <1>5, OnwardIs DEF s
<1>7. sem' = sem /\ opened' = opened
  BY <1>5 DEF Onward
<1>8. Sending(pic, 1 % Pages, 0)'
  <2>1. Clean' => Clean
    BY <1>5 DEF Onward, Clean
  <2>2. Clean' => ~whole' /\ want' = pic /\ ptr' = 1 % Pages
    BY <1>5, <2>1
  <2>3. 1 % Pages \in 0 .. Pages - 1
    BY Counts
  <2>4. ((1 % Pages) + 0) % Pages = 1 % Pages /\ 0 \div 2 = 0 /\ 0 % 2 # 1
    BY <2>3, NextPage, EvenAndOdd
  <2>5. PagesSent(pic, 1 % Pages, 0)'
    BY DEF PagesSent
  <2>6. QED
    BY <2>2, <2>4, <2>5 DEF Sending
<1>9. Writing(p)'
  <2>1. 0 \in 0 .. 2 * Pages
    BY Counts
  <2>2. steps'[p] = Rest(oled_write(pic), 0 + 2)
    BY <1>6 DEF s
  <2>3. p \in opened'
    BY <1>7
  <2>4. QED
    BY <1>8, <2>1, <2>2, <2>3 DEF Writing
<1>10. QED
  BY <1>5, <1>7, <1>9 DEF HoldsOn

LEMMA WriteSends ==
    ASSUME Types, NEW p \in Proc, PanelStep(p), style = "oled", ~garbled, ~waits, p \in opened,
           NEW pic \in Pictures, NEW d \in 0 .. 2 * Pages,
           steps[p] = Rest(oled_write(pic), d + 2), Sending(pic, 1 % Pages, d)
    PROVE  HoldsOn(p)
<1> DEFINE s == oled_write(pic)
<1>1. pic \in SUBSET UprightPixels /\ pic \in AnyBits
  BY PicturesFit, PicturesAre DEF Types, PanelTypeOK
<1>2. /\ s \in Seq(Step) /\ Len(s) = 2 * Pages + 4 /\ s[2 * Pages + 3] = Cmd("drawn")
      /\ d \in 0 .. 2 * Pages - 1 =>
            s[d + 3] = IF d % 2 = 0 THEN Cmd("high") ELSE M("page", PageOf(Paint_bits(pic), d \div 2))
  BY <1>1, WriteIs
<1>3. /\ d + 2 \in 0 .. Len(s) - 1 /\ (d + 2) + 1 = d + 3 /\ (d + 2) + 1 = (d + 1) + 2
      /\ d = 2 * Pages => (d + 2) + 1 = 2 * Pages + 3
  BY <1>2, Counts
<1>4. 1 % Pages \in 0 .. Pages - 1
  BY Counts
<1> HIDE DEF s
<1>5. Do(p) = s[(d + 2) + 1].do /\ Bits(p) = s[(d + 2) + 1].bits
  BY <1>2, <1>3, Goes DEF s
<1>6. Onward(p) => steps'[p] = Rest(s, (d + 2) + 1)
  BY <1>2, <1>3, OnwardIs DEF s
<1>7. CASE d # 2 * Pages
  <2>1. d \in 0 .. 2 * Pages - 1 /\ d + 1 \in 0 .. 2 * Pages
    BY <1>7, Counts
  <2>2. d % 2 = 0 => Do(p) = "high"
    BY <1>2, <1>3, <1>5, <2>1, StepsAre, NamesAre
  <2>3. d % 2 = 1 => Do(p) = "page" /\ Bits(p) = PageOf(Paint_bits(pic), d \div 2)
    <3>1. PageOf(Paint_bits(pic), d \div 2) \in SUBSET Squares
      BY PageIsPart
    <3>2. d % 2 = 1 => s[(d + 2) + 1] = M("page", PageOf(Paint_bits(pic), d \div 2))
      BY <1>2, <1>3, <2>1
    <3>3. QED
      BY <1>5, <3>1, <3>2, StepsAre
  <2>4. Sending(pic, 1 % Pages, d + 1)' /\ ~garbled' /\ Onward(p) /\ UNCHANGED <<waits, panelOn>>
    BY <1>4, <2>1, <2>2, <2>3, SendingGoesOn, Zenon
  <2>5. sem' = sem /\ opened' = opened
    BY <2>4 DEF Onward
  <2>6. steps'[p] = Rest(oled_write(pic), (d + 1) + 2) /\ p \in opened'
    BY <1>3, <1>6, <2>4, <2>5 DEF s
  <2>7. Sending(pic, (1 % Pages), d + 1)'
    BY <2>4
  <2>8. Writing(p)'
    BY <2>1, <2>6, <2>7 DEF Writing
  <2>9. QED
    BY <2>4, <2>5, <2>8 DEF HoldsOn
<1>8. CASE d = 2 * Pages
  <2>1. Do(p) = "drawn"
    BY <1>2, <1>3, <1>5, <1>8, StepsAre, NamesAre
  <2>2. /\ Onward(p) /\ UNCHANGED <<pin, ptr, panelOn, waits, shown, garbled, faults>>
        /\ want' = want /\ whole' = TRUE
    BY <2>1, DrawStep, Zenon
  <2>3. sem' = sem /\ opened' = opened
    BY <2>2 DEF Onward
  <2>4. steps'[p] = Rest(oled_write(pic), 2 * Pages + 3) /\ p \in opened'
    BY <1>3, <1>6, <1>8, <2>2, <2>3 DEF s
  <2>5. ASSUME Clean' PROVE AtRest' /\ ptr' = 1 % Pages
    <3>1. Clean
      BY <2>2, <2>5 DEF Onward, Clean
    <3>2. want = pic /\ ptr = 1 % Pages /\ shown = Shifted(Turned(pic), 1 % Pages)
      BY <1>1, <1>4, <1>8, <3>1, SendingEnds
    <3>3. shown' = shown /\ want' = want /\ ptr' = ptr
      BY <2>2
    <3>4. QED
      BY <3>2, <3>3 DEF AtRest, Shifted, Turned
  <2>6. Writing(p)'
    BY <2>4, <2>5 DEF Writing
  <2>7. QED
    BY <2>2, <2>3, <2>6 DEF HoldsOn
<1>9. QED
  BY <1>7, <1>8

LEMMA WriteEnds ==
    ASSUME Types, NEW p \in Proc, PanelStep(p), style = "oled", ~garbled, ~waits, p \in opened,
           NEW pic \in Pictures, steps[p] = Rest(oled_write(pic), 2 * Pages + 3),
           Clean => AtRest /\ ptr = 1 % Pages
    PROVE  HoldsOn(p)
<1> DEFINE s == oled_write(pic)
           n == 2 * Pages + 3
<1>1. pic \in AnyBits
  BY PicturesFit, PicturesAre DEF Types, PanelTypeOK
<1>2. /\ s \in Seq(Step) /\ Len(s) = n + 1 /\ s[n + 1] = Cmd("up") /\ n \in Nat
  <2>1. n \in Nat /\ n + 1 = 2 * Pages + 4
    BY Counts
  <2>2. QED
    BY <1>1, <2>1, WriteIs
<1>3. n \in 0 .. Len(s) - 1 /\ n + 1 \in 0 .. Len(s)
  BY <1>2
<1>4. steps[p] = Rest(s, n) /\ steps \in [Proc -> Seq(Step)]
  BY DEF Types
<1> HIDE DEF s, n
<1>5. Do(p) = "up" /\ Tail(steps[p]) = Rest(s, n + 1)
  BY <1>2, <1>3, <1>4, Goes, StepsAre, NamesAre
<1>6. /\ steps' = [steps EXCEPT ![p] = Tail(steps[p])] /\ opened' = opened /\ sem' = {}
      /\ UNCHANGED <<pin, ptr, panelOn, waits, shown, garbled, want, whole, faults, missed>>
  BY <1>5, UpStep
<1>7. steps'[p] = <<>>
  BY <1>2, <1>3, <1>4, <1>5, <1>6, RestOf
<1>8. ASSUME Clean' PROVE AtRest'
  <2>1. Clean
    BY <1>6, <1>8 DEF Clean
  <2>2. ptr = 1 % Pages /\ (whole => shown = Shifted(Turned(want), 1 % Pages))
    BY <2>1 DEF AtRest
  <2>3. QED
    BY <1>6, <2>2 DEF AtRest, Shifted, Turned
<1>9. QED
  BY <1>6, <1>7, <1>8 DEF HoldsOn

LEMMA WritingGoesOn ==
    ASSUME Types, NEW p \in Proc, PanelStep(p), style = "oled", ~garbled, ~waits, Writing(p)
    PROVE  HoldsOn(p)
<1>1. p \in opened
  BY DEF Writing
<1>2. PICK pic \in Pictures :
          \/ steps[p] = Rest(oled_write(pic), 1) /\ (Clean => ptr = 1 % Pages)
          \/ \E d \in 0 .. 2 * Pages :
                steps[p] = Rest(oled_write(pic), d + 2) /\ Sending(pic, 1 % Pages, d)
          \/ /\ steps[p] = Rest(oled_write(pic), 2 * Pages + 3)
             /\ Clean => AtRest /\ ptr = 1 % Pages
  BY DEF Writing
<1>3. QED
  BY <1>1, <1>2, WriteBegins, WriteSends, WriteEnds

-----------------------------------------------------------------------------
(* Who does not move keeps its place.                                      *)
LEMMA ParkedStays ==
    ASSUME NEW q, steps'[q] = steps[q], q \in opened' <=> q \in opened, Parked(q)
    PROVE  Parked(q)'
<1>1. CASE steps[q] = <<>>
  BY <1>1 DEF Parked
<1>2. CASE q \in opened /\ (steps[q] = oled_open \/ \E pic \in Pictures : steps[q] = oled_write(pic))
  BY <1>2 DEF Parked
<1>3. CASE q \notin opened /\ steps[q] = oled_release
  BY <1>3 DEF Parked
<1>4. QED
  BY <1>1, <1>2, <1>3 DEF Parked

Holds(p) == Opening(p) \/ Writing(p) \/ Releasing(p)

LEMMA HolderStays ==
    ASSUME NEW h, steps'[h] = steps[h], h \in opened' <=> h \in opened,
           UNCHANGED <<pin, ptr, shown, want, whole>>,
           Clean' => Clean /\ (AtRest => AtRest'), Holds(h)
    PROVE  Holds(h)'
<1>1. pin' = pin /\ ptr' = ptr /\ shown' = shown /\ want' = want /\ whole' = whole
  OBVIOUS
<1>2. CASE Opening(h)
  <2>1. PICK i \in 1 .. 10 : steps[h] = Rest(oled_open, i) /\ OpenAt(i)
    BY <1>2 DEF Opening
  <2>2. OpenAt(i)'
    BY <1>1, <2>1 DEF OpenAt
  <2>3. QED
    BY <1>2, <2>1, <2>2 DEF Opening, Holds
<1>3. CASE Writing(h)
  <2>1. h \in opened'
    BY <1>3 DEF Writing
  <2>2. PICK pic \in Pictures :
          \/ steps[h] = Rest(oled_write(pic), 1) /\ (Clean => ptr = 1 % Pages)
          \/ \E d \in 0 .. 2 * Pages :
                steps[h] = Rest(oled_write(pic), d + 2) /\ Sending(pic, 1 % Pages, d)
          \/ /\ steps[h] = Rest(oled_write(pic), 2 * Pages + 3)
             /\ Clean => AtRest /\ ptr = 1 % Pages
    BY <1>3 DEF Writing
  <2>3. ASSUME NEW d \in 0 .. 2 * Pages, Sending(pic, 1 % Pages, d)
        PROVE  Sending(pic, 1 % Pages, d)'
    <3>1. \A j : PagesSent(pic, 1 % Pages, j) => PagesSent(pic, 1 % Pages, j)'
      BY <1>1 DEF PagesSent
    <3>2. QED
      BY <1>1, <2>3, <3>1 DEF Sending
  <2>4. \/ steps'[h] = Rest(oled_write(pic), 1) /\ (Clean' => ptr' = 1 % Pages)
        \/ \E d \in 0 .. 2 * Pages :
              steps'[h] = Rest(oled_write(pic), d + 2) /\ Sending(pic, 1 % Pages, d)'
        \/ /\ steps'[h] = Rest(oled_write(pic), 2 * Pages + 3)
           /\ Clean' => AtRest' /\ ptr' = 1 % Pages
    BY <1>1, <2>2, <2>3
  <2>5. Writing(h)'
    BY <2>1, <2>4 DEF Writing
  <2>6. QED
    BY <2>5 DEF Holds
<1>4. CASE Releasing(h)
  <2>1. PICK i \in 1 .. 4 : steps[h] = Rest(oled_release, i) /\ ReleaseAt(i)
    BY <1>4 DEF Releasing
  <2>2. ReleaseAt(i)'
    BY <1>1, <2>1 DEF ReleaseAt
  <2>3. QED
    BY <1>4, <2>1, <2>2 DEF Releasing, Holds
<1>5. QED
  BY <1>2, <1>3, <1>4 DEF Holds

(* A process that holds the semaphore is at work on a call.                *)
LEMMA HolderIsBusy ==
    ASSUME Types, style = "oled", NEW h \in Proc, Holds(h)
    PROVE  steps[h] # <<>>
<1>1. CASE Opening(h)
  <2>1. PICK i \in 1 .. 10 : steps[h] = Rest(oled_open, i)
    BY <1>1 DEF Opening
  <2>2. oled_open \in Seq(Step) /\ i \in 0 .. Len(oled_open) - 1
    BY OpenIs
  <2>3. QED
    BY <2>1, <2>2, Goes
<1>2. CASE Releasing(h)
  <2>1. PICK i \in 1 .. 4 : steps[h] = Rest(oled_release, i)
    BY <1>2 DEF Releasing
  <2>2. oled_release \in Seq(Step) /\ i \in 0 .. Len(oled_release) - 1
    BY ReleaseIs
  <2>3. QED
    BY <2>1, <2>2, Goes
<1>3. CASE Writing(h)
  <2>1. PICK pic \in Pictures : \/ steps[h] = Rest(oled_write(pic), 1)
                                \/ \E d \in 0 .. 2 * Pages : steps[h] = Rest(oled_write(pic), d + 2)
                                \/ steps[h] = Rest(oled_write(pic), 2 * Pages + 3)
    BY <1>3 DEF Writing
  <2>2. pic \in AnyBits
    BY PicturesFit, PicturesAre DEF Types, PanelTypeOK
  <2>3. oled_write(pic) \in Seq(Step) /\ Len(oled_write(pic)) = 2 * Pages + 4
    BY <2>2, WriteIs
  <2>4. PICK i \in 0 .. Len(oled_write(pic)) - 1 : steps[h] = Rest(oled_write(pic), i)
    <3>1. /\ 1 \in 0 .. Len(oled_write(pic)) - 1
          /\ 2 * Pages + 3 \in 0 .. Len(oled_write(pic)) - 1
          /\ \A d \in 0 .. 2 * Pages : d + 2 \in 0 .. Len(oled_write(pic)) - 1
      BY <2>3, Counts
    <3>2. QED
      BY <2>1, <3>1
  <2>5. QED
    BY <2>3, <2>4, Goes
<1>4. QED
  BY <1>1, <1>2, <1>3 DEF Holds

(* All of the invariant but what it says of the light.                     *)
InOrder ==
    /\ ~garbled /\ ~waits
    /\ \A p, q \in sem : p = q
    /\ \A q \in Proc : q \notin sem => Parked(q)
    /\ \A p \in sem : Holds(p)
    /\ sem = {} /\ Clean => AtRest
Lit == Clean /\ panelOn => opened # {} \/ \E q \in Proc : Darkens(q)

LEMMA OledInvIs == OledInv <=> InOrder /\ Lit
  BY DEF OledInv, InOrder, Lit, Holds

LEMMA CleanBefore ==
    ASSUME Types, NEW p \in Proc, PanelStep(p), Clean'
    PROVE  Clean
<1>1. faults' \in {faults, faults + 1} /\ (missed => missed') /\ faults \in Nat
  BY OnlyItsOwn DEF Types, PanelTypeOK
<1>2. QED
  BY <1>1 DEF Clean

LEMMA ParkedIsDown ==
    ASSUME Types, style = "oled", NEW p \in Proc, Parked(p), steps[p] # <<>>
    PROVE  Do(p) = "down"
<1>1. \A s \in Seq(Step) : steps[p] = s /\ Len(s) > 0 => Do(p) = s[1].do
  BY DEF Do
<1>2. CASE steps[p] = oled_open
  BY <1>1, <1>2, OpenIs, StepsAre, NamesAre
<1>3. CASE steps[p] = oled_release
  BY <1>1, <1>3, ReleaseIs, StepsAre, NamesAre
<1>4. ASSUME NEW pic \in Pictures, steps[p] = oled_write(pic)
      PROVE  Do(p) = "down"
  <2>1. pic \in AnyBits
    BY PicturesFit, PicturesAre DEF Types, PanelTypeOK
  <2>2. /\ oled_write(pic) \in Seq(Step) /\ Len(oled_write(pic)) = 2 * Pages + 4
        /\ oled_write(pic)[1] = Cmd("down")
    BY <2>1, WriteIs
  <2>3. 2 * Pages + 4 > 0
    BY Counts
  <2>4. Do(p) = Cmd("down").do
    BY <1>1, <1>4, <2>2, <2>3
  <2>5. QED
    BY <2>4, StepsAre, NamesAre
<1>5. QED
  BY <1>2, <1>3, <1>4 DEF Parked

(* A call takes the semaphore, or gives up on a signal.                    *)
LEMMA DownKeepsOrder ==
    ASSUME Types, style = "oled", InOrder, NEW p \in Proc, p \notin sem, PanelStep(p)
    PROVE  InOrder'
<1>1. /\ garbled = FALSE /\ waits = FALSE /\ Parked(p) /\ steps[p] # <<>>
      /\ steps \in [Proc -> Seq(Step)] /\ sem \subseteq Proc
  BY WhatIsDone DEF InOrder, Types, PanelTypeOK
<1>2. Do(p) = "down"
  BY <1>1, ParkedIsDown
<1>3. Down(p) \/ Signalled(p)
  BY <1>2, WhatIsDone
<1>4. \A q \in Proc : q # p => steps'[q] = steps[q]
  BY OnlyItsOwn DEF Types
<1>5. opened' = opened /\ UNCHANGED <<pin, ptr, panelOn, waits, shown, garbled, want, whole, faults>>
  BY <1>3 DEF Down, Signalled, StepsOn, oled
<1>6. \A q \in Proc : q # p /\ Parked(q) => Parked(q)'
  BY <1>4, <1>5, ParkedStays
<1>7. CASE Down(p)
  <2>1. sem = {} /\ sem' = {p} /\ steps'[p] = Tail(steps[p]) /\ (Clean' <=> Clean)
    BY <1>1, <1>7 DEF Down, StepsOn, Clean
  <2>2. Clean => AtRest
    BY <2>1 DEF InOrder
  <2>3. Clean' => Clean
    BY <2>1
  <2>4. \A s \in Seq(Step) : steps[p] = s /\ Len(s) > 0 => steps'[p] = Rest(s, 1)
    <3>1. \A s \in Seq(Step) : Len(s) > 0 => 0 \in 0 .. Len(s) - 1 /\ 0 + 1 = 1 /\ 0 \in 0 .. Len(s)
      OBVIOUS
    <3>2. \A s \in Seq(Step) : Rest(s, 0) = s
      <4>1. \A s \in Seq(Step) : 0 \in 0 .. Len(s)
        OBVIOUS
      <4>2. QED
        BY <4>1, RestOf
    <3>3. ASSUME NEW s \in Seq(Step), steps[p] = s, Len(s) > 0
          PROVE  Tail(steps[p]) = Rest(s, 0 + 1)
      <4>1. steps[p] = Rest(s, 0) /\ 0 \in 0 .. Len(s) - 1
        BY <3>1, <3>2, <3>3
      <4>2. QED
        BY <4>1, Goes, Zenon
    <3>4. QED
      BY <2>1, <3>1, <3>3
  <2>5. ASSUME p \in opened, steps[p] = oled_open
        PROVE  Holds(p)'
    <3>1. steps'[p] = Rest(oled_open, 1) /\ p \in opened'
      <4>1. oled_open \in Seq(Step) /\ Len(oled_open) > 0
        BY OpenIs
      <4>2. QED
        BY <1>5, <2>4, <2>5, <4>1
    <3>2. /\ 1 \in 1 .. 10 /\ 1 \notin {3, 6} /\ 1 # 9 /\ ~(1 >= 2) /\ 1 \notin 2 .. 9 /\ 1 # 10
      OBVIOUS
    <3>3. OpenAt(1)'
      BY <3>2 DEF OpenAt
    <3>4. QED
      BY <3>1, <3>2, <3>3 DEF Opening, Holds
  <2>6. ASSUME p \in opened, NEW pic \in Pictures, steps[p] = oled_write(pic)
        PROVE  Holds(p)'
    <3>1. pic \in AnyBits
      BY PicturesFit, PicturesAre DEF Types, PanelTypeOK
    <3>2. oled_write(pic) \in Seq(Step) /\ Len(oled_write(pic)) > 0
      BY <3>1, WriteIs, Counts
    <3>3. steps'[p] = Rest(oled_write(pic), 1) /\ p \in opened'
      BY <1>5, <2>4, <2>6, <3>2
    <3>4. steps[p] # oled_open
      BY <2>6, <3>1, OpenIsNoOther
    <3>5. Clean' => ptr' = 1 % Pages
      BY <1>5, <2>2, <2>3, <2>6, <3>4 DEF AtRest
    <3>6. Writing(p)'
      BY <3>3, <3>5 DEF Writing
    <3>7. QED
      BY <3>6 DEF Holds
  <2>7. ASSUME p \notin opened, steps[p] = oled_release
        PROVE  Holds(p)'
    <3>1. steps'[p] = Rest(oled_release, 1) /\ p \notin opened'
      <4>1. oled_release \in Seq(Step) /\ Len(oled_release) > 0
        BY ReleaseIs
      <4>2. QED
        BY <1>5, <2>4, <2>7, <4>1
    <3>2. \A q \in opened' : steps'[q] # oled_open => q \in opened /\ steps[q] # oled_open
      <4>1. opened \subseteq Proc
        BY DEF Types, PanelTypeOK
      <4>2. QED
        BY <1>4, <1>5, <2>7, <4>1
    <3>3. AtRest => AtRest'
      BY <1>5, <3>2, RestStays
    <3>4. ReleaseAt(1)' /\ 1 \in 1 .. 4
      BY <2>2, <2>3, <3>3 DEF ReleaseAt
    <3>5. Releasing(p)'
      BY <3>1, <3>4 DEF Releasing
    <3>6. QED
      BY <3>5 DEF Holds
  <2>8. Holds(p)'
    BY <1>1, <2>5, <2>6, <2>7 DEF Parked, Holds
  <2>9. \A q \in Proc : q \notin sem' => Parked(q)'
    BY <1>6, <2>1 DEF InOrder
  <2>10. ~garbled' /\ ~waits'
    BY <1>1, <1>5
  <2>11. (\A q, r \in sem' : q = r) /\ sem' # {} /\ \A q \in sem' : Holds(q)'
    BY <2>1, <2>8
  <2>12. QED
    BY <2>9, <2>10, <2>11 DEF InOrder
<1>8. CASE Signalled(p)
  <2>1. sem' = sem /\ steps'[p] = <<>> /\ ~Clean'
    BY <1>1, <1>8 DEF Signalled, Clean
  <2>2. Parked(p)'
    BY <2>1 DEF Parked
  <2>3. \A q \in Proc : q \notin sem' => Parked(q)'
    BY <1>6, <2>1, <2>2 DEF InOrder
  <2>4. ASSUME NEW h \in sem PROVE Holds(h)'
    <3>1. h \in Proc /\ h # p /\ Holds(h)
      BY <1>1 DEF InOrder
    <3>2. steps'[h] = steps[h]
      BY <1>4, <3>1
    <3>3. Clean' => Clean /\ (AtRest => AtRest')
      BY <2>1
    <3>4. UNCHANGED <<pin, ptr, shown, want, whole>> /\ (h \in opened' <=> h \in opened)
      BY <1>5
    <3>5. QED
      BY <3>1, <3>2, <3>3, <3>4, HolderStays
  <2>5. ~garbled' /\ ~waits'
    BY <1>1, <1>5
  <2>6. (\A q, r \in sem' : q = r) /\ \A q \in sem' : Holds(q)'
    BY <2>1, <2>4 DEF InOrder
  <2>7. QED
    BY <2>1, <2>3, <2>5, <2>6 DEF InOrder
<1>9. QED
  BY <1>3, <1>7, <1>8

(* The holder of the semaphore goes on with its call, or ends it.          *)
LEMMA HolderKeepsOrder ==
    ASSUME Types, style = "oled", InOrder, NEW p \in sem, PanelStep(p)
    PROVE  InOrder'
<1>1. /\ p \in Proc /\ sem = {p} /\ Holds(p) /\ ~garbled /\ ~waits
      /\ \A q \in Proc : q # p => Parked(q)
  BY DEF InOrder, Types, PanelTypeOK
<1>2. HoldsOn(p)
  BY <1>1, OpeningGoesOn, WritingGoesOn, ReleasingGoesOn DEF Holds
<1>3. \A q \in Proc : q # p => steps'[q] = steps[q]
  BY <1>1, OnlyItsOwn DEF Types
<1>4. ~garbled' /\ ~waits' /\ opened' = opened
  BY <1>2 DEF HoldsOn
<1>5. \A q \in Proc : q # p => Parked(q)'
  BY <1>1, <1>3, <1>4, ParkedStays
<1>6. CASE sem' = sem /\ (Opening(p)' \/ Writing(p)' \/ Releasing(p)')
  <2>1. Holds(p)' /\ sem' = {p}
    BY <1>1, <1>6 DEF Holds
  <2>2. (\A q, r \in sem' : q = r) /\ sem' # {} /\ \A q \in sem' : Holds(q)'
    BY <2>1
  <2>3. \A q \in Proc : q \notin sem' => Parked(q)'
    BY <1>5, <2>1
  <2>4. QED
    BY <1>4, <2>2, <2>3 DEF InOrder
<1>7. CASE sem' = {} /\ steps'[p] = <<>> /\ (Clean' => AtRest')
  <2>1. Parked(p)'
    BY <1>7 DEF Parked
  <2>2. \A q \in Proc : Parked(q)'
    BY <1>5, <2>1
  <2>3. (\A q, r \in sem' : q = r) /\ \A q \in sem' : Holds(q)'
    BY <1>7
  <2>4. QED
    BY <1>4, <1>7, <2>2, <2>3 DEF InOrder
<1>8. QED
  BY <1>2, <1>6, <1>7 DEF HoldsOn

(* A call begins, and waits for the semaphore.                             *)
LEMMA StartKeepsOrder ==
    ASSUME Types, style = "oled", InOrder, NEW p \in Proc,
           OpenOled(p) \/ WriteOled(p) \/ ReleaseOled(p)
    PROVE  InOrder' /\ Clean' = Clean /\ panelOn' = panelOn
<1>1. PICK s \in Seq(Step) : Starts(p, s)
  BY Begins DEF Types, PanelTypeOK
<1>2. /\ steps[p] = <<>> /\ steps \in [Proc -> Seq(Step)] /\ sem' = sem
      /\ \A q \in Proc : q # p => steps'[q] = steps[q]
      /\ UNCHANGED <<pin, ptr, panelOn, waits, shown, garbled, want, whole, faults, missed>>
  BY <1>1 DEF Starts, Types, oled
<1>3. Clean' = Clean
  BY <1>2 DEF Clean
<1>4. /\ OpenOled(p) => p \notin opened /\ opened' = opened \cup {p} /\ steps'[p] = oled_open
      /\ WriteOled(p) => /\ p \in opened /\ opened' = opened
                         /\ \E pic \in Pictures : steps'[p] = oled_write(pic)
      /\ ReleaseOled(p) => p \in opened /\ opened' = opened \ {p} /\ steps'[p] = oled_release
  BY <1>2 DEF OpenOled, WriteOled, ReleaseOled, Starts
<1>5. Parked(p)'
  BY <1>4 DEF Parked
<1>6. \A q \in Proc : q # p => (q \in opened' <=> q \in opened)
  BY <1>4
<1>7. \A q \in Proc : q # p /\ Parked(q) => Parked(q)'
  BY <1>2, <1>6, ParkedStays
<1>8. AtRest => AtRest'
  <2>1. steps[p] # oled_open
    BY <1>2, OpenIsNoOther
  <2>2. \A q \in opened' : steps'[q] # oled_open => q \in opened /\ steps[q] # oled_open
    <3>1. opened \subseteq Proc
      BY DEF Types, PanelTypeOK
    <3>2. QED
      BY <1>2, <1>4, <2>1, <3>1
  <2>3. QED
    BY <1>2, <2>2, RestStays
<1>9. ASSUME NEW h \in sem PROVE Holds(h)'
  <2>1. h \in Proc /\ Holds(h)
    BY DEF InOrder, Types, PanelTypeOK
  <2>2. h # p
    BY <1>2, <2>1, HolderIsBusy
  <2>3. steps'[h] = steps[h] /\ (h \in opened' <=> h \in opened)
    BY <1>2, <1>6, <2>1, <2>2
  <2>4. UNCHANGED <<pin, ptr, shown, want, whole>> /\ (Clean' => Clean /\ (AtRest => AtRest'))
    BY <1>2, <1>3, <1>8
  <2>5. QED
    BY <2>1, <2>3, <2>4, HolderStays
<1>10. \A q \in Proc : q \notin sem' => Parked(q)'
  BY <1>2, <1>5, <1>7 DEF InOrder
<1>11. ~garbled' /\ ~waits' /\ (\A q, r \in sem' : q = r) /\ (\A q \in sem' : Holds(q)')
  BY <1>2, <1>9 DEF InOrder
<1>12. sem' = {} /\ Clean' => AtRest'
  BY <1>2, <1>3, <1>8 DEF InOrder
<1>13. QED
  BY <1>2, <1>3, <1>10, <1>11, <1>12 DEF InOrder

-----------------------------------------------------------------------------
(* The light.                                                              *)
LEMMA DarkensMeans ==
    ASSUME NEW p \in Proc, NEW i \in 0 .. 2, steps[p] = Rest(oled_release, i)
    PROVE  /\ Do(p) = IF i = 0 THEN "down" ELSE IF i = 1 THEN "low" ELSE "off"
           /\ Tail(steps[p]) = Rest(oled_release, i + 1) /\ steps[p] # <<>>
<1>1. /\ oled_release \in Seq(Step) /\ Len(oled_release) = 5 /\ i \in 0 .. Len(oled_release) - 1
      /\ oled_release[1] = Cmd("down") /\ oled_release[2] = Cmd("low")
      /\ oled_release[3] = Cmd("off")
  BY ReleaseIs
<1>2. /\ Do(p) = oled_release[i + 1].do /\ Tail(steps[p]) = Rest(oled_release, i + 1)
      /\ steps[p] # <<>>
  BY <1>1, Goes, Zenon
<1>3. Cmd("down").do = "down" /\ Cmd("low").do = "low" /\ Cmd("off").do = "off"
  BY StepsAre, NamesAre
<1>4. (i = 0 => i + 1 = 1) /\ (i = 1 => i + 1 = 2) /\ (i = 2 => i + 1 = 3) /\ i \in {0, 1, 2}
  OBVIOUS
<1>5. QED
  BY <1>1, <1>2, <1>3, <1>4

(* What is being switched off goes dark.                                   *)
LEMMA DarkeningGoesOn ==
    ASSUME Types, style = "oled", NEW p \in Proc, PanelStep(p), Darkens(p), Clean', panelOn'
    PROVE  Darkens(p)'
<1>1. PICK i \in 0 .. 2 : steps[p] = Rest(oled_release, i)
  BY DEF Darkens
<1>2. /\ Do(p) = IF i = 0 THEN "down" ELSE IF i = 1 THEN "low" ELSE "off"
      /\ Tail(steps[p]) = Rest(oled_release, i + 1) /\ steps \in [Proc -> Seq(Step)]
  BY <1>1, DarkensMeans DEF Types
<1>3. CASE i = 0
  <2>1. Down(p) \/ Signalled(p)
    BY <1>2, <1>3, WhatIsDone
  <2>2. Down(p)
    BY <2>1 DEF Signalled, Clean
  <2>3. steps'[p] = Rest(oled_release, 0 + 1)
    BY <1>2, <1>3, <2>2 DEF Down, StepsOn
  <2>4. 0 + 1 \in 0 .. 2
    OBVIOUS
  <2>5. QED
    BY <2>3, <2>4 DEF Darkens
<1>4. CASE i = 1
  <2>1. Onward(p)
    <3>1. Do(p) = "low"
      BY <1>2, <1>4
    <3>2. QED
      BY <3>1, PinStep, Zenon
  <2>2. steps'[p] = Rest(oled_release, 1 + 1)
    BY <1>2, <1>4, <2>1 DEF Onward
  <2>3. 1 + 1 \in 0 .. 2
    OBVIOUS
  <2>4. QED
    BY <2>2, <2>3 DEF Darkens
<1>5. CASE i = 2
  <2>1. Do(p) = "off"
    BY <1>2, <1>5
  <2>2. panelOn' = FALSE \/ faults' = faults + 1
    BY <2>1, CommandStep, Zenon
  <2>3. QED
    BY <2>2, FaultIsUnclean
<1>6. QED
  BY <1>3, <1>4, <1>5

(* Only the command that says so switches the display on.                  *)
LEMMA OnlyOnLights ==
    ASSUME Types, NEW p \in Proc, PanelStep(p), ~panelOn, panelOn'
    PROVE  Do(p) = "on"
<1>1. panelOn = FALSE
  BY DEF Types, PanelTypeOK
<1>2. ~(Down(p) \/ Signalled(p) \/ Up(p) \/ Draw(p) \/ Register(p) \/ Screen(p))
  BY <1>1, Zenon DEF Down, Signalled, Up, Draw, Register, Screen, oled
<1>3. ~(Pin(p) \/ Reset(p) \/ Page(p) \/ Fault(p) \/ Memory(p))
  BY <1>1, Zenon DEF Pin, Reset, Page, Fault, Memory, oled
<1>4. Command(p)
  BY <1>2, <1>3 DEF PanelStep
<1>5. QED
  BY <1>1, <1>4, Zenon DEF Command

LEMMA ReleasingDoes ==
    ASSUME NEW p \in Proc, Releasing(p)
    PROVE  Do(p) # "on"
<1>1. PICK i \in 1 .. 4 : steps[p] = Rest(oled_release, i)
  BY DEF Releasing
<1>2. /\ oled_release \in Seq(Step) /\ i \in 0 .. Len(oled_release) - 1
      /\ oled_release[2] = Cmd("low") /\ oled_release[3] = Cmd("off")
      /\ oled_release[4] = Cmd("high") /\ oled_release[5] = Cmd("up")
  BY ReleaseIs
<1>3. Do(p) = oled_release[i + 1].do
  BY <1>1, <1>2, Goes
<1>4. i + 1 \in {2, 3, 4, 5}
  OBVIOUS
<1>5. /\ Cmd("low").do = "low" /\ Cmd("off").do = "off" /\ Cmd("high").do = "high"
      /\ Cmd("up").do = "up"
  BY StepsAre, NamesAre
<1>6. QED
  BY <1>2, <1>3, <1>4, <1>5

LEMMA StepKeepsLit ==
    ASSUME Types, style = "oled", InOrder, Lit, NEW p \in Proc, PanelStep(p)
    PROVE  Lit'
<1> SUFFICES ASSUME Clean', panelOn', opened' = {}
             PROVE  \E q \in Proc : Darkens(q)'
  BY DEF Lit
<1>1. Clean
  BY CleanBefore
<1>2. opened = {}
  <2>1. opened' = opened \/ opened' = Proc
    BY OnlyItsOwn DEF Types
  <2>2. QED
    BY <2>1
<1>3. CASE panelOn
  <2>1. PICK q \in Proc : Darkens(q)
    BY <1>1, <1>2, <1>3 DEF Lit
  <2>2. CASE q = p
    BY <2>1, <2>2, DarkeningGoesOn
  <2>3. CASE q # p
    <3>1. steps'[q] = steps[q]
      BY <2>3, OnlyItsOwn DEF Types
    <3>2. Darkens(q)'
      BY <2>1, <3>1 DEF Darkens
    <3>3. QED
      BY <3>2
  <2>4. QED
    BY <2>2, <2>3
<1>4. CASE ~panelOn
  <2>1. Do(p) = "on" /\ steps[p] # <<>>
    BY <1>4, OnlyOnLights, WhatIsDone
  <2>2. CASE p \in sem
    <3>1. Releasing(p)
      BY <1>2, <2>2 DEF InOrder, Holds, Opening, Writing
    <3>2. QED
      BY <2>1, <3>1, ReleasingDoes
  <2>3. CASE p \notin sem
    <3>1. Do(p) = "down"
      BY <2>1, <2>3, ParkedIsDown DEF InOrder
    <3>2. QED
      BY <2>1, <3>1
  <2>4. QED
    BY <2>2, <2>3
<1>5. QED
  BY <1>3, <1>4

LEMMA StartKeepsLit ==
    ASSUME Types, style = "oled", InOrder, Lit, NEW p \in Proc,
           OpenOled(p) \/ WriteOled(p) \/ ReleaseOled(p)
    PROVE  Lit'
<1>1. Clean' = Clean /\ panelOn' = panelOn
  BY StartKeepsOrder
<1>2. CASE OpenOled(p)
  BY <1>2 DEF OpenOled, Lit
<1>3. CASE WriteOled(p)
  BY <1>3 DEF WriteOled, Lit
<1>4. CASE ReleaseOled(p)
  <2>1. steps'[p] = oled_release
    BY <1>4 DEF ReleaseOled, Starts, Types
  <2>2. 0 \in 0 .. Len(oled_release) /\ 0 \in 0 .. 2 /\ oled_release \in Seq(Step)
    BY ReleaseIs
  <2>3. Rest(oled_release, 0) = oled_release
    BY <2>2, RestOf
  <2>4. Darkens(p)'
    BY <2>1, <2>2, <2>3 DEF Darkens
  <2>5. QED
    BY <2>4 DEF Lit
<1>5. QED
  BY <1>2, <1>3, <1>4

LEMMA OledKept ==
    ASSUME Types, style = "oled", OledInv, [PanelNext]_dvars
    PROVE  OledInv'
<1>1. InOrder /\ Lit
  BY OledInvIs
<1>2. ASSUME NEW p \in Proc, OpenOled(p) \/ WriteOled(p) \/ ReleaseOled(p)
      PROVE  InOrder' /\ Lit'
  BY <1>1, <1>2, StartKeepsOrder, StartKeepsLit
<1>3. ASSUME NEW p \in Proc, PanelStep(p)
      PROVE  InOrder' /\ Lit'
  <2>1. Lit'
    BY <1>1, <1>3, StepKeepsLit
  <2>2. CASE p \in sem
    BY <1>1, <1>3, <2>1, <2>2, HolderKeepsOrder
  <2>3. CASE p \notin sem
    BY <1>1, <1>3, <2>1, <2>3, DownKeepsOrder
  <2>4. QED
    BY <2>2, <2>3
<1>4. ASSUME UNCHANGED dvars
      PROVE  InOrder' /\ Lit'
  BY <1>1, <1>4 DEF dvars, calls, oled, ghosts, InOrder, Lit, Parked, Holds, Opening, OpenAt, Releasing,
     ReleaseAt, Writing, Sending, PagesSent, Darkens, AtRest, Clean, Shifted, Turned
<1>5. ASSUME NEW p \in Proc, Program(p) \/ ProbeFb(p) \/ CallFb(p)
      PROVE  FALSE
  BY <1>5 DEF Program, ProbeFb, CallFb
<1>6. InOrder' /\ Lit'
  BY <1>2, <1>3, <1>4, <1>5 DEF PanelNext
<1>7. QED
  BY <1>6 DEF OledInv, InOrder, Lit, Holds

-----------------------------------------------------------------------------
(* The invariant, and what it says of the display.                         *)
LEMMA InvAtFirst == ASSUME PanelInit PROVE PanelInv
<1>1. Types /\ faults = 0 /\ ~missed /\ ~garbled /\ ~waits /\ sem = {} /\ opened = {} /\ ~whole
      /\ want = {} /\ vmem = {} /\ ptr = 0 /\ panelOn = FALSE /\ ~overlap
  BY TypesAtFirst, Zenon DEF PanelInit
<1>2. \A q \in Proc : steps[q] = <<>>
  BY DEF PanelInit
<1>3. OledInv
  BY <1>1, <1>2 DEF OledInv, Parked, AtRest
<1>4. ProgInv
  BY <1>1, <1>2 DEF ProgInv
<1>5. FbInv
  BY <1>1, <1>2 DEF FbInv, Follows
<1>6. QED
  BY <1>1, <1>3, <1>4, <1>5 DEF PanelInv, Types

LEMMA InvKept == ASSUME PanelInv, [PanelNext]_dvars PROVE PanelInv'
<1>1. Types
  BY DEF PanelInv, Types
<1>2. Types'
  BY <1>1, TypesKept
<1>3. style' = style
  <2>1. CASE UNCHANGED dvars
    BY <2>1 DEF dvars
  <2>2. ASSUME NEW p \in Proc, PanelStep(p) PROVE style' = style
    BY <1>1, <2>2, OnlyItsOwn DEF Types
  <2>3. ASSUME NEW p \in Proc, \/ OpenOled(p) \/ WriteOled(p) \/ ReleaseOled(p) \/ Program(p)
                               \/ ProbeFb(p) \/ CallFb(p)
        PROVE  style' = style
    <3>1. \E s \in Seq(Step) : Starts(p, s)
      BY <1>1, <2>3, Begins DEF Types, PanelTypeOK
    <3>2. QED
      BY <3>1 DEF Starts
  <2>4. QED
    BY <2>1, <2>2, <2>3 DEF PanelNext
<1>4. style' = "oled" => OledInv'
  BY <1>1, <1>3, OledKept DEF PanelInv
<1>5. style' = "spidev" => ProgInv'
  BY <1>1, <1>3, ProgramKept DEF PanelInv
<1>6. style' = "fb" => FbInv'
  BY <1>1, <1>3, FbKept DEF PanelInv
<1>7. QED
  BY <1>2, <1>4, <1>5, <1>6 DEF PanelInv, Types

LEMMA PictureStands == ASSUME PanelInv PROVE PictureIsShown
<1> SUFFICES ASSUME style \in {"oled", "spidev"}, whole, Clean, sem = {},
                    \A p \in Proc : steps[p] = <<>>
             PROVE  /\ shown = Shifted(Turned(want), ptr)
                    /\ ptr = IF style = "spidev" THEN 0 ELSE 1 % Pages
  BY DEF PictureIsShown, Clean
<1>1. CASE style = "oled"
  <2>1. AtRest
    BY <1>1 DEF PanelInv, OledInv
  <2>2. QED
    BY <1>1, <2>1 DEF AtRest
<1>2. CASE style = "spidev"
  <2>1. ProgInv /\ style \in Styles /\ opened \subseteq Proc
    BY <1>2 DEF PanelInv, PanelTypeOK
  <2>2. PICK p \in opened : TRUE
    BY <2>1 DEF ProgInv
  <2>3. PICK pic \in Pictures : ProgramAt(pic, p)
    BY <2>1, <2>2 DEF ProgInv
  <2>4. p \in Proc /\ steps[p] = <<>>
    BY <2>1, <2>2
  <2>5. ~(\E i \in 0 .. 5 : SetUpAt(pic, p, i))
    BY DEF SetUpAt
  <2>6. ~(\E d \in 0 .. 2 * (2 * Pages) : FillAt(pic, p, d))
    BY DEF FillAt
  <2>7. ~(\E d \in 0 .. 2 * Pages : SendAt(pic, p, d))
    BY DEF SendAt, Sending
  <2>8. Ended(p)
    BY <2>3, <2>5, <2>6, <2>7, ProgramIs
  <2>9. QED
    BY <1>2, <2>8 DEF Ended
<1>3. QED
  BY <1>1, <1>2

LEMMA DarkThen == ASSUME PanelInv PROVE DarkWhenClosed
<1> SUFFICES ASSUME style = "oled", opened = {}, Clean, \A p \in Proc : steps[p] = <<>>, panelOn
             PROVE  FALSE
  BY DEF DarkWhenClosed, Clean
<1>1. PICK q \in Proc : Darkens(q)
  BY DEF PanelInv, OledInv
<1>2. PICK i \in 0 .. 2 : steps[q] = Rest(oled_release, i)
  BY <1>1 DEF Darkens
<1>3. QED
  BY <1>2, DarkensMeans

LEMMA MemoryIsShown == ASSUME PanelInv PROVE DisplayFollowsMemory
<1> SUFFICES ASSUME style = "fb", ~overlap, faults = 0
             PROVE  /\ ~garbled
                    /\ (want # {} /\ \A p \in Proc : steps[p] = <<>>) =>
                           \E pic \in Pictures : vmem = set_pixel(pic) /\ shown = Flat(pic)
  BY DEF DisplayFollowsMemory
<1>1. FbInv /\ style \in Styles
  BY DEF PanelInv, PanelTypeOK
<1>2. ASSUME want # {}, \A p \in Proc : steps[p] = <<>>
      PROVE  \E pic \in Pictures : vmem = set_pixel(pic) /\ shown = Flat(pic)
  <2>1. shown = Transpose(vmem)
    BY <1>1, <1>2 DEF FbInv, Follows
  <2>2. PICK pic \in Pictures : vmem = set_pixel(pic)
    BY <1>1, <1>2 DEF FbInv
  <2>3. pic \in SUBSET LyingPixels
    BY <1>1, PicturesFit
  <2>4. Transpose(set_pixel(pic)) = Flat(pic)
    BY <2>3, LyingAsItIs
  <2>5. QED
    BY <2>1, <2>2, <2>4
<1>3. QED
  BY <1>1, <1>2 DEF FbInv

LEMMA NothingGarbled == ASSUME PanelInv PROVE NothingIsGarbled
  BY DEF PanelInv, OledInv, ProgInv, NothingIsGarbled

LEMMA InvMeans == PanelInv => PanelIsRight
  BY PictureStands, DarkThen, MemoryIsShown, NothingGarbled DEF PanelInv, PanelIsRight

(* The display shows what the calls that went well have sent it: under the *)
(* semaphore of the character device, and in the program, no byte is taken *)
(* for what it is not; a picture that was sent without a fault is shown    *)
(* whole, from the page where the controller stands; the display is dark   *)
(* once nobody has the device open; and as long as the calls of the frame  *)
(* buffer do not overlap, the display follows its memory.                  *)
THEOREM PanelStaysRight == PanelSpec => []PanelIsRight
<1>1. PanelInit => PanelInv
  BY InvAtFirst
<1>2. PanelInv /\ [PanelNext]_dvars => PanelInv'
  BY InvKept
<1>3. QED
  BY <1>1, <1>2, InvMeans, PTL DEF PanelSpec
-----------------------------------------------------------------------------
(* The drawing library.  An image is as it was made, but for the way it is *)
(* turned, mirrored and packed.                                            *)
Made ==
    /\ Paint \in [WidthByte : Nat, HeightByte : Nat, WidthMemory : Nat \ {0},
                  HeightMemory : Nat \ {0}, Rotate : ROTATES, Mirror : MIRRORS,
                  Scale : SCALES, Width : Nat \ {0}, Height : Nat \ {0}]
    /\ Paint.WidthMemory < 32768 /\ Paint.HeightMemory < 32768
    /\ <<Paint.WidthMemory, Paint.HeightMemory>> \in Sizes
    /\ Paint.WidthByte = WidthBytes(Paint.WidthMemory, Paint.Scale)
    /\ Paint.HeightByte = Paint.HeightMemory
    /\ \/ Paint.Width = Paint.WidthMemory /\ Paint.Height = Paint.HeightMemory
       \/ Paint.Width = Paint.HeightMemory /\ Paint.Height = Paint.WidthMemory

(* The shapes and parts of shapes still to draw, with numbers for places.  *)
Frame(g) ==
    \/ /\ g.op = "line"
       /\ g \in [op : {"line"}, x : Int, y : Int, xe : Int, ye : Int, size : Int, dx : Int,
                 dy : Int, Esp : Int, XAddway : Int, YAddway : Int]
    \/ /\ g.op = "circle"
       /\ g \in [op : {"circle"}, x : Int, y : Int, xc : Int, yc : Int, Esp : Int, size : Int,
                 fill : {g.fill}]
    \/ /\ g.op = "glyph"
       /\ g \in [op : {"glyph"}, x : Int, y : Int, font : {g.font}, row : Int, ptr : {g.ptr},
                 first : {g.first}, last : {g.last}, turned : {g.turned}]
    \/ /\ g.op = "string"
       /\ g \in [op : {"string"}, x : Int, y : Int, x0 : Int, y0 : Int, text : {g.text},
                 font : {g.font}]
       /\ g.font.Width \in Int /\ g.font.Height \in Int
    \/ /\ g.op = "cn"
       /\ g \in [op : {"cn"}, x : Int, y : Int, text : {g.text}, at : {g.at}, font : {g.font}]
       /\ g.font.Width \in Int /\ g.font.ASCII_Width \in Int
    \/ g.op = "window" /\ g \in [op : {"window"}, x : Nat, y : Nat, xe : Int, ye : Int]
    \/ g.op \in {"clear", "bitmap", "block"}

Frames(s) == s \in Seq({s[i] : i \in DOMAIN s}) /\ \A i \in DOMAIN s : Frame(s[i])

(* What is painted is on the image or at its edge.                         *)
Canvas == (0 .. Paint.Width) \X (0 .. Paint.Height)
Marks  == /\ drawn \subseteq Canvas /\ lost \in BOOLEAN
          /\ strays \subseteq {"edge", "turned", "wide"}

PaintInv ==
    /\ Made /\ Frames(todo) /\ Marks
    /\ shape = NoShape => todo = <<>> /\ drawn = {}
-----------------------------------------------------------------------------
(* Where a pixel is: its byte in a row, and the row.                       *)
LEMMA Pers == Per(2) = 8 /\ Per(4) = 4 /\ Per(16) = 2 /\ Per(65) = 1
<1>1. 2 # 4 /\ 2 # 16 /\ 4 # 16 /\ 2 # 65 /\ 4 # 65 /\ 16 # 65
  OBVIOUS
<1>2. QED
  BY <1>1, Zenon DEF Per

LEMMA Turns ==
    ASSUME NEW x, NEW y
    PROVE  /\ Paint.Rotate = 0 => Rotated(x, y) = <<x, y>>
           /\ Paint.Rotate = 90 => Rotated(x, y) = <<U16(Paint.WidthMemory - y - 1), x>>
           /\ Paint.Rotate = 180 =>
                Rotated(x, y) = <<U16(Paint.WidthMemory - x - 1), U16(Paint.HeightMemory - y - 1)>>
           /\ Paint.Rotate = 270 => Rotated(x, y) = <<y, U16(Paint.HeightMemory - x - 1)>>
<1>1. ASSUME Paint.Rotate = 0
      PROVE  Rotated(x, y) = <<x, y>>
  <2>1. Paint.Rotate # 90 /\ Paint.Rotate # 180 /\ Paint.Rotate # 270
    BY <1>1
  <2>2. QED
    BY <1>1, <2>1, Zenon DEF Rotated
<1>2. ASSUME Paint.Rotate = 90
      PROVE  Rotated(x, y) = <<U16(Paint.WidthMemory - y - 1), x>>
  <2>1. Paint.Rotate # 0 /\ Paint.Rotate # 180 /\ Paint.Rotate # 270
    BY <1>2
  <2>2. QED
    BY <1>2, <2>1, Zenon DEF Rotated
<1>3. ASSUME Paint.Rotate = 180
      PROVE  Rotated(x, y) =
                <<U16(Paint.WidthMemory - x - 1), U16(Paint.HeightMemory - y - 1)>>
  <2>1. Paint.Rotate # 0 /\ Paint.Rotate # 90 /\ Paint.Rotate # 270
    BY <1>3
  <2>2. QED
    BY <1>3, <2>1, Zenon DEF Rotated
<1>4. ASSUME Paint.Rotate = 270
      PROVE  Rotated(x, y) = <<y, U16(Paint.HeightMemory - x - 1)>>
  <2>1. Paint.Rotate # 0 /\ Paint.Rotate # 90 /\ Paint.Rotate # 180
    BY <1>4
  <2>2. QED
    BY <1>4, <2>1, Zenon DEF Rotated
<1>5. QED
  BY <1>1, <1>2, <1>3, <1>4

LEMMA RowSize ==
    ASSUME NEW s \in SCALES, NEW w \in Nat
    PROVE  WidthBytes(w, s) \in Nat
<1>1. CASE s = 65
  BY <1>1 DEF WidthBytes
<1>2. CASE s = 2
  BY <1>2, Pers DEF WidthBytes
<1>3. CASE s = 4
  BY <1>3, Pers DEF WidthBytes
<1>4. CASE s = 16
  BY <1>4, Pers DEF WidthBytes
<1>5. QED
  BY <1>1, <1>2, <1>3, <1>4 DEF SCALES

LEMMA RowBound ==
    ASSUME NEW s \in SCALES, NEW w \in Nat \ {0}, NEW x \in 0 .. w - 1
    PROVE  /\ WidthBytes(w, s) \in Nat
           /\ s # 65 => /\ x \div Per(s) \in 0 .. WidthBytes(w, s) - 1
                        /\ x % Per(s) \in Nat
           /\ s = 65 => x * 2 \in 0 .. WidthBytes(w, s) - 2
<1>1. CASE s = 65
  BY <1>1 DEF WidthBytes
<1>2. CASE s = 2
  BY <1>2, Pers DEF WidthBytes
<1>3. CASE s = 4
  BY <1>3, Pers DEF WidthBytes
<1>4. CASE s = 16
  BY <1>4, Pers DEF WidthBytes
<1>5. QED
  BY <1>1, <1>2, <1>3, <1>4 DEF SCALES

LEMMA Address ==
    ASSUME NEW b \in Nat, NEW h \in Nat, NEW k \in 0 .. b - 1, NEW y \in 0 .. h - 1
    PROVE  k + y * b \in 0 .. b * h - 1
<1>1. y * b >= 0
  <2>1. y \in Nat
    OBVIOUS
  <2>2. QED
    BY <2>1
<1>2. (y + 1) * b <= h * b
  <2>1. h - (y + 1) \in Nat
    OBVIOUS
  <2>2. (h - (y + 1)) * b >= 0
    BY <2>1
  <2>3. QED
    BY <2>2
<1>3. QED
  BY <1>1, <1>2

LEMMA Apart ==
    ASSUME NEW b \in Nat, NEW k \in 0 .. b - 1, NEW j \in 0 .. b - 1, NEW y \in Nat, NEW z \in Nat,
           k + y * b = j + z * b
    PROVE  k = j /\ y = z
<1>1. ASSUME NEW u \in Nat, NEW v \in Nat, NEW m \in 0 .. b - 1, NEW n \in 0 .. b - 1, u < v
      PROVE  m + u * b < n + v * b
  <2>1. (v - (u + 1)) * b >= 0
    <3>1. v - (u + 1) \in Nat
      BY <1>1
    <3>2. QED
      BY <3>1
  <2>2. v * b >= u * b + b
    BY <2>1
  <2>3. QED
    BY <2>2
<1>2. y = z
  BY <1>1
<1>3. QED
  BY <1>2

(* A pixel of a fitting image has a place in its memory, and another pixel *)
(* another place.                                                          *)
LEMMA Place ==
    ASSUME Made, Fitting, NEW x \in 0 .. Paint.Width - 1, NEW y \in 0 .. Paint.Height - 1
    PROVE  /\ Rotated(x, y) \in (0 .. Paint.WidthMemory - 1) \X (0 .. Paint.HeightMemory - 1)
           /\ Mirrored(Rotated(x, y)) \in
                (0 .. Paint.WidthMemory - 1) \X (0 .. Paint.HeightMemory - 1)
<1> DEFINE W == Paint.WidthMemory  H == Paint.HeightMemory
<1>1. W \in Nat \ {0} /\ H \in Nat \ {0} /\ W < 32768 /\ H < 32768 /\ Paint.Rotate \in {0, 90, 180, 270}
  BY DEF Made, ROTATES
<1>2. ASSUME NEW n \in Nat \ {0}, n < 32768, NEW k \in 0 .. n - 1
      PROVE  U16(n - k - 1) = n - k - 1 /\ n - k - 1 \in 0 .. n - 1
  BY <1>2 DEF U16
<1>3. CASE Paint.Rotate \in {0, 180}
  <2>1. Paint.Width = W /\ Paint.Height = H
    BY <1>3, <1>1 DEF Made, Fitting
  <2>2. Rotated(x, y) \in (0 .. W - 1) \X (0 .. H - 1)
    BY <1>1, <1>2, <1>3, <2>1, Turns
  <2>3. QED
    BY <2>2, <1>1, <1>2 DEF Mirrored
<1>4. CASE Paint.Rotate \in {90, 270}
  <2>1. Paint.Width = H /\ Paint.Height = W
    BY <1>4, <1>1 DEF Made, Fitting
  <2>2. U16(W - y - 1) \in 0 .. W - 1 /\ U16(H - x - 1) \in 0 .. H - 1
    BY <1>1, <1>2, <2>1
  <2>3. x \in 0 .. H - 1 /\ y \in 0 .. W - 1
    BY <2>1
  <2>4. ASSUME Paint.Rotate = 90
      PROVE  Rotated(x, y) \in (0 .. W - 1) \X (0 .. H - 1)
    <3>1. Rotated(x, y) = <<U16(W - y - 1), x>>
      BY <2>4, Turns
    <3>2. QED
      BY <2>2, <2>3, <3>1
  <2>5. ASSUME Paint.Rotate = 270
      PROVE  Rotated(x, y) \in (0 .. W - 1) \X (0 .. H - 1)
    <3>1. Rotated(x, y) = <<y, U16(H - x - 1)>>
      BY <2>5, Turns
    <3>2. QED
      BY <2>2, <2>3, <3>1
  <2>6. Rotated(x, y) \in (0 .. W - 1) \X (0 .. H - 1)
    BY <1>4, <2>4, <2>5
  <2>7. QED
    BY <2>6, <1>1, <1>2 DEF Mirrored
<1>5. QED
  BY <1>1, <1>3, <1>4

LEMMA PlacesDiffer ==
    ASSUME Made, Fitting, NEW x \in 0 .. Paint.Width - 1, NEW y \in 0 .. Paint.Height - 1,
           NEW v \in 0 .. Paint.Width - 1, NEW w \in 0 .. Paint.Height - 1,
           Mirrored(Rotated(x, y)) = Mirrored(Rotated(v, w))
    PROVE  x = v /\ y = w
<1> DEFINE W == Paint.WidthMemory  H == Paint.HeightMemory
<1>1. W \in Nat \ {0} /\ H \in Nat \ {0} /\ W < 32768 /\ H < 32768 /\ Paint.Rotate \in {0, 90, 180, 270}
  BY DEF Made, ROTATES
<1>2. ASSUME NEW n \in Nat \ {0}, n < 32768, NEW k \in 0 .. n - 1
      PROVE  U16(n - k - 1) = n - k - 1
  BY <1>2 DEF U16
<1>3. Rotated(x, y) = Rotated(v, w)
  <2> DEFINE c == Rotated(x, y)  d == Rotated(v, w)
  <2>1. c \in (0 .. W - 1) \X (0 .. H - 1) /\ d \in (0 .. W - 1) \X (0 .. H - 1)
    BY Place
  <2>2. Mirrored(c) = Mirrored(d)
    OBVIOUS
  <2> HIDE DEF c, d
  <2>3. /\ U16(W - c[1] - 1) = W - c[1] - 1 /\ U16(W - d[1] - 1) = W - d[1] - 1
        /\ U16(H - c[2] - 1) = H - c[2] - 1 /\ U16(H - d[2] - 1) = H - d[2] - 1
    BY <1>1, <1>2, <2>1
  <2>4. c[1] = d[1] /\ c[2] = d[2]
    BY <1>1, <2>1, <2>2, <2>3 DEF Mirrored
  <2>5. c = d
    BY <2>1, <2>4
  <2>6. QED
    BY <2>5 DEF c, d
<1>4. CASE Paint.Rotate \in {0, 180}
  <2>1. Paint.Width = W /\ Paint.Height = H
    BY <1>4, <1>1 DEF Made, Fitting
  <2>2. QED
    BY <1>1, <1>2, <1>3, <1>4, <2>1, Turns
<1>5. CASE Paint.Rotate \in {90, 270}
  <2>1. Paint.Width = H /\ Paint.Height = W
    BY <1>5, <1>1 DEF Made, Fitting
  <2>2. QED
    <3>1. x \in 0 .. H - 1 /\ y \in 0 .. W - 1 /\ v \in 0 .. H - 1 /\ w \in 0 .. W - 1
      BY <2>1
    <3>2. /\ U16(W - y - 1) = W - y - 1 /\ U16(H - x - 1) = H - x - 1
          /\ U16(W - w - 1) = W - w - 1 /\ U16(H - v - 1) = H - v - 1
      BY <1>1, <1>2, <3>1
    <3>3. CASE Paint.Rotate = 90
      BY <1>1, <1>3, <3>1, <3>2, <3>3, Turns
    <3>4. CASE Paint.Rotate = 270
      BY <1>1, <1>3, <3>1, <3>2, <3>4, Turns
    <3>5. QED
      BY <1>5, <3>3, <3>4
<1>6. QED
  BY <1>1, <1>4, <1>5

LEMMA InsideStaysInside ==
    ASSUME Made, Fitting, NEW x \in 0 .. Paint.Width - 1, NEW y \in 0 .. Paint.Height - 1
    PROVE  ~Clipped(x, y) /\ ~Outside(x, y)
<1> DEFINE W == Paint.WidthMemory  H == Paint.HeightMemory  c == Mirrored(Rotated(x, y))
           b == Paint.WidthByte
<1>1. /\ W \in Nat \ {0} /\ H \in Nat \ {0} /\ W < 32768 /\ H < 32768 /\ Paint.Scale \in SCALES /\ b = WidthBytes(W, Paint.Scale)
      /\ Paint.Width \in Nat /\ Paint.Height \in Nat /\ b \in Nat /\ Paint.HeightByte = H
  BY DEF Made
<1>2. c[1] \in 0 .. W - 1 /\ c[2] \in 0 .. H - 1
  BY Place
<1>3. ~Clipped(x, y)
  BY <1>1, <1>2 DEF Clipped
<1>4. ~Outside(x, y)
  <2>1. CASE Paint.Scale = 65
    <3>1. c[1] * 2 \in 0 .. b - 2
      BY <1>1, <1>2, <2>1, RowBound
    <3>2. ASSUME NEW d \in {0, 1}
          PROVE  c[1] * 2 + c[2] * b + d \in 0 .. b * H - 1
      <4> HIDE DEF c, b, H
      <4>1. c[1] * 2 + d \in 0 .. b - 1
        BY <1>1, <3>1
      <4>2. (c[1] * 2 + d) + c[2] * b \in 0 .. b * H - 1
        BY <1>1, <1>2, <4>1, Address
      <4>3. (c[1] * 2 + d) + c[2] * b = c[1] * 2 + c[2] * b + d
        <5>1. c[2] * b \in Int /\ c[1] \in Int
          BY <1>1, <1>2
        <5>2. QED
          BY <5>1
      <4>4. QED
        BY <4>2, <4>3
    <3>3. QED
      BY <1>1, <2>1, <3>2 DEF Outside, Cells, Bytes
  <2>2. CASE Paint.Scale # 65
    <3>1. c[1] \div Per(Paint.Scale) \in 0 .. b - 1
      BY <1>1, <1>2, <2>2, RowBound
    <3>2. c[1] \div Per(Paint.Scale) + c[2] * b \in 0 .. b * H - 1
      <4> HIDE DEF c, b, H
      <4>1. QED
        BY <1>1, <1>2, <3>1, Address
    <3>3. QED
      BY <1>1, <2>2, <3>2 DEF Outside, Cells, Bytes
  <2>3. QED
    BY <2>1, <2>2
<1>5. QED
  BY <1>3, <1>4

(* With less than two bytes to a pixel, the bits of a pixel are in a byte.  *)
LEMMA OneByte ==
    ASSUME Made, Fitting, Paint.Scale # 65,
           NEW x \in 0 .. Paint.Width - 1, NEW y \in 0 .. Paint.Height - 1,
           NEW v \in 0 .. Paint.Width - 1, NEW w \in 0 .. Paint.Height - 1,
           Cells(x, y) \cap Cells(v, w) # {}
    PROVE  x = v /\ y = w
<1> DEFINE W == Paint.WidthMemory  H == Paint.HeightMemory  b == Paint.WidthByte
           c == Mirrored(Rotated(x, y))  d == Mirrored(Rotated(v, w))  n == Per(Paint.Scale)
<1>1. /\ W \in Nat \ {0} /\ H \in Nat \ {0} /\ Paint.Scale \in SCALES
      /\ b = WidthBytes(W, Paint.Scale) /\ b \in Nat
  BY DEF Made
<1>2. /\ c \in (0 .. W - 1) \X (0 .. H - 1) /\ d \in (0 .. W - 1) \X (0 .. H - 1)
  BY Place
<1>3. c[1] \in 0 .. W - 1 /\ c[2] \in Nat /\ d[1] \in 0 .. W - 1 /\ d[2] \in Nat
  BY <1>1, <1>2
<1>4. c[1] \div n \in 0 .. b - 1 /\ d[1] \div n \in 0 .. b - 1
  BY <1>1, <1>3, RowBound
<1>5. /\ c[1] \div n + c[2] * b = d[1] \div n + d[2] * b
      /\ c[1] % n = d[1] % n
  BY DEF Cells
<1>6. n \in {1, 2, 4, 8}
  BY <1>1, Pers DEF SCALES
<1> HIDE DEF c, d, n, b
<1>7. c[1] \div n = d[1] \div n /\ c[2] = d[2]
  <2> DEFINE k == c[1] \div n  j == d[1] \div n
  <2>1. k \in 0 .. b - 1 /\ j \in 0 .. b - 1 /\ k + c[2] * b = j + d[2] * b
    BY <1>4, <1>5
  <2> DEFINE y2 == c[2]  z2 == d[2]
  <2> HIDE DEF k, j
  <2>2. y2 \in Nat /\ z2 \in Nat /\ b \in Nat /\ k + y2 * b = j + z2 * b
    BY <1>1, <1>3, <2>1
  <2> HIDE DEF y2, z2
  <2>3. k = j /\ y2 = z2
    BY <2>1, <2>2, Apart
  <2>4. k = j /\ c[2] = d[2]
    BY <2>3 DEF y2, z2
  <2>5. QED
    BY <2>4 DEF k, j
<1>8. c[1] = d[1]
  BY <1>3, <1>5, <1>6, <1>7
<1>9. c = d
  BY <1>2, <1>7, <1>8
<1>10. QED
  BY <1>9, PlacesDiffer DEF c, d

LEMMA TwoBytes ==
    ASSUME Made, Fitting, Paint.Scale = 65,
           NEW x \in 0 .. Paint.Width - 1, NEW y \in 0 .. Paint.Height - 1,
           NEW v \in 0 .. Paint.Width - 1, NEW w \in 0 .. Paint.Height - 1,
           NEW i \in {0, 1}, NEW j \in {0, 1},
           Mirrored(Rotated(x, y))[1] * 2 + Mirrored(Rotated(x, y))[2] * Paint.WidthByte + i
             = Mirrored(Rotated(v, w))[1] * 2 + Mirrored(Rotated(v, w))[2] * Paint.WidthByte + j
    PROVE  x = v /\ y = w /\ i = j
<1> DEFINE W == Paint.WidthMemory  H == Paint.HeightMemory  b == Paint.WidthByte
           c == Mirrored(Rotated(x, y))  d == Mirrored(Rotated(v, w))
<1>1. /\ W \in Nat \ {0} /\ H \in Nat \ {0} /\ Paint.Scale \in SCALES
      /\ b = WidthBytes(W, Paint.Scale) /\ b \in Nat
  BY DEF Made
<1>2. /\ c \in (0 .. W - 1) \X (0 .. H - 1) /\ d \in (0 .. W - 1) \X (0 .. H - 1)
  BY Place
<1>3. c[1] \in 0 .. W - 1 /\ c[2] \in Nat /\ d[1] \in 0 .. W - 1 /\ d[2] \in Nat
  BY <1>1, <1>2
<1>4. c[1] * 2 \in 0 .. b - 2 /\ d[1] * 2 \in 0 .. b - 2
  BY <1>1, <1>3, RowBound, Zenon
<1>5. c[1] * 2 + c[2] * b + i = d[1] * 2 + d[2] * b + j
  OBVIOUS
<1> HIDE DEF c, d, b
<1>6. c[2] * b \in Int /\ d[2] * b \in Int
  BY <1>1, <1>3
<1>7. (c[1] * 2 + i) + c[2] * b = (d[1] * 2 + j) + d[2] * b
  BY <1>3, <1>5, <1>6
<1>8. c[1] * 2 + i \in 0 .. b - 1 /\ d[1] * 2 + j \in 0 .. b - 1
  BY <1>1, <1>4
<1>9. c[1] * 2 + i = d[1] * 2 + j /\ c[2] = d[2]
  <2> DEFINE k == c[1] * 2 + i  l == d[1] * 2 + j
  <2>1. k \in 0 .. b - 1 /\ l \in 0 .. b - 1 /\ k + c[2] * b = l + d[2] * b
    BY <1>7, <1>8
  <2> DEFINE y2 == c[2]  z2 == d[2]
  <2> HIDE DEF k, l
  <2>2. y2 \in Nat /\ z2 \in Nat /\ b \in Nat /\ k + y2 * b = l + z2 * b
    BY <1>1, <1>3, <2>1
  <2> HIDE DEF y2, z2
  <2>3. k = l /\ y2 = z2
    BY <2>1, <2>2, Apart
  <2>4. k = l /\ c[2] = d[2]
    BY <2>3 DEF y2, z2
  <2>5. QED
    BY <2>4 DEF k, l
<1>10. c[1] = d[1] /\ i = j
  BY <1>3, <1>9
<1>11. c = d
  BY <1>2, <1>9, <1>10
<1>12. QED
  BY <1>10, <1>11, PlacesDiffer DEF c, d

LEMMA BitsAreCounted ==
    ASSUME Made
    PROVE  PixelsHaveTheirOwnBits
<1> SUFFICES ASSUME Fitting
             PROVE  LET all == (0 .. Paint.Width - 1) \X (0 .. Paint.Height - 1)
                    IN  /\ \A q \in all : ~Outside(q[1], q[2]) /\ ~Clipped(q[1], q[2])
                        /\ Cardinality(UNION {Cells(q[1], q[2]) : q \in all})
                             = Cardinality(all) * (IF Paint.Scale = 65 THEN 2 ELSE 1)
  BY DEF PixelsHaveTheirOwnBits
<1> DEFINE all == (0 .. Paint.Width - 1) \X (0 .. Paint.Height - 1)
           bits == UNION {Cells(q[1], q[2]) : q \in all}
           c(q) == Mirrored(Rotated(q[1], q[2]))
           n == Per(Paint.Scale)
           b == Paint.WidthByte
<1>1. \A q \in all : ~Outside(q[1], q[2]) /\ ~Clipped(q[1], q[2])
  BY InsideStaysInside
<1>2. IsFiniteSet(all) /\ Cardinality(all) \in Nat
  <2>1. Paint.Width - 1 \in Int /\ Paint.Height - 1 \in Int
    BY DEF Made
  <2>2. IsFiniteSet(0 .. Paint.Width - 1) /\ IsFiniteSet(0 .. Paint.Height - 1)
    BY <2>1, FS_Interval
  <2>3. QED
    BY <2>2, FS_Product, FS_CardinalityType, Zenon
<1>3. CASE Paint.Scale # 65
  <2> DEFINE e == [q \in all |-> <<c(q)[1] \div n + c(q)[2] * b, c(q)[1] % n>>]
  <2>1. \A q \in all : Cells(q[1], q[2]) = {e[q]}
    BY <1>3 DEF Cells
  <2> HIDE DEF e
  <2>2. bits = {e[q] : q \in all}
    BY <2>1
  <2>3. \A q, r \in all : e[q] = e[r] => q = r
    BY <1>3, <2>1, OneByte
  <2>4. e \in Bijection(all, bits)
    <3>1. DOMAIN e = all /\ e = [q \in all |-> e[q]]
      BY DEF e
    <3>2. e \in [all -> bits]
      BY <2>2, <3>1
    <3>3. QED
      BY <2>2, <2>3, <3>2, Zenon DEF Bijection, Injection, Surjection, IsInjective
  <2>5. Cardinality(bits) = Cardinality(all)
    BY <1>2, <2>4, FS_Bijection DEF ExistsBijection
  <2>6. QED
    BY <1>1, <1>2, <1>3, <2>5
<1>4. CASE Paint.Scale = 65
  <2> DEFINE T == all \X {0, 1}
             e == [t \in T |-> <<c(t[1])[1] * 2 + c(t[1])[2] * b + t[2], 0>>]
  <2>1. \A q \in all : Cells(q[1], q[2]) = {e[<<q, i>>] : i \in {0, 1}}
    BY <1>4 DEF Cells
  <2>2. \A t, u \in T : e[t] = e[u] => t = u
    <3>1. SUFFICES ASSUME NEW t \in T, NEW u \in T, e[t] = e[u]
                   PROVE  t = u
      BY Zenon
    <3>2. /\ t[1] \in all /\ t[2] \in {0, 1} /\ t = <<t[1], t[2]>>
          /\ u[1] \in all /\ u[2] \in {0, 1} /\ u = <<u[1], u[2]>>
      OBVIOUS
    <3>3. c(t[1])[1] * 2 + c(t[1])[2] * b + t[2] = c(u[1])[1] * 2 + c(u[1])[2] * b + u[2]
      BY <3>1
    <3>4. t[1][1] = u[1][1] /\ t[1][2] = u[1][2] /\ t[2] = u[2]
      BY <1>4, <3>2, <3>3, TwoBytes
    <3>5. t[1] = u[1]
      BY <3>2, <3>4
    <3>6. QED
      BY <3>2, <3>4, <3>5
  <2> HIDE DEF e
  <2>3. bits = {e[t] : t \in T}
    <3>1. \A q \in all, i \in {0, 1} : <<q, i>> \in T
      OBVIOUS
    <3>2. \A t \in T : t = <<t[1], t[2]>> /\ t[1] \in all /\ t[2] \in {0, 1}
      OBVIOUS
    <3> HIDE DEF T
    <3>3. ASSUME NEW t \in T
          PROVE  e[t] \in bits
      <4>1. e[t] \in Cells(t[1][1], t[1][2])
        <5>1. t[1] \in all /\ t[2] \in {0, 1} /\ e[t] = e[<<t[1], t[2]>>]
          BY <3>2
        <5>2. e[<<t[1], t[2]>>] \in Cells(t[1][1], t[1][2])
          BY <2>1, <5>1, Zenon
        <5>3. QED
          BY <5>1, <5>2
      <4>2. QED
        BY <3>2, <4>1
    <3>4. ASSUME NEW a \in bits
          PROVE  \E t \in T : a = e[t]
      <4>1. PICK q \in all : a \in Cells(q[1], q[2])
        OBVIOUS
      <4>2. PICK i \in {0, 1} : a = e[<<q, i>>]
        BY <2>1, <4>1, Zenon
      <4>3. QED
        BY <3>1, <4>2, Zenon
    <3>5. QED
      BY <3>3, <3>4
  <2>4. e \in Bijection(T, bits)
    <3>1. DOMAIN e = T /\ e = [t \in T |-> e[t]]
      BY DEF e
    <3>2. e \in [T -> bits]
      BY <2>3, <3>1, Zenon
    <3>3. QED
      BY <2>2, <2>3, <3>2, Zenon DEF Bijection, Injection, Surjection, IsInjective
  <2>5. IsFiniteSet({0, 1}) /\ Cardinality({0, 1}) = 2
    <3>1. IsFiniteSet({1}) /\ Cardinality({1}) = 1
      BY FS_Singleton, Zenon
    <3>2. {0, 1} = {1} \cup {0} /\ 0 \notin {1}
      OBVIOUS
    <3>3. QED
      BY <3>1, <3>2, FS_AddElement
  <2>6. IsFiniteSet(T) /\ Cardinality(T) = Cardinality(all) * 2
    BY <1>2, <2>5, FS_Product
  <2>7. Cardinality(bits) = Cardinality(all) * 2
    BY <2>4, <2>6, FS_Bijection DEF ExistsBijection
  <2>8. QED
    BY <1>1, <1>2, <1>4, <2>7
<1>5. QED
  BY <1>3, <1>4
-----------------------------------------------------------------------------
LEMMA FramesAreSeq ==
    ASSUME NEW S, NEW s \in Seq(S), \A g \in S : Frame(g)
    PROVE  Frames(s)
<1>1. Len(s) \in Nat /\ s \in [1 .. Len(s) -> S] /\ DOMAIN s = 1 .. Len(s)
  BY LenProperties
<1> DEFINE T == {s[i] : i \in DOMAIN s}
<1>2. s \in [1 .. Len(s) -> T]
  BY <1>1
<1>3. s \in Seq(T)
  BY <1>1, <1>2, SeqDef
<1>4. QED
  BY <1>1, <1>3 DEF Frames

LEMMA NoFrames == Frames(<<>>)
<1> DEFINE S == {}
<1>1. <<>> \in Seq(S)
  BY EmptySeq
<1>2. \A g \in S : Frame(g)
  OBVIOUS
<1> HIDE DEF S
<1>3. QED
  BY <1>1, <1>2, FramesAreSeq, Zenon

LEMMA OneFrame ==
    ASSUME NEW g, Frame(g)
    PROVE  Frames(<<g>>)
<1> DEFINE S == {g}  s == <<g>>
<1>1. s \in Seq(S)
  OBVIOUS
<1>2. \A h \in S : Frame(h)
  OBVIOUS
<1> HIDE DEF S, s
<1>3. Frames(s)
  BY <1>1, <1>2, FramesAreSeq
<1>4. QED
  BY <1>3 DEF s

LEMMA MoreFrames ==
    ASSUME NEW s, NEW t, Frames(s), Frames(t)
    PROVE  Frames(s \o t)
<1> DEFINE A == {s[i] : i \in DOMAIN s}  B == {t[i] : i \in DOMAIN t}  S == A \cup B
<1>1. s \in Seq(A) /\ t \in Seq(B)
  BY DEF Frames
<1>2. \A g \in S : Frame(g)
  BY DEF Frames
<1> HIDE DEF A, B
<1>3. s \in Seq(S) /\ t \in Seq(S)
  BY <1>1, SeqMonotonic
<1> HIDE DEF S
<1>4. s \o t \in Seq(S)
  BY <1>3, ConcatProperties
<1>5. QED
  BY <1>2, <1>4, FramesAreSeq, Zenon

LEMMA FrameInHand ==
    ASSUME Frames(todo), todo # <<>>
    PROVE  Frame(f) /\ Frames(Tail(todo))
<1> DEFINE S == {todo[i] : i \in DOMAIN todo}
<1>1. todo \in Seq(S) /\ \A g \in S : Frame(g)
  BY DEF Frames
<1> HIDE DEF S
<1>2. Head(todo) \in S /\ Tail(todo) \in Seq(S)
  BY <1>1, HeadTailProperties
<1>3. QED
  BY <1>1, <1>2, FramesAreSeq, Zenon DEF f

LEMMA StepsLeaveFrames ==
    ASSUME Frames(todo), todo # <<>>, NEW s, Frames(s), Steps(s)
    PROVE  Frames(todo') /\ Paint' = Paint /\ shape' = shape
  BY FrameInHand, MoreFrames DEF Steps
-----------------------------------------------------------------------------
(* The fonts: a glyph is higher than it is wide, its rows have whole bytes *)
(* and its table as many as 95 glyphs need.                                *)
LEMMA FontSizes ==
    ASSUME NEW font \in SFonts
    PROVE  /\ font.Width \in 1 .. 17 /\ font.Height \in 1 .. 24 /\ font.Width <= font.Height
           /\ RowBytes(font) \in 1 .. 3 /\ RowOf(font) = RowBytes(font)
           /\ font.table \in Nat /\ 95 * (font.Height * RowBytes(font)) <= font.table
<1>1. CASE font = Font8
  BY <1>1 DEF Font8, RowBytes, RowOf
<1>2. CASE font = Font12
  BY <1>2 DEF Font12, RowBytes, RowOf
<1>3. CASE font = Font16
  BY <1>3 DEF Font16, RowBytes, RowOf
<1>4. CASE font = Font20
  BY <1>4 DEF Font20, RowBytes, RowOf
<1>5. CASE font = Font24
  BY <1>5 DEF Font24, RowBytes, RowOf
<1>6. QED
  BY <1>1, <1>2, <1>3, <1>4, <1>5 DEF SFonts

LEMMA ChineseSizes ==
    ASSUME NEW font \in CFonts
    PROVE  /\ font.Width \in 1 .. 32 /\ font.Height \in 1 .. 41 /\ font.ASCII_Width \in Nat
           /\ RowBytes(font) \in 1 .. 4 /\ RowOf(font) = RowBytes(font)
           /\ font.Height * RowBytes(font) <= CH_CN /\ CH_CN \in Nat
<1>1. CASE font = Font12CN
  BY <1>1 DEF Font12CN, RowBytes, RowOf, CH_CN, MAX_HEIGHT_FONT, MAX_WIDTH_FONT
<1>2. CASE font = Font24CN
  BY <1>2 DEF Font24CN, RowBytes, RowOf, CH_CN, MAX_HEIGHT_FONT, MAX_WIDTH_FONT
<1>3. QED
  BY <1>1, <1>2 DEF CFonts

LEMMA Written ==
    ASSUME NEW s \in Scripts
    PROVE  /\ s.call \in {"string", "chinese", "number", "time"} /\ s.x \in Nat /\ s.y \in Nat
           /\ s.call = "chinese" => s.font \in CFonts /\ Complete(s.text)
           /\ s.call # "chinese" => s.font \in SFonts
           /\ s.call = "string" => s.text \in Seq(32 .. 126)
           /\ s.call = "time" => /\ s.text[1] \in Nat /\ s.text[2] \in Nat /\ s.text[3] \in Nat
                                 /\ s.text[1] < 60 /\ s.text[2] < 60 /\ s.text[3] < 60
           /\ s.call = "number" =>
                 /\ s.text[1] \in Nat /\ s.text[2] \in Nat /\ s.text[3] \in 0 .. 9
                 /\ s.text[1] <= INT_MAX /\ s.text[2] < Tens[s.text[3] + 1]
<1>1. s.x \in Nat /\ s.y \in Nat
  BY ScriptAssumption
<1>2. CASE s.call = "string" /\ s.font \in SFonts /\ s.text \in Seq(32 .. 126)
  BY <1>1, <1>2
<1>3. CASE /\ s.call = "time" /\ s.font \in SFonts
           /\ s.text \in Nat \X Nat \X Nat /\ \A i \in 1 .. 3 : s.text[i] < 60
  BY <1>1, <1>3
<1>4. CASE /\ s.call = "number" /\ s.font \in SFonts
           /\ s.text \in Nat \X Nat \X (0 .. 9) /\ s.text[1] <= INT_MAX
           /\ s.text[2] < Tens[s.text[3] + 1]
  <2>1. s.text[1] \in Nat /\ s.text[2] \in Nat /\ s.text[3] \in 0 .. 9
    BY <1>4
  <2>2. QED
    BY <1>1, <1>4, <2>1
<1>5. CASE s.call = "chinese" /\ s.font \in CFonts /\ Complete(s.text)
  BY <1>1, <1>5
<1>6. QED
  BY <1>2, <1>3, <1>4, <1>5, ScriptAssumption, Zenon

(* What the calls leave to do.                                             *)
LEMMA LineFrame ==
    ASSUME NEW x \in Int, NEW y \in Int, NEW xe \in Int, NEW ye \in Int, NEW size \in Int
    PROVE  Frame(Line(x, y, xe, ye, size))
  BY DEF Frame, Line, Dist, Upper

LEMMA LineFrames ==
    ASSUME NEW x \in Int, NEW y \in Int, NEW xe \in Int, NEW ye \in Int, NEW size \in Int
    PROVE  Frames(DrawLine(x, y, xe, ye, size))
  BY LineFrame, OneFrame, NoFrames DEF DrawLine

LEMMA RectangleFrames ==
    ASSUME NEW x \in Int, NEW y \in Int, NEW xe \in Int, NEW ye \in Int, NEW size \in Int,
           NEW fill \in BOOLEAN
    PROVE  Frames(DrawRectangle(x, y, xe, ye, size, fill))
<1>1. ASSUME fill
      PROVE  Frames([n \in 1 .. Upper(0, ye - y) |-> Line(x, y + n - 1, xe, y + n - 1, size)])
  <2> DEFINE m == Upper(0, ye - y)
             row(n) == Line(x, y + n - 1, xe, y + n - 1, size)
             S == {row(n) : n \in 1 .. m}
  <2>1. m \in Nat
    BY DEF Upper
  <2>2. \A g \in S : Frame(g)
    <3>1. \A n \in Int : y + n - 1 \in Int
      OBVIOUS
    <3>2. QED
      BY <3>1, LineFrame
  <2> HIDE DEF m, row
  <2>3. [n \in 1 .. m |-> row(n)] \in [1 .. m -> S]
    OBVIOUS
  <2> HIDE DEF S
  <2>4. [n \in 1 .. m |-> row(n)] \in Seq(S)
    BY <2>1, <2>3, SeqDef
  <2>5. Frames([n \in 1 .. m |-> row(n)])
    BY <2>2, <2>4, FramesAreSeq
  <2>6. QED
    BY <2>5 DEF m, row
<1>2. Frames(DrawLine(x, y, xe, y, size) \o DrawLine(x, y, x, ye, size)
               \o DrawLine(xe, ye, xe, y, size) \o DrawLine(xe, ye, x, ye, size))
  BY LineFrames, MoreFrames
<1>3. QED
  BY <1>1, <1>2, NoFrames DEF DrawRectangle

LEMMA Wrapped ==
    ASSUME NEW n \in Int
    PROVE  I16(n) \in Int /\ (n >= -32768 /\ n < 32768 => I16(n) = n)
  BY DEF I16

LEMMA CircleFrames ==
    ASSUME NEW x \in Int, NEW y \in Int, NEW r \in Int, NEW size \in Int, NEW fill
    PROVE  Frames(DrawCircle(x, y, r, size, fill))
<1> DEFINE yc == I16(r)
           e == I16(3 - 2 * r)
           g == [op |-> "circle", x |-> x, y |-> y, xc |-> 0, yc |-> yc, Esp |-> e,
                 size |-> size, fill |-> fill]
<1>1. Frame(g)
  <2>1. r \in Int /\ 3 - 2 * r \in Int
    OBVIOUS
  <2>2. yc \in Int /\ e \in Int
    BY <2>1, Wrapped
  <2> HIDE DEF yc, e
  <2>3. QED
    BY <2>2 DEF Frame
<1>2. QED
  BY <1>1, OneFrame, NoFrames DEF DrawCircle

LEMMA GlyphFrames ==
    ASSUME NEW x \in Int, NEW y \in Int, NEW font, NEW first, NEW last, NEW turned
    PROVE  Frames(Glyph(x, y, font, first, last, turned))
<1> DEFINE g == [op |-> "glyph", x |-> x, y |-> y, font |-> font, row |-> 0, ptr |-> first,
                 first |-> first, last |-> last, turned |-> turned]
<1>1. Frame(g)
  BY DEF Frame
<1>2. QED
  BY <1>1, OneFrame DEF Glyph

LEMMA CharFrames ==
    ASSUME NEW x \in Int, NEW y \in Int, NEW char, NEW font
    PROVE  Frames(DrawChar(x, y, char, font))
  BY GlyphFrames, NoFrames, Zenon DEF DrawChar

LEMMA StringFrames ==
    ASSUME NEW x \in Int, NEW y \in Int, NEW text, NEW font,
           font.Width \in Int, font.Height \in Int
    PROVE  Frames(DrawString_EN(x, y, text, font))
<1> DEFINE g == [op |-> "string", x |-> x, y |-> y, x0 |-> x, y0 |-> y, text |-> text,
                 font |-> font]
<1>1. Frame(g)
  BY DEF Frame
<1>2. QED
  BY <1>1, OneFrame, NoFrames DEF DrawString_EN

LEMMA ChineseFrames ==
    ASSUME NEW x \in Int, NEW y \in Int, NEW text, NEW font,
           font.Width \in Int, font.ASCII_Width \in Int
    PROVE  Frames(DrawString_CN(x, y, text, font))
<1> DEFINE g == [op |-> "cn", x |-> x, y |-> y, text |-> text, at |-> 1, font |-> font]
<1>1. Frame(g)
  BY DEF Frame
<1>2. QED
  BY <1>1, OneFrame DEF DrawString_CN

LEMMA TimeFrames ==
    ASSUME NEW x \in Int, NEW y \in Int, NEW t, NEW font, font.Width \in Nat
    PROVE  Frames(DrawTime(x, y, t, font))
<1> DEFINE D == font.Width
           at == <<0, D, D + D \div 4 + D \div 2, 2 * D + D \div 2, 3 * D + D \div 2,
                   4 * D + D \div 2 - D \div 4, 5 * D, 6 * D>>
           char == <<48 + t[1] \div 10, 48 + (t[1] % 10), 58, 48 + t[2] \div 10,
                     48 + (t[2] % 10), 58, 48 + t[3] \div 10, 48 + (t[3] % 10)>>
           put(n) == DrawChar(x + at[n], y, char[n], font)
<1>1. \A n \in 1 .. 8 : x + at[n] \in Int
  OBVIOUS
<1> HIDE DEF at, char
<1>2. \A n \in 1 .. 8 : Frames(put(n))
  BY <1>1, CharFrames
<1> HIDE DEF put
<1>3. Frames(put(1) \o put(2) \o put(3) \o put(4) \o put(5) \o put(6) \o put(7) \o put(8))
  BY <1>2, MoreFrames
<1>4. QED
  BY <1>3 DEF DrawTime, put, at, char
-----------------------------------------------------------------------------
LEMMA PixelsKeep ==
    ASSUME Made, Marks, NEW points, points \subseteq Nat \X Nat, SetPixels(points)
    PROVE  /\ drawn' \subseteq Canvas /\ lost' \in BOOLEAN
           /\ strays' \subseteq {"edge", "turned", "wide"}
<1> DEFINE on == {q \in points : ~Clipped(q[1], q[2])}
<1>1. Paint.Width \in Nat /\ Paint.Height \in Nat
  BY DEF Made
<1>2. on \subseteq Canvas
  <2>1. SUFFICES ASSUME NEW q \in on
                 PROVE  q \in Canvas
    OBVIOUS
  <2>2. q = <<q[1], q[2]>> /\ q[1] \in Nat /\ q[2] \in Nat
    OBVIOUS
  <2>3. q[1] <= Paint.Width /\ q[2] <= Paint.Height
    BY <1>1, <2>2 DEF Clipped
  <2>4. QED
    BY <1>1, <2>2, <2>3 DEF Canvas
<1>3. ASSUME NEW q \in on, Outside(q[1], q[2]), q[1] # Paint.Width, q[2] # Paint.Height
      PROVE  ~Fitting
  <2>1. q[1] \in 0 .. Paint.Width - 1 /\ q[2] \in 0 .. Paint.Height - 1
    BY <1>1, <1>2, <1>3 DEF Canvas
  <2>2. QED
    BY <1>3, <2>1, InsideStaysInside
<1>4. /\ drawn' = drawn \cup on /\ lost' = (lost \/ on # points)
      /\ strays' = strays \cup
            {IF q[1] = Paint.Width \/ q[2] = Paint.Height THEN "edge"
             ELSE IF ~Fitting THEN "turned" ELSE "inside" : q \in {q \in on : Outside(q[1], q[2])}}
  BY DEF SetPixels
<1> HIDE DEF on
<1>5. QED
  BY <1>2, <1>3, <1>4, Zenon DEF Marks

LEMMA PointIsOnPlane ==
    ASSUME NEW x \in Int, NEW y \in Int, NEW size \in Int, NEW dots
    PROVE  DrawPoint(x, y, size, dots) \subseteq Nat \X Nat
<1> DEFINE around == {<<x + i - size, y + j - size>> : i \in {i \in 0 .. 2 * size - 2 : x + i >= size},
                                                      j \in {j \in 0 .. 2 * size - 2 : y >= size}}
           rightup == {<<U16(x + i - 1), U16(y + j - 1)>> : i, j \in 0 .. size - 1}
<1>1. around \subseteq Nat \X Nat
  OBVIOUS
<1>2. rightup \subseteq Nat \X Nat
  <2>1. \A k \in Int : U16(k) \in Nat
    BY DEF U16
  <2>2. \A i \in 0 .. size - 1 : x + i - 1 \in Int /\ y + i - 1 \in Int
    OBVIOUS
  <2>3. QED
    BY <2>1, <2>2
<1>3. DrawPoint(x, y, size, dots) \in {{}, around, rightup}
  <2>1. DrawPoint(x, y, size, dots)
          = IF x > Paint.Width \/ y > Paint.Height THEN {}
            ELSE IF dots = "around" THEN around ELSE rightup
    BY DEF DrawPoint
  <2> HIDE DEF around, rightup
  <2>2. QED
    BY <2>1
<1> HIDE DEF around, rightup
<1>4. QED
  BY <1>1, <1>2, <1>3

(* A step of a shape that is only taken apart.                             *)
Unpainted == UNCHANGED <<drawn, lost, strays>>

LEMMA LineStepKeeps ==
    ASSUME Made, Marks, Frames(todo), todo # <<>>, LineStep
    PROVE  Marks' /\ Frames(todo') /\ Paint' = Paint /\ shape' = shape
<1> DEFINE goX == 2 * f.Esp >= f.dy
           e1  == f.Esp + (IF goX THEN f.dy ELSE 0)
           goY == 2 * e1 <= f.dx
           sx  == IF goX THEN f.XAddway ELSE 0
           sy  == IF goY THEN f.YAddway ELSE 0
           x1 == f.x + sx
           y1 == f.y + sy
           e2 == e1 + (IF goY THEN f.dx ELSE 0)
           next == [f EXCEPT !.x = x1, !.y = y1, !.Esp = e2]
           new == IF (goX /\ f.x = f.xe) \/ (goY /\ f.y = f.ye) THEN <<>> ELSE <<next>>
<1>1. /\ f.op = "line" /\ SetPixels(DrawPoint(f.x, f.y, f.size, "around")) /\ Steps(new)
  BY DEF LineStep
<1>2. f \in [op : {"line"}, x : Int, y : Int, xe : Int, ye : Int, size : Int, dx : Int,
              dy : Int, Esp : Int, XAddway : Int, YAddway : Int]
  BY <1>1, FrameInHand DEF Frame
<1>3. x1 \in Int /\ y1 \in Int /\ e2 \in Int
  <2>1. /\ f.x \in Int /\ f.y \in Int /\ f.dx \in Int /\ f.dy \in Int /\ f.Esp \in Int
        /\ f.XAddway \in Int /\ f.YAddway \in Int
    BY <1>2
  <2>2. sx \in Int /\ sy \in Int /\ e1 \in Int
    BY <2>1
  <2> HIDE DEF sx, sy, e1, goY
  <2>3. QED
    BY <2>1, <2>2
<1> HIDE DEF x1, y1, e2, goX, goY
<1>4. next \in [op : {"line"}, x : Int, y : Int, xe : Int, ye : Int, size : Int, dx : Int,
                 dy : Int, Esp : Int, XAddway : Int, YAddway : Int]
  BY <1>2, <1>3, Zenon
<1>5. Frame(next)
  BY <1>4, Zenon DEF Frame
<1>6. Frames(new)
  BY <1>5, OneFrame, NoFrames
<1>7. Paint' = Paint /\ shape' = shape /\ Frames(todo')
  BY <1>1, <1>6, StepsLeaveFrames
<1>8. DrawPoint(f.x, f.y, f.size, "around") \subseteq Nat \X Nat
  BY <1>2, PointIsOnPlane
<1>9. QED
  BY <1>1, <1>7, <1>8, PixelsKeep DEF Marks, Canvas

LEMMA CircleStepKeeps ==
    ASSUME Made, Marks, Frames(todo), todo # <<>>, CircleStep
    PROVE  Marks' /\ Frames(todo') /\ Paint' = Paint /\ shape' = shape
<1> DEFINE eight(a, b) == {<<a, b>>, <<-a, b>>, <<-b, a>>, <<-b, -a>>,
                           <<-a, -b>>, <<a, -b>>, <<b, -a>>, <<b, a>>}
           points == UNION {eight(f.xc, s) : s \in IF f.fill THEN f.xc .. f.yc ELSE {f.yc}}
           size   == IF f.fill THEN 1 ELSE f.size
           xc1 == I16(f.xc + 1)
           yc1 == I16(f.yc - 1)
           e1 == I16(f.Esp + 4 * f.xc + 6)
           e2 == I16(f.Esp + 10 + 4 * (f.xc - f.yc))
           down == [f EXCEPT !.xc = xc1, !.Esp = e1]
           in   == [f EXCEPT !.xc = xc1, !.yc = yc1, !.Esp = e2]
           dots == UNION {DrawPoint(U16(f.x + q[1]), U16(f.y + q[2]), size, "around") : q \in points}
<1>1. f.op = "circle"
  BY DEF CircleStep
<1>2. f \in [op : {"circle"}, x : Int, y : Int, xc : Int, yc : Int, Esp : Int, size : Int,
              fill : {f.fill}]
  BY <1>1, FrameInHand DEF Frame
<1>3. CASE f.xc > f.yc
  <2>1. Steps(<<>>) /\ Unpainted
    BY <1>3 DEF CircleStep, Unpainted
  <2>2. QED
    BY <2>1, NoFrames, StepsLeaveFrames DEF Unpainted, Marks, Canvas
<1>4. CASE ~(f.xc > f.yc)
  <2>1. SetPixels(dots) /\ Steps(<<IF f.Esp < 0 THEN down ELSE in>>)
    BY <1>4 DEF CircleStep
  <2>2. xc1 \in Int /\ yc1 \in Int /\ e1 \in Int /\ e2 \in Int
    <3>1. f.xc \in Int /\ f.yc \in Int /\ f.Esp \in Int
      BY <1>2
    <3>2. ASSUME NEW x \in Int, NEW y \in Int, NEW e \in Int
          PROVE  /\ x + 1 \in Int /\ y - 1 \in Int
                 /\ e + 4 * x + 6 \in Int /\ e + 10 + 4 * (x - y) \in Int
      OBVIOUS
    <3> HIDE DEF xc1, yc1, e1, e2
    <3>3. \A n \in Int : I16(n) \in Int
      BY Wrapped
    <3>4. QED
      BY <3>1, <3>2, <3>3, Zenon DEF xc1, yc1, e1, e2
  <2> HIDE DEF xc1, yc1, e1, e2
  <2>3. down \in [op : {"circle"}, x : Int, y : Int, xc : Int, yc : Int, Esp : Int, size : Int,
                  fill : {down.fill}]
    BY <1>2, <2>2, Zenon
  <2>4. in \in [op : {"circle"}, x : Int, y : Int, xc : Int, yc : Int, Esp : Int, size : Int,
                fill : {in.fill}]
    BY <1>2, <2>2, Zenon
  <2>5. Frame(down) /\ Frame(in)
    BY <2>3, <2>4, Zenon DEF Frame
  <2> HIDE DEF down, in
  <2>6. Frames(<<IF f.Esp < 0 THEN down ELSE in>>)
    BY <2>5, OneFrame
  <2>7. Paint' = Paint /\ shape' = shape /\ Frames(todo')
    BY <2>1, <2>6, StepsLeaveFrames
  <2>8. dots \subseteq Nat \X Nat
    <3>1. \A q \in points : q[1] \in Int /\ q[2] \in Int
      <4>1. \A s \in (IF f.fill THEN f.xc .. f.yc ELSE {f.yc}) : s \in Int
        BY <1>2
      <4>2. \A a, b \in Int : \A q \in eight(a, b) : q[1] \in Int /\ q[2] \in Int
        OBVIOUS
      <4> HIDE DEF eight
      <4>3. QED
        BY <1>2, <4>1, <4>2
    <3> HIDE DEF points
    <3>2. size \in Int
      BY <1>2
    <3>3. \A k \in Int : U16(k) \in Int
      BY DEF U16
    <3> HIDE DEF size
    <3>4. \A q \in points : U16(f.x + q[1]) \in Int /\ U16(f.y + q[2]) \in Int
      BY <1>2, <3>1, <3>3
    <3>5. \A q \in points :
             DrawPoint(U16(f.x + q[1]), U16(f.y + q[2]), size, "around") \subseteq Nat \X Nat
      BY <3>2, <3>4, PointIsOnPlane
    <3>6. QED
      BY <3>5
  <2> HIDE DEF dots
  <2>9. QED
    BY <2>1, <2>7, <2>8, PixelsKeep DEF Marks, Canvas
<1>5. QED
  BY <1>3, <1>4

LEMMA GlyphStepKeeps ==
    ASSUME Made, Marks, Frames(todo), todo # <<>>, GlyphStep
    PROVE  Marks' /\ Frames(todo') /\ Paint' = Paint /\ shape' = shape
<1> DEFINE dots == {IF f.turned THEN <<U16(f.x + f.row), U16(f.y + c)>>
                    ELSE <<U16(f.x + c), U16(f.y + f.row)>> : c \in 0 .. f.font.Width - 1}
           row1 == f.row + 1
           ptr1 == f.ptr + RowOf(f.font)
           next == [f EXCEPT !.row = row1, !.ptr = ptr1]
           new == IF f.row + 1 = f.font.Height THEN <<>> ELSE <<next>>
<1>1. f.op = "glyph" /\ SetPixels(dots) /\ Steps(new)
  BY DEF GlyphStep
<1>2. f \in [op : {"glyph"}, x : Int, y : Int, font : {f.font}, row : Int, ptr : {f.ptr},
              first : {f.first}, last : {f.last}, turned : {f.turned}]
  BY <1>1, FrameInHand DEF Frame
<1>3. row1 \in Int
  BY <1>2
<1> HIDE DEF row1, ptr1
<1>4. next \in [op : {"glyph"}, x : Int, y : Int, font : {next.font}, row : Int, ptr : {next.ptr},
                 first : {next.first}, last : {next.last}, turned : {next.turned}]
        /\ next.op = "glyph"
  BY <1>2, <1>3, Zenon
<1>5. Frame(next)
  BY <1>4 DEF Frame
<1> HIDE DEF next
<1>6. Frames(new)
  BY <1>5, OneFrame, NoFrames
<1>7. Paint' = Paint /\ shape' = shape /\ Frames(todo')
  BY <1>1, <1>6, StepsLeaveFrames
<1>8. dots \subseteq Nat \X Nat
  <2>1. \A k \in Int : U16(k) \in Nat
    BY DEF U16
  <2>2. ASSUME NEW c \in 0 .. f.font.Width - 1
        PROVE  /\ <<U16(f.x + f.row), U16(f.y + c)>> \in Nat \X Nat
               /\ <<U16(f.x + c), U16(f.y + f.row)>> \in Nat \X Nat
    <3>1. /\ f.x + f.row \in Int /\ f.y + c \in Int
          /\ f.x + c \in Int /\ f.y + f.row \in Int
      BY <1>2
    <3>2. QED
      BY <2>1, <3>1, Zenon
  <2>3. QED
    BY <2>2, Zenon
<1> HIDE DEF dots
<1>9. QED
  BY <1>1, <1>7, <1>8, PixelsKeep DEF Marks, Canvas

LEMMA StringStepKeeps ==
    ASSUME Made, Marks, Frames(todo), todo # <<>>, StringStep
    PROVE  Marks' /\ Frames(todo') /\ Paint' = Paint /\ shape' = shape
<1> DEFINE full == f.x + f.font.Width > Paint.Width
           y1   == IF full THEN f.y + f.font.Height ELSE f.y
           over == TooLow(y1, f.font)
           x    == IF full \/ over THEN f.x0 ELSE f.x
           y    == IF over THEN f.y0 ELSE y1
           y2   == y + f.font.Width
           rest == Tail(f.text)
           next == [f EXCEPT !.x = x, !.y = y2, !.text = rest]
           new  == IF f.text = <<>> THEN <<>> ELSE DrawChar(x, y, Head(f.text), f.font) \o <<next>>
<1>1. f.op = "string" /\ UNCHANGED <<drawn, lost, strays>> /\ Steps(new)
  BY DEF StringStep
<1>2. /\ f \in [op : {"string"}, x : Int, y : Int, x0 : Int, y0 : Int, text : {f.text},
                 font : {f.font}]
      /\ f.font.Width \in Int /\ f.font.Height \in Int
  BY <1>1, FrameInHand DEF Frame
<1>3. x \in Int /\ y \in Int /\ y2 \in Int
  BY <1>2
<1> HIDE DEF x, y, y2, rest
<1>4. next \in [op : {"string"}, x : Int, y : Int, x0 : Int, y0 : Int, text : {next.text},
                 font : {next.font}]
        /\ next.op = "string" /\ next.font = f.font
  BY <1>2, <1>3, Zenon
<1>5. Frame(next)
  BY <1>2, <1>4 DEF Frame
<1> HIDE DEF next
<1>6. Frames(new)
  BY <1>3, <1>5, OneFrame, NoFrames, CharFrames, MoreFrames
<1>7. Paint' = Paint /\ shape' = shape /\ Frames(todo')
  BY <1>1, <1>6, StepsLeaveFrames
<1>8. QED
  BY <1>1, <1>7 DEF Marks, Canvas

LEMMA ChineseStepKeeps ==
    ASSUME Made, Marks, Frames(todo), todo # <<>>, ChineseStep
    PROVE  Marks' /\ Frames(todo') /\ Paint' = Paint /\ shape' = shape
<1> DEFINE byte == f.text[f.at]
           ascii == byte \in {"ascii", "Ascii"}
           x1 == f.x + IF ascii THEN f.font.ASCII_Width ELSE f.font.Width
           at1 == f.at + Stride(byte)
           next == [f EXCEPT !.at = at1, !.x = x1]
           glyph == IF byte \in {"ascii", "lead"}
                    THEN Glyph(U16(f.x), U16(f.y), f.font, 0, CH_CN - 1, FALSE) ELSE <<>>
           new == IF f.at > Len(f.text) THEN <<>> ELSE glyph \o <<next>>
<1>1. f.op = "cn" /\ UNCHANGED <<drawn, lost, strays>> /\ Steps(new)
  BY Zenon DEF ChineseStep
<1>2. /\ f \in [op : {"cn"}, x : Int, y : Int, text : {f.text}, at : {f.at}, font : {f.font}]
      /\ f.font.Width \in Int /\ f.font.ASCII_Width \in Int
  BY <1>1, FrameInHand DEF Frame
<1>3. x1 \in Int /\ U16(f.x) \in Int /\ U16(f.y) \in Int
  BY <1>2 DEF U16
<1>4. Frames(glyph)
  BY <1>3, GlyphFrames, NoFrames, Zenon
<1> HIDE DEF x1, at1, glyph
<1>5. next \in [op : {"cn"}, x : Int, y : Int, text : {next.text}, at : {next.at}, font : {next.font}]
        /\ next.op = "cn" /\ next.font = f.font
  BY <1>2, <1>3, Zenon
<1>6. Frame(next)
  BY <1>2, <1>5 DEF Frame
<1> HIDE DEF next
<1>7. Frames(new)
  BY <1>4, <1>6, OneFrame, NoFrames, MoreFrames
<1>8. Paint' = Paint /\ shape' = shape /\ Frames(todo')
  BY <1>1, <1>7, StepsLeaveFrames
<1>9. QED
  BY <1>1, <1>8 DEF Marks, Canvas

LEMMA WindowStepKeeps ==
    ASSUME Made, Marks, Frames(todo), todo # <<>>, WindowStep
    PROVE  Marks' /\ Frames(todo') /\ Paint' = Paint /\ shape' = shape
<1> DEFINE dots == {<<x, y>> : x \in f.x .. f.xe - 1, y \in f.y .. f.ye - 1}
<1>1. f.op = "window" /\ Steps(<<>>) /\ SetPixels(dots)
  BY DEF WindowStep
<1>2. f \in [op : {"window"}, x : Nat, y : Nat, xe : Int, ye : Int]
  BY <1>1, FrameInHand DEF Frame
<1>3. dots \subseteq Nat \X Nat
  BY <1>2
<1> HIDE DEF dots
<1>4. Paint' = Paint /\ shape' = shape /\ Frames(todo')
  BY <1>1, NoFrames, StepsLeaveFrames
<1>5. QED
  BY <1>1, <1>3, <1>4, PixelsKeep DEF Marks, Canvas

(* The byte loops: only the wide clearing leaves the image.                *)
LEMMA ClearStepKeeps ==
    ASSUME Made, Marks, Frames(todo), todo # <<>>, ClearStep
    PROVE  Marks' /\ Frames(todo') /\ Paint' = Paint /\ shape' = shape
<1> DEFINE wide == f.op = "clear" /\ Paint.Scale = 65
           addresses == {(IF wide THEN 2 * x + 1 ELSE x) + y * Paint.WidthByte :
                           x \in 0 .. Paint.WidthByte - 1, y \in ByteRows}
           stray == {IF wide THEN "wide" ELSE "inside" : a \in addresses \ (0 .. Bytes - 1)}
<1>1. Steps(<<>>) /\ UNCHANGED <<drawn, lost>> /\ strays' = strays \cup stray
  BY DEF ClearStep
<1>2. stray \subseteq {"wide"}
  <2>1. CASE wide
    BY <2>1
  <2>2. CASE ~wide
    <3>1. Paint.WidthByte \in Nat /\ Paint.HeightByte \in Nat
      BY DEF Made
    <3>2. \A x \in 0 .. Paint.WidthByte - 1, y \in ByteRows : x + y * Paint.WidthByte \in 0 .. Bytes - 1
      BY <3>1, Address, Zenon DEF ByteRows, Bytes
    <3>3. addresses \ (0 .. Bytes - 1) = {}
      BY <2>2, <3>2
    <3>4. QED
      BY <3>3
  <2>3. QED
    BY <2>1, <2>2
<1> HIDE DEF stray
<1>3. Paint' = Paint /\ shape' = shape /\ Frames(todo')
  BY <1>1, NoFrames, StepsLeaveFrames
<1>4. QED
  BY <1>1, <1>2, <1>3 DEF Marks, Canvas

-----------------------------------------------------------------------------
LEMMA Images ==
    ASSUME NEW s \in Sizes, NEW r \in ROTATES, Paint' = Paint_NewImage(s[1], s[2], r)
    PROVE  Made'
<1>1. /\ s[1] \in Nat \ {0} /\ s[2] \in Nat \ {0} /\ s[1] < 32768 /\ s[2] < 32768
      /\ s = <<s[1], s[2]>>
  BY PaintAssumption
<1>2. 2 \in SCALES /\ "none" \in MIRRORS
  BY DEF SCALES, MIRRORS
<1>3. WidthBytes(s[1], 2) \in Nat
  BY <1>1, <1>2, RowSize
<1>4. QED
  BY <1>1, <1>2, <1>3 DEF Made, Paint_NewImage

LEMMA StartHolds ==
    ASSUME PaintInit
    PROVE  PaintInv
<1>1. PICK s \in Sizes : Paint = Paint_NewImage(s[1], s[2], 0)
  BY DEF PaintInit
<1>2. /\ s[1] \in Nat \ {0} /\ s[2] \in Nat \ {0} /\ s[1] < 32768 /\ s[2] < 32768
      /\ s = <<s[1], s[2]>>
  BY PaintAssumption
<1>3. 2 \in SCALES /\ "none" \in MIRRORS /\ 0 \in ROTATES
  BY DEF SCALES, MIRRORS, ROTATES
<1>4. WidthBytes(s[1], 2) \in Nat
  BY <1>2, <1>3, RowSize
<1>5. Made
  BY <1>1, <1>2, <1>3, <1>4 DEF Made, Paint_NewImage
<1>6. QED
  BY <1>5, NoFrames, Zenon DEF PaintInit, PaintInv, Marks

LEMMA Repacked ==
    ASSUME NEW Sides, NEW Ways, NEW Flips, NEW Scales,
           NEW p \in [WidthByte : Nat, HeightByte : Nat, WidthMemory : Sides, HeightMemory : Sides,
                      Rotate : Ways, Mirror : Flips, Scale : Scales, Width : Sides, Height : Sides],
           NEW s \in Scales, NEW w \in Nat
    PROVE  [p EXCEPT !.Scale = s, !.WidthByte = w]
             \in [WidthByte : Nat, HeightByte : Nat, WidthMemory : Sides, HeightMemory : Sides,
                  Rotate : Ways, Mirror : Flips, Scale : Scales, Width : Sides, Height : Sides]
  BY Zenon

LEMMA SettingsKeep ==
    ASSUME PaintInv, Resting, NewImage \/ SetRotate \/ SetScale \/ SetMirroring
    PROVE  PaintInv'
<1>1. Made /\ todo = <<>> /\ drawn = {} /\ shape = NoShape
  BY DEF PaintInv, Resting
<1>2. UNCHANGED <<todo, shape, drawn, lost, strays>>
  BY Zenon DEF NewImage, SetRotate, SetScale, SetMirroring, Sets
<1>3. Made'
  <2>1. CASE NewImage
    BY <2>1, Images DEF NewImage, Sets
  <2>2. CASE SetRotate
    BY <1>1, <2>2 DEF SetRotate, Sets, Made
  <2>3. CASE SetScale
    <3>1. PICK s \in SCALES :
             Paint' = [Paint EXCEPT !.Scale = s, !.WidthByte = WidthBytes(Paint.WidthMemory, s)]
      BY <2>3, Zenon DEF SetScale, Sets
    <3>2. WidthBytes(Paint.WidthMemory, s) \in Nat
      BY <1>1, RowSize DEF Made
    <3> DEFINE w == WidthBytes(Paint.WidthMemory, s)
    <3>3. w \in Nat /\ s \in SCALES /\ Paint' = [Paint EXCEPT !.Scale = s, !.WidthByte = w]
      BY <3>1, <3>2
    <3> HIDE DEF w
    <3>4. Paint' \in [WidthByte : Nat, HeightByte : Nat, WidthMemory : Nat \ {0},
                      HeightMemory : Nat \ {0}, Rotate : ROTATES, Mirror : MIRRORS,
                      Scale : SCALES, Width : Nat \ {0}, Height : Nat \ {0}]
      <4>1. Paint \in [WidthByte : Nat, HeightByte : Nat, WidthMemory : Nat \ {0},
                       HeightMemory : Nat \ {0}, Rotate : ROTATES, Mirror : MIRRORS,
                       Scale : SCALES, Width : Nat \ {0}, Height : Nat \ {0}]
        BY <1>1 DEF Made
      <4>2. QED
        BY <3>3, <4>1, Repacked, Zenon
    <3>5. /\ Paint'.WidthByte = w /\ Paint'.Scale = s /\ Paint'.WidthMemory = Paint.WidthMemory
          /\ Paint'.HeightByte = Paint.HeightByte /\ Paint'.HeightMemory = Paint.HeightMemory
          /\ Paint'.Width = Paint.Width /\ Paint'.Height = Paint.Height
      BY <1>1, <3>3 DEF Made
    <3>6. Paint'.WidthByte = WidthBytes(Paint'.WidthMemory, Paint'.Scale)
      BY <3>5 DEF w
    <3>7. QED
      BY <1>1, <3>4, <3>5, <3>6 DEF Made
  <2>4. CASE SetMirroring
    BY <1>1, <2>4 DEF SetMirroring, Sets, Made
  <2>5. QED
    BY <2>1, <2>2, <2>3, <2>4
<1>4. Marks'
  BY <1>1, <1>2 DEF PaintInv, Marks
<1>5. Frames(todo')
  BY <1>1, <1>2, NoFrames
<1>6. QED
  BY <1>1, <1>2, <1>3, <1>4, <1>5 DEF PaintInv

LEMMA CallKeeps ==
    ASSUME PaintInv, NEW s, NEW frames, s # NoShape, Frames(frames), Calls(s, frames)
    PROVE  PaintInv'
<1>1. todo' = frames /\ shape' = s /\ UNCHANGED <<Paint, drawn, lost, strays>>
  BY DEF Calls
<1>2. QED
  BY <1>1 DEF PaintInv, Made, Marks, Canvas

LEMMA PointsAreOnPlane ==
    ASSUME Made, NEW q \in Points
    PROVE  q[1] \in Int /\ q[2] \in Int
  BY PaintAssumption DEF Points, Made

LEMMA CallsKeep ==
    ASSUME PaintInv, Resting,
           DrawsPoint \/ DrawsLine \/ DrawsRectangle \/ DrawsCircle \/ Clears \/ Writes
    PROVE  PaintInv'
<1>1. Made /\ Marks /\ todo = <<>>
  BY DEF PaintInv, Resting
<1>2. DotSizes \subseteq Int /\ Radii \subseteq Int
  BY PaintAssumption
<1>3. \A q \in Corners : q[1] \in Nat /\ q[2] \in Nat
  BY PaintAssumption
<1>4. CASE DrawsPoint
  <2>1. PICK q \in Points, n \in DotSizes, dots \in {"around", "rightup"} :
           /\ shape' = [call |-> "point", x |-> q[1], y |-> q[2], size |-> n]
           /\ SetPixels(DrawPoint(q[1], q[2], n, dots))
    BY <1>4 DEF DrawsPoint
  <2>2. DrawPoint(q[1], q[2], n, dots) \subseteq Nat \X Nat
    BY <1>1, <1>2, PointsAreOnPlane, PointIsOnPlane
  <2>3. UNCHANGED <<Paint, todo>>
    BY <1>4 DEF DrawsPoint
  <2>4. Marks'
    BY <1>1, <2>1, <2>2, <2>3, PixelsKeep DEF Marks, Canvas
  <2>5. shape' # NoShape
    BY <2>1 DEF NoShape
  <2>6. QED
    BY <1>1, <2>3, <2>4, <2>5 DEF PaintInv, Made
<1>5. CASE DrawsLine
  <2>1. PICK q \in Points, e \in Points, n \in DotSizes :
           Calls([call |-> "line", x |-> q[1], y |-> q[2], xe |-> e[1], ye |-> e[2], size |-> n],
                 DrawLine(q[1], q[2], e[1], e[2], n))
    BY <1>5 DEF DrawsLine
  <2>2. Frames(DrawLine(q[1], q[2], e[1], e[2], n))
    BY <1>1, <1>2, PointsAreOnPlane, LineFrames
  <2> DEFINE s == [call |-> "line", x |-> q[1], y |-> q[2], xe |-> e[1], ye |-> e[2], size |-> n]
  <2>3. s # NoShape
    BY DEF NoShape
  <2> HIDE DEF s
  <2>4. QED
    BY <2>1, <2>2, <2>3, CallKeeps DEF s
<1>6. CASE DrawsRectangle
  <2>1. PICK q \in Corners, e \in Corners, n \in DotSizes, fill \in BOOLEAN :
           Calls([call |-> "rectangle", x |-> q[1], y |-> q[2], xe |-> e[1], ye |-> e[2],
                  size |-> n, fill |-> fill], DrawRectangle(q[1], q[2], e[1], e[2], n, fill))
    BY <1>6 DEF DrawsRectangle
  <2>2. Frames(DrawRectangle(q[1], q[2], e[1], e[2], n, fill))
    BY <1>2, <1>3, RectangleFrames
  <2> DEFINE s == [call |-> "rectangle", x |-> q[1], y |-> q[2], xe |-> e[1], ye |-> e[2],
                   size |-> n, fill |-> fill]
  <2>3. s # NoShape
    BY DEF NoShape
  <2> HIDE DEF s
  <2>4. QED
    BY <2>1, <2>2, <2>3, CallKeeps DEF s
<1>7. CASE DrawsCircle
  <2>1. PICK q \in Points, r \in Radii, n \in DotSizes, fill \in BOOLEAN :
           Calls([call |-> "circle", x |-> q[1], y |-> q[2], r |-> r, size |-> n, fill |-> fill],
                 DrawCircle(q[1], q[2], r, n, fill))
    BY <1>7 DEF DrawsCircle
  <2>2. Frames(DrawCircle(q[1], q[2], r, n, fill))
    BY <1>1, <1>2, PointsAreOnPlane, CircleFrames
  <2> DEFINE s == [call |-> "circle", x |-> q[1], y |-> q[2], r |-> r, size |-> n, fill |-> fill]
  <2>3. s # NoShape
    BY DEF NoShape
  <2> HIDE DEF s
  <2>4. QED
    BY <2>1, <2>2, <2>3, CallKeeps DEF s
<1>8. CASE Clears
  <2>1. ASSUME NEW op \in {"clear", "bitmap", "block"}, Calls([call |-> op], <<[op |-> op]>>)
        PROVE  PaintInv'
    <3> DEFINE s == [call |-> op]  g == [op |-> op]
    <3>1. s # NoShape
      BY DEF NoShape
    <3>2. Frame(g)
      BY DEF Frame
    <3> HIDE DEF s, g
    <3>3. Frames(<<g>>)
      BY <3>2, OneFrame
    <3>4. QED
      BY <2>1, <3>1, <3>3, CallKeeps DEF s, g
  <2>2. ASSUME NEW q \in Corners, NEW e \in Corners,
               Calls([call |-> "window"], <<[op |-> "window", x |-> q[1], y |-> q[2],
                                             xe |-> e[1], ye |-> e[2]]>>)
        PROVE  PaintInv'
    <3> DEFINE s == [call |-> "window"]
               g == [op |-> "window", x |-> q[1], y |-> q[2], xe |-> e[1], ye |-> e[2]]
    <3>1. s # NoShape
      BY DEF NoShape
    <3>2. Frame(g)
      BY <1>3 DEF Frame
    <3> HIDE DEF s, g
    <3>3. Frames(<<g>>)
      BY <3>2, OneFrame
    <3>4. QED
      BY <2>2, <3>1, <3>3, CallKeeps DEF s, g
  <2>3. QED
    BY <1>8, <2>1, <2>2, Zenon DEF Clears
<1>9. CASE Writes
  <2> DEFINE frames(s) ==
        CASE s.call = "string"  -> DrawString_EN(s.x, s.y, s.text, s.font)
          [] s.call = "chinese" -> DrawString_CN(s.x, s.y, s.text, s.font)
          [] s.call = "number"  -> DrawNum(s.x, s.y, s.text[1], s.text[2], s.text[3], s.font)
          [] s.call = "time"    -> DrawTime(s.x, s.y, s.text, s.font)
  <2>1. PICK s \in Scripts : Calls(s, frames(s))
    BY <1>9, Zenon DEF Writes
  <2>2. /\ s.call \in {"string", "chinese", "number", "time"}
        /\ s.x \in Int /\ s.y \in Int /\ s.font.Width \in Nat /\ s.font.Height \in Nat
        /\ s.call = "chinese" => s.font.ASCII_Width \in Nat
    <3>1. /\ s.call \in {"string", "chinese", "number", "time"} /\ s.x \in Nat /\ s.y \in Nat
          /\ s.font \in (IF s.call = "chinese" THEN CFonts ELSE SFonts)
      BY Written
    <3>2. \A font \in SFonts : font.Width \in Nat /\ font.Height \in Nat
      BY FontSizes
    <3>3. \A font \in CFonts :
             font.Width \in Nat /\ font.Height \in Nat /\ font.ASCII_Width \in Nat
      BY ChineseSizes
    <3>4. QED
      BY <3>1, <3>2, <3>3
  <2>3. s # NoShape
    BY <2>2 DEF NoShape
  <2>4. ASSUME s.call = "string"
        PROVE  Frames(frames(s))
    <3>1. frames(s) = DrawString_EN(s.x, s.y, s.text, s.font)
      <4>1. s.call # "chinese" /\ s.call # "number" /\ s.call # "time"
        BY <2>4
      <4>2. QED
        BY <2>4, <4>1, Zenon
    <3>2. QED
      BY <2>2, <3>1, StringFrames
  <2>5. ASSUME s.call = "chinese"
        PROVE  Frames(frames(s))
    <3>1. frames(s) = DrawString_CN(s.x, s.y, s.text, s.font)
      <4>1. s.call # "string" /\ s.call # "number" /\ s.call # "time"
        BY <2>5
      <4>2. QED
        BY <2>5, <4>1, Zenon
    <3>2. QED
      BY <2>2, <2>5, <3>1, ChineseFrames
  <2>6. ASSUME s.call = "number"
        PROVE  Frames(frames(s))
    <3>1. frames(s) = DrawNum(s.x, s.y, s.text[1], s.text[2], s.text[3], s.font)
      <4>1. s.call # "string" /\ s.call # "chinese" /\ s.call # "time"
        BY <2>6
      <4>2. QED
        BY <2>6, <4>1, Zenon
    <3>2. QED
      BY <2>2, <3>1, StringFrames DEF DrawNum
  <2>7. ASSUME s.call = "time"
        PROVE  Frames(frames(s))
    <3>1. frames(s) = DrawTime(s.x, s.y, s.text, s.font)
      <4>1. s.call # "string" /\ s.call # "chinese" /\ s.call # "number"
        BY <2>7
      <4>2. QED
        BY <2>7, <4>1, Zenon
    <3>2. QED
      BY <2>2, <3>1, TimeFrames
  <2> HIDE DEF frames
  <2>8. Frames(frames(s))
    BY <2>2, <2>4, <2>5, <2>6, <2>7
  <2>9. QED
    BY <2>1, <2>3, <2>8, CallKeeps
<1>10. QED
  BY <1>4, <1>5, <1>6, <1>7, <1>8, <1>9

LEMMA PaintStep ==
    ASSUME PaintInv, [PaintNext]_paintvars
    PROVE  PaintInv'
<1>1. CASE UNCHANGED paintvars
  BY <1>1 DEF paintvars, PaintInv, Made, Marks, Canvas
<1>2. CASE Draws
  <2>1. Made /\ Marks /\ Frames(todo) /\ todo # <<>> /\ shape # NoShape
    BY <1>2 DEF Draws, PaintInv
  <2>2. Marks' /\ Frames(todo') /\ Paint' = Paint /\ shape' = shape
    BY <1>2, <2>1, LineStepKeeps, CircleStepKeeps, GlyphStepKeeps, StringStepKeeps,
       ChineseStepKeeps, WindowStepKeeps, ClearStepKeeps DEF Draws
  <2>3. QED
    BY <2>1, <2>2 DEF PaintInv, Made
<1>3. CASE Returns
  <2>1. /\ UNCHANGED <<Paint, todo>> /\ todo = <<>> /\ drawn' = {} /\ lost' = FALSE
        /\ strays' = {} /\ Made /\ Frames(todo)
    BY <1>3 DEF Returns, PaintInv
  <2>2. Made' /\ Frames(todo')
    BY <2>1 DEF Made
  <2>3. Marks'
    BY <2>1, Zenon DEF Marks
  <2>4. QED
    BY <2>1, <2>2, <2>3 DEF PaintInv
<1>4. QED
  BY <1>1, <1>2, <1>3, SettingsKeep, CallsKeep DEF PaintNext

LEMMA PaintInvHolds == PaintSpec => []PaintInv
<1>1. PaintInit => PaintInv
  BY StartHolds
<1>2. PaintInv /\ [PaintNext]_paintvars => PaintInv'
  BY PaintStep
<1>3. QED
  BY <1>1, <1>2, PTL DEF PaintSpec

(* However an image is turned, mirrored and packed, its pixels have bits   *)
(* of their own, all of them in the image; and what is drawn leaves the    *)
(* image only for the reasons that are known, whatever is drawn.           *)
THEOREM PixelsKeepApart == PaintSpec => []PixelsStayApart
<1>1. PaintInv => PixelsStayApart
  <2>1. SUFFICES ASSUME PaintInv PROVE PixelsStayApart
    OBVIOUS
  <2>2. PaintTypeOK
    BY <2>1 DEF PaintInv, Made, Marks, Canvas, PaintTypeOK
  <2>3. StraysAreKnown
    BY <2>1 DEF PaintInv, Marks, StraysAreKnown
  <2>4. PixelsHaveTheirOwnBits
    BY <2>1, BitsAreCounted DEF PaintInv
  <2>5. QED
    BY <2>2, <2>3, <2>4 DEF PixelsStayApart
<1>2. QED
  BY <1>1, PaintInvHolds, PTL
-----------------------------------------------------------------------------
(* Drawing.  What is known of every call: nothing is drawn between the     *)
(* calls, and what is written is a script, on an upright image.            *)
IsText(s) == s.call \in {"string", "chinese", "number", "time"}
Settled ==
    /\ shape = NoShape => ~lost
    /\ IsText(shape) => shape \in Scripts /\ Upright

(* A line under way: its frame counts the moves it made, a to the side and *)
(* b up or down; every dot is near, and there is one for every move along  *)
(* the longer side.                                                        *)
LineCall == /\ shape.call = "line" /\ shape.size = 1 /\ Fitting
            /\ {shape.x, shape.xe} \subseteq 1 .. Paint.Width
            /\ {shape.y, shape.ye} \subseteq 1 .. Paint.Height
Far  == Dist(shape.x, shape.xe)
High == Dist(shape.y, shape.ye)
Near(q) == 2 * Dist((shape.xe - shape.x) * (q[2] + 1 - shape.y),
                    (shape.ye - shape.y) * (q[1] + 1 - shape.x)) <= 3 * Upper(Far, High)
LineGoing(g, a, b) ==
    /\ g.op = "line" /\ g.size = 1 /\ g.xe = shape.xe /\ g.ye = shape.ye
    /\ g.dx = Far /\ g.dy = -High
    /\ g.XAddway = (IF shape.x < shape.xe THEN 1 ELSE -1) /\ g.x = shape.x + g.XAddway * a
    /\ g.YAddway = (IF shape.y < shape.ye THEN 1 ELSE -1) /\ g.y = shape.y + g.YAddway * b
    /\ g.Esp = Far - High - a * High + b * Far
    /\ 2 * g.Esp <= 3 * Far
    /\ Far >= High => 2 * g.Esp >= -High
    /\ Far < High => 2 * g.Esp >= 2 * Far - 3 * High
    /\ IsFiniteSet(drawn) /\ Cardinality(drawn) = (IF Far >= High THEN a ELSE b)
    /\ \A q \in drawn :
          /\ Near(q)
          /\ IF Far >= High THEN Dist(q[1] + 1, shape.x) < a ELSE Dist(q[2] + 1, shape.y) < b
    /\ a + b > 0 => <<shape.x - 1, shape.y - 1>> \in drawn
LineInv ==
    LineCall => \/ todo = <<>> /\ LineIsNear
                \/ todo = <<f>> /\ \E a \in 0 .. Far, b \in 0 .. High : LineGoing(f, a, b)

(* A circle under way: the next dot is within half a dot of the circle.    *)
CircleCall ==
    /\ shape.call = "circle" /\ shape.size = 1 /\ shape.r < 8192
    /\ shape.x > shape.r /\ shape.y > shape.r
    /\ shape.x + shape.r <= Paint.Width /\ shape.y + shape.r < Paint.Height
Sq(n) == n * n
Apart2(q) == Sq(q[1] + 1 - shape.x) + Sq(q[2] + 1 - shape.y)
CircleErr(r, xc, yc, Esp) ==
    LET d == Sq(xc) + Sq(yc) - Sq(r)
    IN  /\ xc \in Nat /\ yc \in -1 .. r /\ xc <= yc + 2 /\ (yc = -1 => xc >= 1)
        /\ d >= -yc
        /\ xc <= yc => d <= yc /\ Esp = 2 * d + 4 * xc - 2 * yc + 3
CircleDots(n) ==
    LET r == shape.r
    IN  /\ \A q \in drawn : /\ Apart2(q) <= r * r + r
                            /\ ~shape.fill => Apart2(q) >= r * r - r
        /\ shape.fill => \A u, v \in -r .. r :
              (Sq(u) + Sq(v) <= r * r - r) /\ (Upper(u, -u) < n \/ Upper(v, -v) < n)
                => <<shape.x + u - 1, shape.y + v - 1>> \in drawn
CircleGoing(g) ==
    /\ shape.r \in Nat /\ shape.x \in Nat /\ shape.y \in Nat /\ shape.fill \in BOOLEAN
    /\ g.op = "circle" /\ g.x = shape.x /\ g.y = shape.y /\ g.size = 1 /\ g.fill = shape.fill
    /\ CircleErr(shape.r, g.xc, g.yc, g.Esp) /\ CircleDots(g.xc)
CircleInv ==
    CircleCall => \/ lost
                  \/ todo = <<>> /\ CircleIsRound
                  \/ todo = <<f>> /\ CircleGoing(f)

(* The glyphs and texts still to draw.                                     *)
InTable(g) ==
    /\ g.op = "glyph" =>
          /\ g.font \in SFonts \cup CFonts /\ g.row \in 0 .. g.font.Height - 1 /\ g.first \in Int
          /\ g.ptr = g.first + g.row * RowOf(g.font)
          /\ g.last \in Int /\ g.first + g.font.Height * RowBytes(g.font) - 1 <= g.last
          /\ g.turned => 0 <= g.first /\ g.last < g.font.table
    /\ g.op = "string" => g.font \in SFonts /\ g.text \in Seq(32 .. 126)
    /\ g.op = "cn" => /\ g.font \in CFonts /\ Complete(g.text) /\ g.at \in 1 .. Len(g.text) + 1
                      /\ g.at <= Len(g.text) => g.text[g.at] # "t"
GlyphInv == \A i \in DOMAIN todo : InTable(todo[i])

(* A number is there as a whole until its first glyph is drawn.            *)
NumberInv ==
    (shape.call = "number" /\ drawn = {} /\ todo # <<>>) =>
        /\ f.x \in 0 .. Paint.Width /\ f.y \in 0 .. Paint.Height
        /\ \/ f.op = "glyph" /\ f.row = 0 /\ f.turned = TRUE /\ f.font \in SFonts
           \/ /\ todo = <<f>> /\ f.op = "string" /\ f.font \in SFonts
              /\ f.x0 = f.x /\ f.y0 = f.y
              /\ f.text = NumText(shape.text[1], shape.text[2], shape.text[3])

(* A string that fits keeps to its column and to the image.                *)
TextCall == /\ shape.call = "string" /\ shape.x + shape.font.Height <= Paint.Width
            /\ shape.y + shape.font.Height <= Paint.Height
InColumn(g) ==
    /\ g.op \in {"glyph", "string"} /\ g.font = shape.font /\ g.x = shape.x /\ g.y \in Nat
    /\ g.op = "glyph" => /\ g.turned = TRUE /\ g.row \in 0 .. g.font.Height - 1
                         /\ g.y + g.font.Height <= Paint.Height
    /\ g.op = "string" => g.x0 = shape.x /\ g.y0 = shape.y
TextInv == TextCall => ~lost /\ \A i \in DOMAIN todo : InColumn(todo[i])

DrawInv == PaintInv /\ Settled /\ LineInv /\ CircleInv /\ GlyphInv /\ NumberInv /\ TextInv
-----------------------------------------------------------------------------
(* The frames left after a step are those it leaves and those that waited. *)
LEMMA StepElements ==
    ASSUME Frames(todo), todo # <<>>, NEW s, s \in Seq({s[j] : j \in DOMAIN s}), Steps(s),
           NEW i \in DOMAIN todo'
    PROVE  \/ \E j \in DOMAIN s : todo'[i] = s[j]
           \/ \E j \in DOMAIN todo : todo'[i] = todo[j]
<1> DEFINE A == {s[j] : j \in DOMAIN s}  B == {todo[j] : j \in DOMAIN todo}
           t == Tail(todo)
<1>1. s \in Seq(A) /\ todo \in Seq(B)
  BY DEF Frames
<1> HIDE DEF A, B
<1>2. /\ Len(s) \in Nat /\ DOMAIN s = 1 .. Len(s)
      /\ Len(todo) \in Nat /\ DOMAIN todo = 1 .. Len(todo)
  BY <1>1, LenProperties
<1>3. /\ t \in Seq(B) /\ Len(t) = Len(todo) - 1
      /\ \A j \in 1 .. Len(t) : t[j] = todo[j + 1]
  BY <1>1, HeadTailProperties
<1>4. todo' = s \o t
  BY DEF Steps
<1> HIDE DEF t
<1>5. s \in Seq(A \cup B) /\ t \in Seq(A \cup B)
  BY <1>1, <1>3, SeqMonotonic
<1>6. /\ todo' \in Seq(A \cup B) /\ Len(todo') = Len(s) + Len(t)
      /\ \A j \in 1 .. Len(s) + Len(t) : todo'[j] = IF j <= Len(s) THEN s[j] ELSE t[j - Len(s)]
  BY <1>4, <1>5, ConcatProperties
<1>7. i \in 1 .. Len(s) + Len(t)
  BY <1>6, LenProperties
<1>8. CASE i <= Len(s)
  BY <1>2, <1>6, <1>7, <1>8
<1>9. CASE i > Len(s)
  <2> DEFINE k == i - Len(s)
  <2>1. k \in 1 .. Len(t) /\ k + 1 \in 1 .. Len(todo)
    BY <1>2, <1>3, <1>7, <1>9
  <2>2. todo'[i] = t[k]
    BY <1>2, <1>6, <1>7, <1>9
  <2> HIDE DEF k
  <2>3. todo'[i] = todo[k + 1]
    BY <1>3, <2>1, <2>2
  <2>4. QED
    BY <1>2, <2>1, <2>3
<1>10. QED
  BY <1>2, <1>7, <1>8, <1>9

LEMMA ElementsOfBoth ==
    ASSUME NEW s, Frames(s), NEW t, Frames(t), NEW i \in DOMAIN (s \o t)
    PROVE  \/ \E j \in DOMAIN s : (s \o t)[i] = s[j]
           \/ \E j \in DOMAIN t : (s \o t)[i] = t[j]
<1> DEFINE A == {s[j] : j \in DOMAIN s}  B == {t[j] : j \in DOMAIN t}
<1>1. s \in Seq(A) /\ t \in Seq(B)
  BY DEF Frames
<1> HIDE DEF A, B
<1>2. /\ Len(s) \in Nat /\ DOMAIN s = 1 .. Len(s)
      /\ Len(t) \in Nat /\ DOMAIN t = 1 .. Len(t)
  BY <1>1, LenProperties
<1>3. s \in Seq(A \cup B) /\ t \in Seq(A \cup B)
  BY <1>1, SeqMonotonic
<1>4. /\ s \o t \in Seq(A \cup B) /\ Len(s \o t) = Len(s) + Len(t)
      /\ \A j \in 1 .. Len(s) + Len(t) : (s \o t)[j] = IF j <= Len(s) THEN s[j] ELSE t[j - Len(s)]
  BY <1>3, ConcatProperties
<1>5. i \in 1 .. Len(s) + Len(t)
  BY <1>4, LenProperties
<1>6. QED
  BY <1>2, <1>4, <1>5

LEMMA OnlyFrame ==
    ASSUME NEW g, todo = <<g>>
    PROVE  /\ f = g /\ todo # <<>>
           /\ Steps(<<>>) => todo' = <<>>
           /\ \A h : Steps(<<h>>) => todo' = <<h>> /\ f' = h
<1>1. f = g /\ todo # <<>> /\ Tail(todo) = <<>>
  BY DEF f
<1>2. Steps(<<>>) => todo' = <<>>
  BY <1>1 DEF Steps
<1>3. ASSUME NEW h, Steps(<<h>>)
      PROVE  todo' = <<h>> /\ f' = h
  <2>1. todo' = <<h>>
    BY <1>1, <1>3 DEF Steps
  <2>2. QED
    BY <2>1 DEF f
<1>4. QED
  BY <1>1, <1>2, <1>3

(* A step of a shape: what it is, and that settings and call stay.         *)
LEMMA LostStaysLost ==
    ASSUME NEW points, SetPixels(points)
    PROVE  lost => lost'
  BY Zenon DEF SetPixels

LEMMA DrawsWith ==
    ASSUME Draws
    PROVE  /\ Paint' = Paint /\ shape' = shape /\ (lost => lost')
           /\ f.op = "line" => LineStep
           /\ f.op = "circle" => CircleStep
           /\ f.op = "glyph" => GlyphStep
           /\ f.op = "string" => StringStep
           /\ f.op = "cn" => ChineseStep
           /\ f.op \in {"line", "circle", "glyph", "string", "cn", "window", "clear", "bitmap", "block"}
<1> DEFINE keep == Paint' = Paint /\ shape' = shape /\ (lost => lost')
<1>1. LineStep => keep /\ f.op = "line"
  BY LostStaysLost DEF LineStep, Steps
<1>2. CircleStep => keep /\ f.op = "circle"
  BY LostStaysLost DEF CircleStep, Steps
<1>3. GlyphStep => keep /\ f.op = "glyph"
  BY LostStaysLost DEF GlyphStep, Steps
<1>4. StringStep => keep /\ f.op = "string"
  BY DEF StringStep, Steps
<1>5. ChineseStep => keep /\ f.op = "cn"
  BY DEF ChineseStep, Steps
<1>6. WindowStep => keep /\ f.op = "window"
  BY LostStaysLost DEF WindowStep, Steps
<1>7. ClearStep => keep /\ f.op \in {"clear", "bitmap", "block"}
  BY DEF ClearStep, Steps
<1> HIDE DEF keep
<1>8. keep
  BY <1>1, <1>2, <1>3, <1>4, <1>5, <1>6, <1>7 DEF Draws
<1>9. QED
  BY <1>1, <1>2, <1>3, <1>4, <1>5, <1>6, <1>7, <1>8 DEF Draws, keep

(* What a call begins with.                                                *)
Fresh(s, frames) == shape' = s /\ todo' = frames /\ Paint' = Paint /\ drawn' = {} /\ ~lost'

LEMMA Called ==
    ASSUME PaintInv, Settled, Resting,
           DrawsPoint \/ DrawsLine \/ DrawsRectangle \/ DrawsCircle \/ Clears \/ Writes
    PROVE  \/ shape'.call = "point" /\ todo' = <<>>
           \/ \E q \in Points, e \in Points, n \in DotSizes :
                 Fresh([call |-> "line", x |-> q[1], y |-> q[2], xe |-> e[1], ye |-> e[2],
                        size |-> n], DrawLine(q[1], q[2], e[1], e[2], n))
           \/ \E q \in Corners, e \in Corners, n \in DotSizes, fill \in BOOLEAN :
                 /\ shape'.call = "rectangle"
                 /\ todo' = DrawRectangle(q[1], q[2], e[1], e[2], n, fill)
           \/ \E q \in Points, r \in Radii, n \in DotSizes, fill \in BOOLEAN :
                 Fresh([call |-> "circle", x |-> q[1], y |-> q[2], r |-> r, size |-> n,
                        fill |-> fill], DrawCircle(q[1], q[2], r, n, fill))
           \/ /\ shape'.call \in {"clear", "bitmap", "block", "window"}
              /\ \E g : todo' = <<g>> /\ g.op = shape'.call
           \/ \E s \in Scripts :
                 /\ Upright /\ Fresh(s, todo')
                 /\ s.call = "string" => todo' = DrawString_EN(s.x, s.y, s.text, s.font)
                 /\ s.call = "chinese" => todo' = DrawString_CN(s.x, s.y, s.text, s.font)
                 /\ s.call = "number" =>
                      todo' = DrawNum(s.x, s.y, s.text[1], s.text[2], s.text[3], s.font)
                 /\ s.call = "time" => todo' = DrawTime(s.x, s.y, s.text, s.font)
<1>1. todo = <<>> /\ drawn = {} /\ ~lost
  BY DEF PaintInv, Settled, Resting
<1>2. \A s, frames : Calls(s, frames) => Fresh(s, frames)
  BY <1>1 DEF Calls, Fresh
<1>3. CASE DrawsPoint
  BY <1>1, <1>3 DEF DrawsPoint
<1>4. CASE DrawsLine
  BY <1>2, <1>4 DEF DrawsLine
<1>5. CASE DrawsRectangle
  <2>1. PICK q \in Corners, e \in Corners, n \in DotSizes, fill \in BOOLEAN :
           Calls([call |-> "rectangle", x |-> q[1], y |-> q[2], xe |-> e[1], ye |-> e[2],
                  size |-> n, fill |-> fill], DrawRectangle(q[1], q[2], e[1], e[2], n, fill))
    BY <1>5 DEF DrawsRectangle
  <2>2. shape'.call = "rectangle" /\ todo' = DrawRectangle(q[1], q[2], e[1], e[2], n, fill)
    BY <2>1 DEF Calls
  <2>3. QED
    BY <2>2
<1>6. CASE DrawsCircle
  BY <1>2, <1>6 DEF DrawsCircle
<1>7. CASE Clears
  <2>1. ASSUME NEW op \in {"clear", "bitmap", "block"}, Calls([call |-> op], <<[op |-> op]>>)
        PROVE  /\ shape'.call \in {"clear", "bitmap", "block", "window"}
               /\ \E g : todo' = <<g>> /\ g.op = shape'.call
    <3>1. shape'.call = op /\ todo' = <<[op |-> op]>>
      BY <2>1 DEF Calls
    <3>2. QED
      BY <3>1
  <2>2. ASSUME NEW q \in Corners, NEW e \in Corners,
               Calls([call |-> "window"], <<[op |-> "window", x |-> q[1], y |-> q[2],
                                             xe |-> e[1], ye |-> e[2]]>>)
        PROVE  /\ shape'.call \in {"clear", "bitmap", "block", "window"}
               /\ \E g : todo' = <<g>> /\ g.op = shape'.call
    <3>1. /\ shape'.call = "window"
          /\ todo' = <<[op |-> "window", x |-> q[1], y |-> q[2], xe |-> e[1], ye |-> e[2]]>>
      BY <2>2 DEF Calls
    <3>2. QED
      BY <3>1
  <2>3. QED
    BY <1>7, <2>1, <2>2, Zenon DEF Clears
<1>8. CASE Writes
  <2> DEFINE frames(s) ==
        CASE s.call = "string"  -> DrawString_EN(s.x, s.y, s.text, s.font)
          [] s.call = "chinese" -> DrawString_CN(s.x, s.y, s.text, s.font)
          [] s.call = "number"  -> DrawNum(s.x, s.y, s.text[1], s.text[2], s.text[3], s.font)
          [] s.call = "time"    -> DrawTime(s.x, s.y, s.text, s.font)
  <2>1. PICK s \in Scripts : Upright /\ Calls(s, frames(s))
    BY <1>8, Zenon DEF Writes
  <2>2. /\ s.call = "string" => s.call # "chinese" /\ s.call # "number" /\ s.call # "time"
        /\ s.call = "chinese" => s.call # "string" /\ s.call # "number" /\ s.call # "time"
        /\ s.call = "number" => s.call # "string" /\ s.call # "chinese" /\ s.call # "time"
        /\ s.call = "time" => s.call # "string" /\ s.call # "chinese" /\ s.call # "number"
    OBVIOUS
  <2>3. s.call = "string" => frames(s) = DrawString_EN(s.x, s.y, s.text, s.font)
    BY <2>2, Zenon
  <2>4. s.call = "chinese" => frames(s) = DrawString_CN(s.x, s.y, s.text, s.font)
    BY <2>2, Zenon
  <2>5. s.call = "number" =>
          frames(s) = DrawNum(s.x, s.y, s.text[1], s.text[2], s.text[3], s.font)
    BY <2>2, Zenon
  <2>6. s.call = "time" => frames(s) = DrawTime(s.x, s.y, s.text, s.font)
    BY <2>2, Zenon
  <2> HIDE DEF frames
  <2>7. todo' = frames(s) /\ Fresh(s, todo')
    BY <1>2, <2>1 DEF Fresh
  <2>8. QED
    BY <2>1, <2>3, <2>4, <2>5, <2>6, <2>7, Zenon
<1>9. QED
  BY <1>3, <1>4, <1>5, <1>6, <1>7, <1>8, Zenon

(* Every other step but one of a shape ends with nothing drawn.            *)
LEMMA Otherwise ==
    ASSUME PaintInv, Settled, [PaintNext]_paintvars, ~Draws,
           ~(Resting /\ (DrawsPoint \/ DrawsLine \/ DrawsRectangle \/ DrawsCircle \/ Clears
                           \/ Writes))
    PROVE  UNCHANGED paintvars \/ (shape' = NoShape /\ todo' = <<>> /\ drawn' = {} /\ ~lost')
<1>1. CASE UNCHANGED paintvars
  BY <1>1
<1>2. CASE Resting /\ (NewImage \/ SetRotate \/ SetScale \/ SetMirroring)
  <2>1. UNCHANGED <<todo, shape, drawn, lost, strays>>
    BY <1>2, Zenon DEF NewImage, SetRotate, SetScale, SetMirroring, Sets
  <2>2. QED
    BY <1>2, <2>1 DEF Resting, PaintInv, Settled
<1>3. CASE Returns
  BY <1>3 DEF Returns
<1>4. QED
  BY <1>1, <1>2, <1>3 DEF PaintNext

LEMMA SettledHolds == ASSUME PaintInv, Settled, [PaintNext]_paintvars PROVE Settled'
<1>1. CASE Draws
  <2>1. Paint' = Paint /\ shape' = shape /\ shape # NoShape
    BY <1>1, DrawsWith DEF PaintInv, Draws
  <2>2. QED
    BY <2>1 DEF Settled, Upright, Fitting
<1>2. CASE Resting /\ (DrawsPoint \/ DrawsLine \/ DrawsRectangle \/ DrawsCircle \/ Clears \/ Writes)
  <2>1. shape' # NoShape \/ ~lost'
    BY <1>2, Called DEF NoShape, Fresh
  <2>2. IsText(shape') => shape' \in Scripts /\ Upright /\ Paint' = Paint
    BY <1>2, Called DEF IsText, Fresh
  <2>3. QED
    BY <2>1, <2>2 DEF Settled, Upright, Fitting
<1>3. CASE UNCHANGED paintvars
  BY <1>3 DEF paintvars, Settled, Upright, Fitting
<1>4. CASE shape' = NoShape /\ ~lost'
  BY <1>4 DEF Settled, IsText, NoShape
<1>5. QED
  BY <1>1, <1>2, <1>3, <1>4, Otherwise
-----------------------------------------------------------------------------
(* A line.  The products of its error.                                     *)
LEMMA OneMore == ASSUME NEW a \in Int, NEW b \in Int PROVE (a + 1) * b = a * b + b
  OBVIOUS

LEMMA AtLeast ==
    ASSUME NEW a \in Nat, NEW b \in Nat, NEW k \in Nat, a >= k
    PROVE  a * b >= k * b
  OBVIOUS

LEMMA LineErr ==
    ASSUME NEW D \in Nat, NEW E \in Nat, NEW a \in 0 .. D, NEW b \in 0 .. E,
           NEW Esp \in Int, Esp = D - E - a * E + b * D,
           2 * Esp <= 3 * D, D >= E => 2 * Esp >= -E, D < E => 2 * Esp >= 2 * D - 3 * E
    PROVE  /\ 2 * Dist(D * b, E * a) <= 3 * Upper(D, E)
           /\ D >= E => 2 * Esp >= -E
           /\ D < E /\ 2 * Esp >= -E => 2 * (Esp - E) <= D
           /\ D < E /\ 2 * Esp < -E => 2 * Esp <= D
<1> DEFINE P == a * E  Q == b * D
<1>1. P \in Int /\ Q \in Int /\ E * a = P /\ D * b = Q
  OBVIOUS
<1>2. Esp = D - E - P + Q
  OBVIOUS
<1> HIDE DEF P, Q
<1>3. QED
  BY <1>1, <1>2 DEF Dist, Upper

LEMMA LineStops ==
    ASSUME NEW D \in Nat, NEW E \in Nat, NEW a \in 0 .. D, NEW b \in 0 .. E,
           NEW Esp \in Int, Esp = D - E - a * E + b * D,
           2 * Esp <= 3 * D, D >= E => 2 * Esp >= -E, D < E => 2 * Esp >= 2 * D - 3 * E
    PROVE  /\ 2 * Esp >= -E /\ a = D => b >= E - 1 /\ (D < E => b = E)
           /\ D >= E /\ 2 * (Esp - E) <= D /\ b = E => a >= D - 1
           /\ D < E /\ b = E => a >= D - 1
<1>1. ASSUME 2 * Esp >= -E, a = D
      PROVE  b >= E - 1 /\ (D < E => b = E)
  <2> DEFINE k == E - b
  <2>1. k \in Nat /\ b = E - k
    OBVIOUS
  <2>2. Esp = D - E - k * D
    BY <1>1, <2>1
  <2>3. k >= 2 => k * D >= 2 * D
    <3> HIDE DEF k
    <3>1. QED
     BY <2>1, AtLeast
  <2> DEFINE m == k * D
  <2>4. m \in Int /\ (k = 1 => m = D) /\ (k = 0 => m = 0)
    BY <2>1
  <2> HIDE DEF m
  <2>5. Esp = D - E - m /\ (k >= 2 => m >= 2 * D)
    BY <2>2, <2>3 DEF m
  <2> HIDE DEF k
  <2>6. k <= 1 /\ (D < E => k = 0)
    BY <1>1, <2>1, <2>4, <2>5
  <2>7. QED
    BY <2>1, <2>6
<1>2. ASSUME b = E, a <= D - 2
      PROVE  2 * Esp >= 2 * D + 2 * E
  <2> DEFINE k == D - a
  <2>1. k \in Nat /\ a = D - k /\ k >= 2
    BY <1>2
  <2>2. Esp = D - E + k * E
    BY <1>2, <2>1
  <2> HIDE DEF k
  <2>3. k * E >= 2 * E
    BY <2>1, AtLeast
  <2> DEFINE m == k * E
  <2>4. m \in Int
    BY <2>1
  <2>5. Esp = D - E + m /\ m >= 2 * E
    BY <2>2, <2>3, Zenon
  <2> HIDE DEF m
  <2>6. QED
    BY <2>4, <2>5
<1>3. QED
  <2>1. D >= E /\ 2 * (Esp - E) <= D /\ b = E => a >= D - 1
    BY <1>2
  <2>2. D < E /\ b = E => a >= D - 1
    BY <1>2
  <2>3. QED
    BY <1>1, <2>1, <2>2

(* Dots of one pixel: each is a step up and left of its point, and inside  *)
(* of a fitting image none is lost.                                        *)
LEMMA SingleDot ==
    ASSUME Made, NEW x \in 1 .. Paint.Width, NEW y \in 1 .. Paint.Height
    PROVE  DrawPoint(x, y, 1, "around") = {<<x - 1, y - 1>>}
<1>1. Paint.Width \in Nat /\ Paint.Height \in Nat
  BY DEF Made
<1>2. {<<x + i - 1, y + j - 1>> : i \in {i \in 0 .. 2 * 1 - 2 : x + i >= 1},
                                  j \in {j \in 0 .. 2 * 1 - 2 : y >= 1}} = {<<x - 1, y - 1>>}
  BY <1>1
<1>3. QED
  BY <1>1, <1>2 DEF DrawPoint

LEMMA DotIsDrawn ==
    ASSUME Made, Fitting, NEW x \in 1 .. Paint.Width, NEW y \in 1 .. Paint.Height,
           SetPixels({<<x - 1, y - 1>>})
    PROVE  drawn' = drawn \cup {<<x - 1, y - 1>>}
<1>1. Paint.Width \in Nat /\ Paint.Height \in Nat
  BY DEF Made
<1>2. ~Clipped(x - 1, y - 1)
  <2>1. x - 1 \in 0 .. Paint.Width - 1 /\ y - 1 \in 0 .. Paint.Height - 1
    BY <1>1
  <2>2. QED
    BY <2>1, InsideStaysInside
<1>3. QED
  BY <1>2 DEF SetPixels
-----------------------------------------------------------------------------
(* The line.  Where it is, its distance from the ideal line is what the    *)
(* error says.                                                             *)
LEMMA SignsCancel ==
    ASSUME NEW D \in Nat, NEW E \in Nat, NEW a \in Nat, NEW b \in Nat,
           NEW sx \in {1, -1}, NEW sy \in {1, -1}
    PROVE  Dist((sx * D) * (sy * b), (sy * E) * (sx * a)) = Dist(D * b, E * a)
<1> DEFINE p == D * b  q == E * a
<1>1. p \in Int /\ q \in Int
  OBVIOUS
<1>2. (sx * D) * (sy * b) = sx * sy * p /\ (sy * E) * (sx * a) = sx * sy * q
  <2>1. CASE sx = 1 /\ sy = 1
    BY <2>1
  <2>2. CASE sx = 1 /\ sy = -1
    BY <2>2
  <2>3. CASE sx = -1 /\ sy = 1
    BY <2>3
  <2>4. CASE sx = -1 /\ sy = -1
    BY <2>4
  <2>5. QED
    BY <2>1, <2>2, <2>3, <2>4
<1> HIDE DEF p, q
<1>3. Dist(sx * sy * p, sx * sy * q) = Dist(p, q)
  BY <1>1 DEF Dist, Upper
<1>4. QED
  BY <1>2, <1>3 DEF p, q

(* A step draws a new dot, near, and counts it.                            *)
LEMMA LineDot ==
    ASSUME PaintInv, LineCall, todo = <<f>>, NEW a \in 0 .. Far, NEW b \in 0 .. High,
           LineGoing(f, a, b), LineStep
    PROVE  /\ drawn' = drawn \cup {<<f.x - 1, f.y - 1>>}
           /\ f.x \in Int /\ f.y \in Int
           /\ Dist(f.x, shape.x) = a /\ Dist(f.y, shape.y) = b
           /\ Dist(f.x, shape.xe) = Far - a /\ Dist(f.y, shape.ye) = High - b
           /\ f.x = shape.xe <=> a = Far
           /\ f.y = shape.ye <=> b = High
           /\ IsFiniteSet(drawn')
           /\ Cardinality(drawn') = (IF Far >= High THEN a ELSE b) + 1
           /\ \A q \in drawn' :
                 /\ Near(q)
                 /\ IF Far >= High THEN Dist(q[1] + 1, shape.x) < a + 1
                    ELSE Dist(q[2] + 1, shape.y) < b + 1
           /\ <<shape.x - 1, shape.y - 1>> \in drawn'
<1> DEFINE x0 == shape.x  y0 == shape.y  xe == shape.xe  ye == shape.ye
           p == <<f.x - 1, f.y - 1>>
<1>1. /\ Made /\ Fitting /\ Paint.Width \in Nat /\ Paint.Height \in Nat
      /\ x0 \in 1 .. Paint.Width /\ xe \in 1 .. Paint.Width
      /\ y0 \in 1 .. Paint.Height /\ ye \in 1 .. Paint.Height
  BY DEF PaintInv, Made, LineCall
<1>2. Far \in Nat /\ High \in Nat
  BY <1>1 DEF Far, High, Dist, Upper
<1>3. /\ f.x = x0 + (IF x0 < xe THEN 1 ELSE -1) * a /\ f.y = y0 + (IF y0 < ye THEN 1 ELSE -1) * b
      /\ f.size = 1
  BY DEF LineGoing
<1>4. /\ f.x \in 1 .. Paint.Width /\ Dist(f.x, x0) = a
      /\ Dist(f.x, xe) = Far - a /\ (f.x = xe <=> a = Far)
  <2>1. CASE x0 < xe
    BY <1>1, <1>3, <2>1 DEF Far, Dist, Upper
  <2>2. CASE ~(x0 < xe)
    BY <1>1, <1>3, <2>2 DEF Far, Dist, Upper
  <2>3. QED
    BY <2>1, <2>2
<1>5. /\ f.y \in 1 .. Paint.Height /\ Dist(f.y, y0) = b
      /\ Dist(f.y, ye) = High - b /\ (f.y = ye <=> b = High)
  <2>1. CASE y0 < ye
    BY <1>1, <1>3, <2>1 DEF High, Dist, Upper
  <2>2. CASE ~(y0 < ye)
    BY <1>1, <1>3, <2>2 DEF High, Dist, Upper
  <2>3. QED
    BY <2>1, <2>2
<1>6. drawn' = drawn \cup {p}
  <2>1. SetPixels(DrawPoint(f.x, f.y, f.size, "around"))
    BY DEF LineStep
  <2>2. DrawPoint(f.x, f.y, f.size, "around") = {p}
    BY <1>1, <1>3, <1>4, <1>5, SingleDot
  <2>3. SetPixels({p})
    BY <2>1, <2>2
  <2>4. QED
    BY <1>1, <1>4, <1>5, <2>3, DotIsDrawn
<1>7. p[1] + 1 = f.x /\ p[2] + 1 = f.y
  BY <1>4, <1>5
<1>8. Near(p)
  <2>1. Dist((xe - x0) * (f.y - y0), (ye - y0) * (f.x - x0)) = Dist(Far * b, High * a)
    <3> DEFINE sx == IF x0 < xe THEN 1 ELSE -1  sy == IF y0 < ye THEN 1 ELSE -1
    <3>1. /\ xe - x0 = sx * Far /\ ye - y0 = sy * High
          /\ sx \in {1, -1} /\ sy \in {1, -1}
      BY <1>1 DEF Far, High, Dist, Upper
    <3>2. f.x - x0 = sx * a /\ f.y - y0 = sy * b
      BY <1>1, <1>3
    <3> HIDE DEF sx, sy
    <3>3. Dist((sx * Far) * (sy * b), (sy * High) * (sx * a)) = Dist(Far * b, High * a)
      BY <1>2, <3>1, SignsCancel
    <3>4. QED
      BY <3>1, <3>2, <3>3, Zenon
  <2>2. 2 * Dist(Far * b, High * a) <= 3 * Upper(Far, High)
    <3>1. /\ f.Esp = Far - High - a * High + b * Far /\ 2 * f.Esp <= 3 * Far
          /\ Far >= High => 2 * f.Esp >= -High
          /\ Far < High => 2 * f.Esp >= 2 * Far - 3 * High
      BY DEF LineGoing
    <3>2. f.Esp \in Int
      BY <1>2, <3>1
    <3>3. QED
      BY <1>2, <3>1, <3>2, LineErr, Zenon
  <2>3. p[2] + 1 - y0 = f.y - y0 /\ p[1] + 1 - x0 = f.x - x0
    BY <1>1, <1>4, <1>5
  <2> HIDE DEF p
  <2>4. Near(p) <=> 2 * Dist((xe - x0) * (f.y - y0), (ye - y0) * (f.x - x0)) <= 3 * Upper(Far, High)
    BY <2>3, Zenon DEF Near
  <2>5. QED
    BY <2>1, <2>2, <2>4
<1>9. p \notin drawn
  <2>1. CASE Far >= High
    BY <1>4, <1>7, <2>1 DEF LineGoing
  <2>2. CASE ~(Far >= High)
    BY <1>5, <1>7, <2>2 DEF LineGoing
  <2>3. QED
    BY <2>1, <2>2
<1>10. /\ IsFiniteSet(drawn')
       /\ Cardinality(drawn') = (IF Far >= High THEN a ELSE b) + 1
  <2>1. IsFiniteSet(drawn) /\ Cardinality(drawn) = (IF Far >= High THEN a ELSE b)
    BY DEF LineGoing
  <2>2. QED
    BY <1>6, <1>9, <2>1, FS_AddElement, Zenon
<1>11. ASSUME NEW q \in drawn'
       PROVE  /\ Near(q)
              /\ IF Far >= High THEN Dist(q[1] + 1, x0) < a + 1 ELSE Dist(q[2] + 1, y0) < b + 1
  <2>1. CASE q = p
    BY <1>2, <1>4, <1>5, <1>7, <1>8, <2>1
  <2>2. CASE q \in drawn
    <3>1. q[1] \in Int /\ q[2] \in Int
      BY <1>1, <2>2 DEF PaintInv, Marks, Canvas
    <3>2. Dist(q[1] + 1, x0) \in Int /\ Dist(q[2] + 1, y0) \in Int
      BY <1>1, <3>1 DEF Dist, Upper
    <3>3. /\ Near(q)
          /\ IF Far >= High THEN Dist(q[1] + 1, x0) < a ELSE Dist(q[2] + 1, y0) < b
      BY <2>2 DEF LineGoing
    <3>4. QED
      BY <1>2, <3>2, <3>3
  <2>3. QED
    BY <1>6, <2>1, <2>2
<1>12. <<x0 - 1, y0 - 1>> \in drawn'
  <2>1. CASE a + b > 0
    BY <1>6, <2>1 DEF LineGoing
  <2>2. CASE ~(a + b > 0)
    <3>1. a = 0 /\ b = 0
      BY <1>2, <2>2
    <3>2. f.x = x0 /\ f.y = y0
      BY <1>1, <1>3, <3>1
    <3>3. QED
      BY <1>6, <3>2
  <2>3. QED
    BY <2>1, <2>2
<1>13. QED
  BY <1>4, <1>5, <1>6, <1>10, <1>11, <1>12

(* The error keeps its bounds, and the dots with it.                       *)
LEMMA LineErrGoes ==
    ASSUME NEW D \in Nat, NEW E \in Nat, NEW a \in Nat, NEW b \in Nat, NEW Esp \in Int,
           Esp = D - E - a * E + b * D,
           2 * Esp <= 3 * D, D >= E => 2 * Esp >= -E, D < E => 2 * Esp >= 2 * D - 3 * E,
           NEW e1 \in Int, e1 = Esp + (IF 2 * Esp >= -E THEN -E ELSE 0),
           NEW a2 \in Int, a2 = (IF 2 * Esp >= -E THEN a + 1 ELSE a),
           NEW b2 \in Int, b2 = (IF 2 * e1 <= D THEN b + 1 ELSE b),
           NEW e2 \in Int, e2 = e1 + (IF 2 * e1 <= D THEN D ELSE 0)
    PROVE  /\ e2 = D - E - a2 * E + b2 * D
           /\ 2 * e2 <= 3 * D
           /\ D >= E => 2 * e2 >= -E /\ a2 = a + 1
           /\ D < E => 2 * e2 >= 2 * D - 3 * E /\ b2 = b + 1
<1> DEFINE P == a * E  Q == b * D  P2 == a2 * E  Q2 == b2 * D
<1>1. P \in Int /\ Q \in Int /\ P2 \in Int /\ Q2 \in Int
  OBVIOUS
<1>2. Esp = D - E - P + Q
  OBVIOUS
<1>3. P2 = IF 2 * Esp >= -E THEN P + E ELSE P
  BY OneMore
<1>4. Q2 = IF 2 * e1 <= D THEN Q + D ELSE Q
  BY OneMore
<1> HIDE DEF P, Q, P2, Q2
<1>5. e2 = D - E - P2 + Q2
  BY <1>1, <1>2, <1>3, <1>4
<1>6. /\ 2 * e2 <= 3 * D
      /\ D >= E => 2 * e2 >= -E /\ a2 = a + 1
      /\ D < E => 2 * e2 >= 2 * D - 3 * E /\ b2 = b + 1
  OBVIOUS
<1>7. QED
  BY <1>5, <1>6 DEF P2, Q2

(* The step as a whole: it goes on, or it stops where it may.              *)
LEMMA LineGoesOn ==
    ASSUME PaintInv, LineCall, todo = <<f>>, NEW a \in 0 .. Far, NEW b \in 0 .. High,
           LineGoing(f, a, b), LineStep
    PROVE  \/ todo' = <<>> /\ LineIsNear'
           \/ todo' = <<f'>> /\ \E c \in 0 .. Far, d \in 0 .. High : LineGoing(f, c, d)'
<1> DEFINE D == Far  E == High
           goX == 2 * f.Esp >= f.dy
           e1  == f.Esp + (IF goX THEN f.dy ELSE 0)
           goY == 2 * e1 <= f.dx
           sx  == IF goX THEN f.XAddway ELSE 0
           sy  == IF goY THEN f.YAddway ELSE 0
           e2  == e1 + (IF goY THEN f.dx ELSE 0)
           g   == [f EXCEPT !.x = @ + sx, !.y = @ + sy, !.Esp = e2]
           a2  == IF goX THEN a + 1 ELSE a
           b2  == IF goY THEN b + 1 ELSE b
<1>1. /\ Made /\ Fitting /\ Paint.Width \in Nat /\ Paint.Height \in Nat
      /\ shape.x \in 1 .. Paint.Width /\ shape.xe \in 1 .. Paint.Width
      /\ shape.y \in 1 .. Paint.Height /\ shape.ye \in 1 .. Paint.Height
  BY DEF PaintInv, Made, LineCall
<1>2. D \in Nat /\ E \in Nat /\ Upper(D, E) = (IF D >= E THEN D ELSE E)
  BY <1>1 DEF Far, High, Dist, Upper
<1>3. /\ f.dx = D /\ f.dy = -E /\ f.Esp = D - E - a * E + b * D
      /\ 2 * f.Esp <= 3 * D
      /\ D >= E => 2 * f.Esp >= -E
      /\ D < E => 2 * f.Esp >= 2 * D - 3 * E
  BY DEF LineGoing
<1>4. f.Esp \in Int
  BY <1>2, <1>3
<1>5. Paint' = Paint /\ shape' = shape
  BY DEF LineStep, Steps
<1>6. Steps(IF (goX /\ f.x = f.xe) \/ (goY /\ f.y = f.ye) THEN <<>> ELSE <<g>>)
  BY DEF LineStep
<1>7. /\ f.x \in Int /\ f.y \in Int
      /\ Dist(f.x, shape.x) = a /\ Dist(f.y, shape.y) = b
      /\ Dist(f.x, shape.xe) = D - a /\ Dist(f.y, shape.ye) = E - b
      /\ f.x = f.xe <=> a = D
      /\ f.y = f.ye <=> b = E
  BY LineDot DEF LineGoing
<1>8. /\ drawn' = drawn \cup {<<f.x - 1, f.y - 1>>}
      /\ IsFiniteSet(drawn')
      /\ Cardinality(drawn') = (IF D >= E THEN a ELSE b) + 1
      /\ \A q \in drawn' :
            /\ Near(q)
            /\ IF D >= E THEN Dist(q[1] + 1, shape.x) < a + 1 ELSE Dist(q[2] + 1, shape.y) < b + 1
      /\ <<shape.x - 1, shape.y - 1>> \in drawn'
  BY LineDot
<1>9. e1 \in Int /\ e2 \in Int /\ a2 \in Int /\ b2 \in Int
  BY <1>2, <1>3, <1>4
<1>10. /\ e1 = f.Esp + (IF 2 * f.Esp >= -E THEN -E ELSE 0)
       /\ a2 = (IF 2 * f.Esp >= -E THEN a + 1 ELSE a)
       /\ b2 = (IF 2 * e1 <= D THEN b + 1 ELSE b)
       /\ e2 = e1 + (IF 2 * e1 <= D THEN D ELSE 0)
       /\ goX <=> 2 * f.Esp >= -E
       /\ goY <=> 2 * e1 <= D
  BY <1>3
<1>11. f \in [op : {"line"}, x : Int, y : Int, xe : Int, ye : Int, size : Int,
              dx : Int, dy : Int, Esp : Int, XAddway : {1, -1}, YAddway : {1, -1}]
  <2>1. Frame(f)
    BY FrameInHand DEF PaintInv
  <2>2. QED
    BY <2>1 DEF Frame, LineGoing
<1>12. CASE (goX /\ a = D) \/ (goY /\ b = E)
  <2>1. todo' = <<>>
    BY <1>6, <1>7, <1>12, OnlyFrame
  <2>2. a \in 0 .. D /\ b \in 0 .. E
    OBVIOUS
  <2>3. /\ 2 * f.Esp >= -E /\ a = D => b >= E - 1 /\ (D < E => b = E)
        /\ D >= E /\ 2 * (f.Esp - E) <= D /\ b = E => a >= D - 1
        /\ D < E /\ b = E => a >= D - 1
    <3> HIDE DEF D, E
    <3>1. QED
      BY <1>2, <1>3, <1>4, <2>2, LineStops
  <2>4. a >= D - 1 /\ b >= E - 1 /\ (D < E => b = E) /\ (a = D \/ b = E)
    <3> HIDE DEF D, E, e1, goX, goY
    <3>1. QED
      BY <1>2, <1>3, <1>4, <1>9, <1>10, <1>12, <2>2, <2>3
  <2>5. Cardinality(drawn') \in {Upper(D, E), Upper(D, E) + 1}
    <3> HIDE DEF D, E
    <3>1. QED
      BY <1>2, <1>8, <2>2, <2>4
  <2>6. \E q \in drawn' : Dist(q[1] + 1, shape.xe) <= 1 /\ Dist(q[2] + 1, shape.ye) <= 1
    <3>1. <<f.x - 1, f.y - 1>> \in drawn'
      BY <1>8
    <3>2. f.x - 1 + 1 = f.x /\ f.y - 1 + 1 = f.y
      BY <1>7
    <3>3. D - a <= 1 /\ E - b <= 1
      BY <1>2, <2>2, <2>4
    <3>4. QED
      BY <1>7, <3>1, <3>2, <3>3
  <2>7. \A q \in drawn' : Near(q)
    BY <1>8
  <2>8. LineIsNear'
    BY <1>5, <1>8, <2>5, <2>6, <2>7, Zenon DEF LineIsNear, Near, Far, High
  <2>9. QED
    BY <2>1, <2>8
<1>13. CASE ~((goX /\ a = D) \/ (goY /\ b = E))
  <2>1. todo' = <<g>> /\ f' = g
    BY <1>6, <1>7, <1>13, OnlyFrame
  <2>2. a2 \in 0 .. D /\ b2 \in 0 .. E
    <3>1. a \in 0 .. D /\ b \in 0 .. E
      OBVIOUS
    <3> HIDE DEF D, E, e1, goX, goY
    <3>2. QED
      BY <1>2, <1>13, <3>1
  <2>3. /\ e2 = D - E - a2 * E + b2 * D
        /\ 2 * e2 <= 3 * D
        /\ D >= E => 2 * e2 >= -E /\ a2 = a + 1
        /\ D < E => 2 * e2 >= 2 * D - 3 * E /\ b2 = b + 1
    <3> HIDE DEF D, E, e1, a2, b2, e2, goX, goY
    <3>1. QED
      BY <1>2, <1>3, <1>4, <1>9, <1>10, LineErrGoes
  <2>4. f.x + sx = shape.x + f.XAddway * a2 /\ f.y + sy = shape.y + f.YAddway * b2
    <3>1. f.x = shape.x + f.XAddway * a /\ f.y = shape.y + f.YAddway * b
      BY DEF LineGoing
    <3>2. f.XAddway \in {1, -1} /\ f.YAddway \in {1, -1}
      BY <1>11
    <3> HIDE DEF D, E, e1, goX, goY
    <3>3. QED
      BY <1>1, <1>2, <3>1, <3>2
  <2>5. /\ g.op = "line" /\ g.size = f.size /\ g.xe = f.xe /\ g.ye = f.ye
        /\ g.dx = f.dx /\ g.dy = f.dy /\ g.XAddway = f.XAddway /\ g.YAddway = f.YAddway
        /\ g.x = f.x + sx /\ g.y = f.y + sy /\ g.Esp = e2
    <3> HIDE DEF sx, sy, e2
    <3>1. QED
      BY <1>11
  <2>6. ASSUME NEW c \in Int, NEW d \in Int, c = a2, d = b2
        PROVE  LineGoing(f, c, d)'
    <3> HIDE DEF g, e2, e1, sx, sy, a2, b2, goX, goY
    <3>1. /\ f'.op = "line" /\ f'.size = 1 /\ f'.xe = shape'.xe /\ f'.ye = shape'.ye
          /\ f'.dx = Far' /\ f'.dy = -High'
          /\ f'.XAddway = (IF shape'.x < shape'.xe THEN 1 ELSE -1)
          /\ f'.YAddway = (IF shape'.y < shape'.ye THEN 1 ELSE -1)
      BY <1>5, <2>1, <2>5 DEF LineGoing, Far, High
    <3>2. f'.x = shape'.x + f'.XAddway * c /\ f'.y = shape'.y + f'.YAddway * d
      BY <1>5, <2>1, <2>6, <2>4, <2>5
    <3>3. Far' = D /\ High' = E /\ f'.Esp = e2
      BY <1>5, <2>1, <2>5 DEF Far, High
    <3>4. /\ f'.Esp = Far' - High' - c * High' + d * Far'
          /\ 2 * f'.Esp <= 3 * Far'
          /\ Far' >= High' => 2 * f'.Esp >= -High'
          /\ Far' < High' => 2 * f'.Esp >= 2 * Far' - 3 * High'
      <4> HIDE DEF D, E
      <4>1. QED
        BY <2>3, <2>6, <3>3
    <3>5. Cardinality(drawn') = (IF Far' >= High' THEN c ELSE d)
      <4> HIDE DEF D, E
      <4>1. QED
        BY <1>2, <1>8, <2>3, <2>6, <3>3
    <3>6. \A q \in drawn' :
             /\ Near(q)'
             /\ IF Far' >= High' THEN Dist(q[1] + 1, shape'.x) < c ELSE Dist(q[2] + 1, shape'.y) < d
      <4>1. \A q : Near(q)' <=> Near(q)
        BY <1>5 DEF Near, Far, High
      <4> HIDE DEF D, E
      <4>2. QED
        BY <1>2, <1>5, <1>8, <2>3, <2>6, <3>3, <4>1
    <3>7. <<shape'.x - 1, shape'.y - 1>> \in drawn'
      BY <1>5, <1>8
    <3>8. QED
      BY <1>8, <3>1, <3>2, <3>4, <3>5, <3>6, <3>7 DEF LineGoing
  <2>7. a2 \in Int /\ b2 \in Int
    BY <1>2, <2>2
  <2>8. \E c \in 0 .. D, d \in 0 .. E : LineGoing(f, c, d)'
    BY <2>2, <2>6, <2>7
  <2>9. QED
    BY <2>1, <2>8
<1>14. QED
  BY <1>12, <1>13

(* A line that begins has drawn nothing and is at its beginning.           *)
LEMMA LineBegins ==
    ASSUME PaintInv, NEW x \in Int, NEW y \in Int, NEW xe \in Int, NEW ye \in Int, NEW size \in Int,
           Fresh([call |-> "line", x |-> x, y |-> y, xe |-> xe, ye |-> ye, size |-> size],
                 DrawLine(x, y, xe, ye, size)),
           LineCall'
    PROVE  todo' = <<f'>> /\ \E a \in 0 .. Far', b \in 0 .. High' : LineGoing(f, a, b)'
<1> DEFINE g == Line(x, y, xe, ye, size)
           s == [call |-> "line", x |-> x, y |-> y, xe |-> xe, ye |-> ye, size |-> size]
<1>1. /\ shape' = s /\ Paint' = Paint /\ drawn' = {} /\ todo' = DrawLine(x, y, xe, ye, size)
  BY DEF Fresh
<1>2. s.x = x /\ s.y = y /\ s.xe = xe /\ s.ye = ye /\ s.size = size
  OBVIOUS
<1> HIDE DEF s
<1>3. Paint.Width \in Nat /\ Paint.Height \in Nat
  BY DEF PaintInv, Made
<1>4. /\ size = 1 /\ x \in 1 .. Paint.Width /\ xe \in 1 .. Paint.Width
      /\ y \in 1 .. Paint.Height /\ ye \in 1 .. Paint.Height
  BY <1>1, <1>2 DEF LineCall
<1>5. todo' = <<g>>
  BY <1>1, <1>3, <1>4 DEF DrawLine, Upper
<1>6. f' = g
  BY <1>5 DEF f
<1>7. Far' = Dist(x, xe) /\ High' = Dist(y, ye)
  BY <1>1, <1>2 DEF Far, High
<1>8. Dist(x, xe) \in Nat /\ Dist(y, ye) \in Nat
  BY DEF Dist, Upper
<1>9. ASSUME NEW c \in Int, c = 0
      PROVE  LineGoing(f, c, c)'
  <2>1. /\ f'.op = "line" /\ f'.size = 1 /\ f'.xe = shape'.xe /\ f'.ye = shape'.ye
        /\ f'.dx = Far' /\ f'.dy = -High' /\ f'.Esp = Far' - High'
        /\ f'.XAddway = (IF shape'.x < shape'.xe THEN 1 ELSE -1) /\ f'.x = shape'.x
        /\ f'.YAddway = (IF shape'.y < shape'.ye THEN 1 ELSE -1) /\ f'.y = shape'.y
    BY <1>1, <1>2, <1>4, <1>6, <1>7 DEF Line
  <2>2. f'.x = shape'.x + f'.XAddway * c /\ f'.y = shape'.y + f'.YAddway * c
    BY <1>1, <1>2, <1>9, <2>1
  <2>3. /\ f'.Esp = Far' - High' - c * High' + c * Far'
        /\ 2 * f'.Esp <= 3 * Far'
        /\ Far' >= High' => 2 * f'.Esp >= -High'
        /\ Far' < High' => 2 * f'.Esp >= 2 * Far' - 3 * High'
    BY <1>7, <1>8, <1>9, <2>1
  <2>4. /\ IsFiniteSet(drawn') /\ Cardinality(drawn') = (IF Far' >= High' THEN c ELSE c)
        /\ ~(c + c > 0)
    BY <1>1, <1>9, FS_EmptySet
  <2>5. QED
    BY <1>1, <2>1, <2>2, <2>3, <2>4 DEF LineGoing
<1>10. QED
  <2> HIDE DEF g
  <2>1. 0 \in 0 .. Far' /\ 0 \in 0 .. High' /\ LineGoing(f, 0, 0)'
    BY <1>7, <1>8, <1>9
  <2>2. QED
    BY <1>5, <1>6, <2>1

LEMMA LineHolds ==
    ASSUME PaintInv, Settled, LineInv, [PaintNext]_paintvars
    PROVE  LineInv'
<1>1. CASE Draws
  <2>1. Paint' = Paint /\ shape' = shape
    BY <1>1, DrawsWith
  <2>2. Far' = Far /\ High' = High /\ (LineCall' <=> LineCall)
    BY <2>1 DEF Far, High, LineCall, Fitting
  <2>3. ASSUME LineCall
        PROVE  \/ todo' = <<>> /\ LineIsNear'
               \/ todo' = <<f'>> /\ \E a \in 0 .. Far, b \in 0 .. High : LineGoing(f, a, b)'
    <3>1. PICK a \in 0 .. Far, b \in 0 .. High : todo = <<f>> /\ LineGoing(f, a, b)
      BY <1>1, <2>3 DEF LineInv, Draws
    <3>2. LineStep
      BY <1>1, <3>1, DrawsWith DEF LineGoing
    <3>3. QED
      BY <2>3, <3>1, <3>2, LineGoesOn
  <2>4. QED
    BY <2>2, <2>3 DEF LineInv
<1>2. CASE Resting /\ (DrawsPoint \/ DrawsLine \/ DrawsRectangle \/ DrawsCircle \/ Clears \/ Writes)
  <2>1. ASSUME LineCall'
        PROVE  \E q \in Points, e \in Points, n \in DotSizes :
                 Fresh([call |-> "line", x |-> q[1], y |-> q[2], xe |-> e[1], ye |-> e[2],
                        size |-> n], DrawLine(q[1], q[2], e[1], e[2], n))
    <3>1. shape'.call = "line"
      BY <2>1 DEF LineCall
    <3>2. \A s \in Scripts : s.call # "line"
      BY Written
    <3>3. QED
      BY <1>2, <3>1, <3>2, Called DEF Fresh
  <2>2. ASSUME LineCall'
        PROVE  todo' = <<f'>> /\ \E a \in 0 .. Far', b \in 0 .. High' : LineGoing(f, a, b)'
    <3>1. PICK q \in Points, e \in Points, n \in DotSizes :
             Fresh([call |-> "line", x |-> q[1], y |-> q[2], xe |-> e[1], ye |-> e[2],
                    size |-> n], DrawLine(q[1], q[2], e[1], e[2], n))
      BY <2>1, <2>2, Zenon
    <3>2. q[1] \in Int /\ q[2] \in Int /\ e[1] \in Int /\ e[2] \in Int /\ n \in Int
      <4>1. q[1] \in Int /\ q[2] \in Int /\ e[1] \in Int /\ e[2] \in Int
        BY PointsAreOnPlane DEF PaintInv
      <4>2. n \in Nat
        BY PaintAssumption
      <4>3. QED
        BY <4>1, <4>2
    <3>3. QED
      BY <2>2, <3>1, <3>2, LineBegins
  <2>3. QED
    BY <2>2 DEF LineInv
<1>3. CASE UNCHANGED paintvars
  <2>1. /\ Paint' = Paint /\ shape' = shape /\ todo' = todo /\ drawn' = drawn /\ f' = f
    BY <1>3 DEF paintvars, f
  <2>2. Far' = Far /\ High' = High /\ (LineCall' <=> LineCall) /\ (LineIsNear' <=> LineIsNear)
    BY <2>1 DEF Far, High, LineCall, Fitting, LineIsNear, SingleLine
  <2>3. \A a, b : LineGoing(f, a, b)' <=> LineGoing(f, a, b)
    BY <2>1 DEF LineGoing, Far, High, Near
  <2>4. QED
    BY <2>1, <2>2, <2>3 DEF LineInv
<1>4. CASE shape' = NoShape
  BY <1>4 DEF LineInv, LineCall, NoShape
<1>5. QED
  BY <1>1, <1>2, <1>3, <1>4, Otherwise
-----------------------------------------------------------------------------
(* The circle.  Squares.                                                   *)
LEMMA SquareFacts ==
    \A n \in Int : Sq(n) \in Int /\ Sq(n) >= 0 /\ Sq(-n) = Sq(n) /\ Sq(n + 1) = Sq(n) + 2 * n + 1
  BY DEF Sq

LEMMA SquareGrows == ASSUME NEW m \in Nat, NEW n \in Nat, m <= n PROVE Sq(m) <= Sq(n)
<1>1. n * n >= m * n
  BY AtLeast
<1>2. n * m >= m * m
  BY AtLeast
<1>3. n * m = m * n
  OBVIOUS
<1>4. n * n \in Int /\ m * n \in Int /\ m * m \in Int
  OBVIOUS
<1>5. QED
  BY <1>1, <1>2, <1>3, <1>4 DEF Sq

(* The error says how far the next dot is from the circle, in squares.     *)
LEMMA CircleErrGoes ==
    ASSUME NEW r \in Nat, r < 8192, NEW x \in Int, NEW y \in Int, NEW Esp \in Int,
           CircleErr(r, x, y, Esp), x <= y
    PROVE  /\ I16(x + 1) = x + 1 /\ I16(y - 1) = y - 1
           /\ Esp < 0 => CircleErr(r, x + 1, y, I16(Esp + 4 * x + 6))
           /\ Esp >= 0 => CircleErr(r, x + 1, y - 1, I16(Esp + 10 + 4 * (x - y)))
<1> DEFINE X == Sq(x)  Y == Sq(y)  R == Sq(r)  d == X + Y - R
           d1 == Sq(x + 1) + Y - R  d2 == Sq(x + 1) + Sq(y - 1) - R
<1>1. /\ x \in Nat /\ y \in 0 .. r /\ d >= -y /\ d <= y /\ Esp = 2 * d + 4 * x - 2 * y + 3
  BY DEF CircleErr
<1>2. X \in Int /\ Y \in Int /\ R \in Int /\ d \in Int
  BY SquareFacts
<1>3. d1 = d + 2 * x + 1
  <2>1. Sq(x + 1) = X + 2 * x + 1
    BY SquareFacts
  <2> HIDE DEF X, Y, R
  <2>2. QED
    BY <1>2, <2>1
<1>4. d2 = d + 2 * x + 2 - 2 * y
  <2>1. Sq(x + 1) = X + 2 * x + 1
    BY SquareFacts
  <2>2. Sq(y - 1 + 1) = Sq(y - 1) + 2 * (y - 1) + 1 /\ y - 1 + 1 = y /\ Sq(y - 1) \in Int
    BY SquareFacts
  <2>3. Y = Sq(y - 1) + 2 * (y - 1) + 1
    BY <2>2
  <2> HIDE DEF X, Y, R
  <2>4. QED
    BY <1>2, <2>1, <2>2, <2>3
<1> HIDE DEF d, d1, d2
<1>5. I16(x + 1) = x + 1 /\ I16(y - 1) = y - 1
  BY <1>1, Wrapped
<1>6. ASSUME Esp < 0
      PROVE  CircleErr(r, x + 1, y, I16(Esp + 4 * x + 6))
  <2>1. d1 >= -y /\ d1 <= y
    BY <1>1, <1>2, <1>3, <1>6
  <2>2. I16(Esp + 4 * x + 6) = 2 * d1 + 4 * (x + 1) - 2 * y + 3 \/ x + 1 > y
    <3>1. Esp + 4 * x + 6 = 2 * d1 + 4 * (x + 1) - 2 * y + 3
      BY <1>1, <1>2, <1>3
    <3>2. x + 1 <= y => Esp + 4 * x + 6 >= -32768 /\ Esp + 4 * x + 6 < 32768
      BY <1>1, <1>2, <1>6
    <3>3. QED
      BY <1>1, <3>1, <3>2, Wrapped
  <2>3. QED
    BY <1>1, <2>1, <2>2 DEF CircleErr, d1
<1>7. ASSUME Esp >= 0
      PROVE  CircleErr(r, x + 1, y - 1, I16(Esp + 10 + 4 * (x - y)))
  <2>1. d2 >= -(y - 1) /\ (x + 1 <= y - 1 => d2 <= y - 1)
    BY <1>1, <1>2, <1>4, <1>7
  <2>2. I16(Esp + 10 + 4 * (x - y)) = 2 * d2 + 4 * (x + 1) - 2 * (y - 1) + 3 \/ x + 1 > y - 1
    <3>1. Esp + 10 + 4 * (x - y) = 2 * d2 + 4 * (x + 1) - 2 * (y - 1) + 3
      BY <1>1, <1>2, <1>4
    <3>2. x + 1 <= y - 1 =>
            Esp + 10 + 4 * (x - y) >= -32768 /\ Esp + 10 + 4 * (x - y) < 32768
      BY <1>1, <1>2, <1>7
    <3>3. QED
      BY <1>1, <3>1, <3>2, Wrapped
  <2>3. QED
    BY <1>1, <2>1, <2>2 DEF CircleErr, d2
<1>8. QED
  BY <1>5, <1>6, <1>7

(* Which rows a dot of a filled circle is left to, and where the drawing   *)
(* may end.                                                                *)
LEMMA CircleRows ==
    ASSUME NEW r \in Nat, NEW x \in Int, NEW y \in Int, NEW Esp, CircleErr(r, x, y, Esp)
    PROVE  /\ x <= y => \A s \in x .. y : Sq(x) + Sq(s) <= r * r + r
           /\ x <= y => Sq(x) + Sq(y) >= r * r - r
           /\ \A s \in Nat : x <= s /\ Sq(x) + Sq(s) <= r * r - r => s <= y
           /\ \A u, v \in Nat : x > y /\ Sq(u) + Sq(v) <= r * r - r => u < x \/ v < x
<1> DEFINE X == Sq(x)  Y == Sq(y)  R == r * r  Y1 == Sq(y + 1)
<1>1. /\ x \in Nat /\ y \in -1 .. r /\ (y = -1 => x >= 1) /\ X + Y - R >= -y
      /\ x <= y => X + Y - R <= y
  BY DEF CircleErr, Sq
<1>2. X \in Nat /\ Y \in Nat /\ R \in Nat /\ Y1 \in Nat /\ Y1 = Y + 2 * y + 1
  <2>1. X \in Int /\ X >= 0 /\ Y \in Int /\ Y >= 0 /\ Sq(r) \in Int /\ Sq(r) >= 0
    BY SquareFacts
  <2>2. y + 1 \in Int
    OBVIOUS
  <2>3. Y1 \in Int /\ Y1 >= 0 /\ Y1 = Y + 2 * y + 1
    BY <2>2, SquareFacts
  <2>4. R = Sq(r)
    BY DEF Sq
  <2>5. QED
    BY <2>1, <2>3, <2>4
<1>3. ASSUME x <= y, NEW s \in x .. y
      PROVE  Sq(x) + Sq(s) <= r * r + r
  <2>1. Sq(s) <= Y /\ Sq(s) \in Int
    <3>1. s \in Nat /\ y \in Nat /\ s <= y
      BY <1>1, <1>3
    <3>2. Sq(s) <= Sq(y)
      BY <3>1, SquareGrows
    <3>3. s \in Int
      BY <3>1
    <3>4. QED
      BY <3>2, <3>3, SquareFacts
  <2> HIDE DEF X, Y, R
  <2>2. X + Sq(s) <= R + r
    BY <1>1, <1>2, <1>3, <2>1
  <2>3. QED
    BY <2>2 DEF X, R
<1>4. ASSUME NEW s \in Nat, x <= s, Sq(x) + Sq(s) <= r * r - r, ~(s <= y)
      PROVE  FALSE
  <2>1. Sq(s) >= Y1 /\ Sq(s) \in Int
    BY <1>1, <1>4, SquareFacts, SquareGrows
  <2>2. X + Sq(s) <= R - r
    BY <1>4
  <2> HIDE DEF X, Y, R, Y1
  <2>3. X + Y1 <= R - r
    BY <1>2, <2>1, <2>2
  <2>4. y + 1 + r <= 0
    BY <1>1, <1>2, <2>3
  <2>5. y = -1 /\ r = 0 /\ x >= 1
    BY <1>1, <2>4
  <2>6. Sq(x) >= Sq(1) /\ Sq(1) = 1
    <3>1. Sq(1) = 1
      BY DEF Sq
    <3>2. QED
      BY <1>1, <2>5, <3>1, SquareGrows
  <2>7. X >= 1 /\ R = 0
    BY <2>5, <2>6 DEF X, R
  <2>8. QED
    BY <1>2, <2>3, <2>5, <2>7
<1>5. ASSUME NEW u \in Nat, NEW v \in Nat, x > y, Sq(u) + Sq(v) <= r * r - r, u >= x, v >= x
      PROVE  FALSE
  <2>1. Sq(u) >= X /\ Sq(v) >= X /\ Sq(u) \in Int /\ Sq(v) \in Int
    BY <1>1, <1>5, SquareFacts, SquareGrows
  <2>2. X >= Y1
    BY <1>1, <1>5, SquareFacts, SquareGrows
  <2>3. Sq(u) + Sq(v) <= R - r
    BY <1>5
  <2> HIDE DEF X, Y, R, Y1
  <2>4. X + X <= R - r /\ X + Y1 <= R - r
    BY <1>2, <2>1, <2>2, <2>3
  <2>5. y = -1 /\ r = 0 /\ x >= 1
    BY <1>1, <1>2, <2>4
  <2>6. X >= 1 /\ R = 0
    <3>1. Sq(1) = 1
      BY DEF Sq
    <3>2. QED
      BY <1>1, <2>5, <3>1, SquareGrows DEF X, R
  <2>7. QED
    BY <1>2, <2>4, <2>5, <2>6
<1>6. x <= y => Sq(x) + Sq(y) >= r * r - r
  <2> HIDE DEF X, Y, R
  <2>1. x <= y => X + Y >= R - r
    BY <1>1, <1>2
  <2>2. QED
    BY <2>1 DEF X, Y, R
<1>7. QED
  BY <1>1, <1>3, <1>4, <1>5, <1>6

(* The dots of a step: eight for every row it draws.                       *)
Octants(a, b) == {<<a, b>>, <<-a, b>>, <<-b, a>>, <<-b, -a>>,
                  <<-a, -b>>, <<a, -b>>, <<b, -a>>, <<b, a>>}
Ring(fill, x, y) == UNION {Octants(x, s) : s \in IF fill THEN x .. y ELSE {y}}
DotsAt(points) == {<<shape.x + q[1] - 1, shape.y + q[2] - 1>> : q \in points}

LEMMA OctantsAre ==
    ASSUME NEW a \in Int, NEW b \in Int
    PROVE  /\ \A q \in Octants(a, b) :
                 /\ q[1] \in Int /\ q[2] \in Int
                 /\ \/ q[1] \in {a, -a} /\ q[2] \in {b, -b}
                    \/ q[1] \in {b, -b} /\ q[2] \in {a, -a}
                 /\ Sq(q[1]) + Sq(q[2]) = Sq(a) + Sq(b)
           /\ \A u \in {a, -a}, v \in {b, -b} :
                 <<u, v>> \in Octants(a, b) /\ <<v, u>> \in Octants(a, b)
<1>1. ASSUME NEW q \in Octants(a, b)
      PROVE  /\ q[1] \in Int /\ q[2] \in Int
             /\ \/ q[1] \in {a, -a} /\ q[2] \in {b, -b}
                \/ q[1] \in {b, -b} /\ q[2] \in {a, -a}
  BY DEF Octants
<1>2. ASSUME NEW q \in Octants(a, b)
      PROVE  Sq(q[1]) + Sq(q[2]) = Sq(a) + Sq(b)
  <2>1. Sq(-a) = Sq(a) /\ Sq(-b) = Sq(b) /\ Sq(a) \in Int /\ Sq(b) \in Int
    BY SquareFacts
  <2>2. QED
    BY <1>1, <2>1
<1>3. \A u \in {a, -a}, v \in {b, -b} :
         <<u, v>> \in Octants(a, b) /\ <<v, u>> \in Octants(a, b)
  BY DEF Octants
<1>4. QED
  BY <1>1, <1>2, <1>3

LEMMA AllDrawn ==
    ASSUME NEW points, SetPixels(points), ~lost'
    PROVE  ~lost /\ drawn' = drawn \cup points
  BY Zenon DEF SetPixels

LEMMA InRing ==
    ASSUME NEW r \in Nat, NEW x \in Int, NEW y \in Int, NEW Esp, CircleErr(r, x, y, Esp), x <= y,
           NEW fill \in BOOLEAN, NEW q \in Ring(fill, x, y)
    PROVE  /\ q[1] \in -r .. r /\ q[2] \in -r .. r
           /\ Sq(q[1]) + Sq(q[2]) <= r * r + r
           /\ ~fill => Sq(q[1]) + Sq(q[2]) >= r * r - r
<1>1. x \in 0 .. r /\ y \in x .. r
  BY DEF CircleErr
<1>2. PICK s \in x .. y : q \in Octants(x, s) /\ (~fill => s = y)
  BY <1>1 DEF Ring
<1>3. s \in 0 .. r
  BY <1>1
<1>4. q[1] \in -r .. r /\ q[2] \in -r .. r
  <2>1. \A k \in 0 .. r : k \in -r .. r /\ -k \in -r .. r
    OBVIOUS
  <2>2. x \in Int /\ s \in Int
    OBVIOUS
  <2>3. \/ q[1] \in {x, -x} /\ q[2] \in {s, -s}
        \/ q[1] \in {s, -s} /\ q[2] \in {x, -x}
    BY <1>2, <2>2, OctantsAre, Zenon
  <2>4. QED
    BY <1>1, <1>3, <2>1, <2>3
<1>5. Sq(q[1]) + Sq(q[2]) = Sq(x) + Sq(s)
  <2>1. x \in Int /\ s \in Int
    OBVIOUS
  <2>2. QED
    BY <1>2, <2>1, OctantsAre, Zenon
<1>6. /\ Sq(x) + Sq(s) <= r * r + r
      /\ s = y => Sq(x) + Sq(s) >= r * r - r
  BY CircleRows
<1>7. QED
  BY <1>2, <1>4, <1>5, <1>6

LEMMA RingIsDrawn ==
    ASSUME PaintInv, CircleCall, CircleGoing(f), f.xc <= f.yc, CircleStep, ~lost'
    PROVE  drawn' = drawn \cup DotsAt(Ring(shape.fill, f.xc, f.yc))
<1> DEFINE points == Ring(shape.fill, f.xc, f.yc)
           size   == IF f.fill THEN 1 ELSE f.size
           dots == UNION {DrawPoint(U16(f.x + q[1]), U16(f.y + q[2]), size, "around") : q \in points}
<1>1. /\ f.x = shape.x /\ f.y = shape.y /\ f.fill = shape.fill /\ f.size = 1
      /\ shape.r \in Nat /\ shape.x \in Nat /\ shape.y \in Nat /\ shape.fill \in BOOLEAN
      /\ CircleErr(shape.r, f.xc, f.yc, f.Esp)
  BY DEF CircleGoing
<1>2. f.xc \in Int /\ f.yc \in Int
  BY <1>1 DEF CircleErr
<1>3. /\ Made /\ Paint.Width \in Nat /\ Paint.Height \in Nat
      /\ Paint.Width < 32768 /\ Paint.Height < 32768
  BY DEF PaintInv, Made
<1>4. ~(f.xc > f.yc)
  BY <1>2
<1>5. SetPixels(dots)
  BY <1>1, <1>4 DEF CircleStep, Ring, Octants
<1>6. ASSUME NEW q \in points
      PROVE  DrawPoint(U16(f.x + q[1]), U16(f.y + q[2]), size, "around")
               = {<<shape.x + q[1] - 1, shape.y + q[2] - 1>>}
  <2>1. q[1] \in -shape.r .. shape.r /\ q[2] \in -shape.r .. shape.r
    BY <1>1, <1>2, InRing
  <2> DEFINE X == shape.x + q[1]  Y == shape.y + q[2]
  <2>2. X \in 1 .. Paint.Width /\ Y \in 1 .. Paint.Height
    BY <1>1, <1>3, <2>1 DEF CircleCall
  <2>3. U16(X) = X /\ U16(Y) = Y
    BY <1>3, <2>2 DEF U16
  <2>4. size = 1
    BY <1>1
  <2>5. X - 1 = shape.x + q[1] - 1 /\ Y - 1 = shape.y + q[2] - 1
    BY <1>1, <2>1
  <2> HIDE DEF X, Y, size
  <2>6. DrawPoint(X, Y, 1, "around") = {<<X - 1, Y - 1>>}
    BY <1>3, <2>2, SingleDot
  <2>7. QED
    BY <1>1, <2>3, <2>4, <2>5, <2>6 DEF X, Y
<1> HIDE DEF points, size
<1>7. dots = DotsAt(points)
  <2>1. dots = UNION {{<<shape.x + q[1] - 1, shape.y + q[2] - 1>>} : q \in points}
    BY <1>6
  <2>2. QED
    BY <2>1 DEF DotsAt
<1>8. drawn' = drawn \cup dots
  BY <1>5, AllDrawn
<1>9. QED
  BY <1>7, <1>8 DEF points

LEMMA DotsGoOn ==
    ASSUME shape.r \in Nat, shape.x \in Nat, shape.y \in Nat, shape.fill \in BOOLEAN,
           NEW x \in Int, NEW y \in Int, NEW Esp, CircleErr(shape.r, x, y, Esp), x <= y,
           CircleDots(x), drawn' = drawn \cup DotsAt(Ring(shape.fill, x, y)), shape' = shape,
           NEW n \in Int, n = x + 1
    PROVE  CircleDots(n)'
<1> DEFINE r == shape.r  ring == Ring(shape.fill, x, y)
<1>1. ASSUME NEW q \in drawn'
      PROVE  Apart2(q)' <= r * r + r /\ (~shape.fill => Apart2(q)' >= r * r - r)
  <2>1. Apart2(q)' = Apart2(q)
    BY DEF Apart2
  <2>2. CASE q \in drawn
    BY <2>1, <2>2 DEF CircleDots
  <2>3. CASE q \in DotsAt(ring)
    <3>1. PICK p \in ring : q = <<shape.x + p[1] - 1, shape.y + p[2] - 1>>
      BY <2>3 DEF DotsAt
    <3>2. /\ p[1] \in Int /\ p[2] \in Int
          /\ Sq(p[1]) + Sq(p[2]) <= r * r + r
          /\ ~shape.fill => Sq(p[1]) + Sq(p[2]) >= r * r - r
      BY InRing
    <3>3. q[1] + 1 - shape.x = p[1] /\ q[2] + 1 - shape.y = p[2]
      <4>1. q[1] = shape.x + p[1] - 1 /\ q[2] = shape.y + p[2] - 1
        BY <3>1
      <4> DEFINE X == shape.x  Y == shape.y  p1 == p[1]  p2 == p[2]  q1 == q[1]  q2 == q[2]
      <4>2. X \in Int /\ Y \in Int /\ p1 \in Int /\ p2 \in Int /\ q1 = X + p1 - 1 /\ q2 = Y + p2 - 1
        BY <3>2, <4>1
      <4> HIDE DEF X, Y, p1, p2, q1, q2
      <4>3. q1 + 1 - X = p1
        BY <4>2
      <4>4. q2 + 1 - Y = p2
        BY <4>2
      <4>5. QED
        BY <4>3, <4>4 DEF X, Y, p1, p2, q1, q2
    <3>4. Apart2(q) = Sq(p[1]) + Sq(p[2])
      BY <3>3 DEF Apart2
    <3>5. QED
      BY <2>1, <3>2, <3>4
  <2>4. QED
    BY <2>2, <2>3
<1>2. ASSUME shape.fill, NEW u \in -r .. r, NEW v \in -r .. r,
             Sq(u) + Sq(v) <= r * r - r, Upper(u, -u) < n \/ Upper(v, -v) < n
      PROVE  <<shape.x + u - 1, shape.y + v - 1>> \in drawn'
  <2> DEFINE a == Upper(u, -u)  b == Upper(v, -v)
  <2>1. a \in Nat /\ b \in Nat /\ u \in {a, -a} /\ v \in {b, -b} /\ u \in Int /\ v \in Int
    BY DEF Upper
  <2>2. Sq(a) = Sq(u) /\ Sq(b) = Sq(v)
    <3>1. Sq(-u) = Sq(u) /\ Sq(-v) = Sq(v)
      BY <2>1, SquareFacts
    <3>2. QED
      BY <3>1 DEF Upper
  <2>3. CASE a < x \/ b < x
    BY <1>2, <2>3, Zenon DEF CircleDots
  <2> HIDE DEF a, b
  <2>4. ASSUME a = x, b >= x
        PROVE  <<u, v>> \in ring
    <3>1. b <= y
      BY <1>2, <2>1, <2>2, <2>4, CircleRows
    <3>2. <<u, v>> \in Octants(x, b)
      <4>1. u \in {x, -x} /\ v \in {b, -b} /\ b \in Int
        BY <2>1, <2>4
      <4>2. QED
        BY <4>1, OctantsAre, Zenon
    <3>3. b \in x .. y
      BY <2>1, <2>4, <3>1
    <3>4. QED
      BY <1>2, <3>2, <3>3 DEF Ring
  <2>5. ASSUME b = x, a >= x
        PROVE  <<u, v>> \in ring
    <3>1. Sq(x) + Sq(a) <= r * r - r
      <4>1. Sq(u) \in Int /\ Sq(v) \in Int
        BY <2>1, SquareFacts, Zenon
      <4>2. Sq(x) + Sq(a) = Sq(u) + Sq(v)
        BY <2>2, <2>5, <4>1
      <4>3. QED
        BY <1>2, <4>2
    <3>2. a <= y
      BY <2>1, <2>5, <3>1, CircleRows
    <3>3. <<u, v>> \in Octants(x, a)
      <4>1. v \in {x, -x} /\ u \in {a, -a} /\ a \in Int
        BY <2>1, <2>5
      <4>2. QED
        BY <4>1, OctantsAre, Zenon
    <3>4. a \in x .. y
      BY <2>1, <2>5, <3>2
    <3>5. QED
      BY <1>2, <3>3, <3>4 DEF Ring
  <2>6. CASE ~(a < x \/ b < x)
    <3>1. a < n \/ b < n
      BY <1>2 DEF a, b
    <3>2. (a = x /\ b >= x) \/ (b = x /\ a >= x)
      BY <2>1, <2>6, <3>1
    <3>3. <<u, v>> \in ring
      BY <2>4, <2>5, <3>2
    <3>4. <<shape.x + u - 1, shape.y + v - 1>> \in DotsAt(ring)
      <4> HIDE DEF ring
      <4> DEFINE h(q) == <<shape.x + q[1] - 1, shape.y + q[2] - 1>>
      <4>1. h(<<u, v>>) = <<shape.x + u - 1, shape.y + v - 1>>
        OBVIOUS
      <4>2. h(<<u, v>>) \in DotsAt(ring)
        BY <3>3 DEF DotsAt
      <4>3. QED
        BY <4>1, <4>2
    <3>5. QED
      BY <3>4
  <2>7. QED
    BY <2>3, <2>6
<1>3. QED
  BY <1>1, <1>2 DEF CircleDots

(* The step as a whole: it ends round, or it goes on.                      *)
LEMMA CircleEnds ==
    ASSUME PaintInv, CircleCall, CircleGoing(f), f.xc > f.yc, drawn' = drawn, shape' = shape,
           Paint' = Paint, lost' = lost
    PROVE  CircleIsRound'
<1> DEFINE r == shape.r
<1>1. /\ shape.r \in Nat /\ shape.x \in Nat /\ shape.y \in Nat /\ shape.fill \in BOOLEAN
      /\ CircleErr(shape.r, f.xc, f.yc, f.Esp) /\ CircleDots(f.xc)
  BY DEF CircleGoing
<1>2. f.xc \in Nat /\ f.yc \in Int
  BY <1>1 DEF CircleErr
<1>3. \A q \in drawn : Apart2(q) <= r * r + r /\ (~shape.fill => Apart2(q) >= r * r - r)
  BY <1>1 DEF CircleDots
<1>4. ASSUME shape.fill, NEW q \in (0 .. Paint.Width) \X (0 .. Paint.Height),
             Apart2(q) <= r * r - r
      PROVE  q \in drawn
  <2> DEFINE u == q[1] + 1 - shape.x  v == q[2] + 1 - shape.y  a == Upper(u, -u)  b == Upper(v, -v)
  <2>1. /\ q[1] \in Int /\ q[2] \in Int /\ q = <<q[1], q[2]>>
    BY DEF PaintInv, Made
  <2>2. u \in Int /\ v \in Int /\ q = <<shape.x + u - 1, shape.y + v - 1>>
    BY <1>1, <2>1
  <2>3. Sq(u) + Sq(v) <= r * r - r
    BY <1>4 DEF Apart2
  <2> HIDE DEF u, v
  <2>4. a \in Nat /\ b \in Nat /\ u \in -a .. a /\ v \in -b .. b
    BY <2>2 DEF Upper
  <2>5. Sq(a) = Sq(u) /\ Sq(b) = Sq(v) /\ Sq(u) \in Int /\ Sq(v) \in Int /\ Sq(u) >= 0 /\ Sq(v) >= 0
    <3>1. Sq(-u) = Sq(u) /\ Sq(-v) = Sq(v)
      BY <2>2, SquareFacts
    <3>2. QED
      BY <2>2, <3>1, SquareFacts, Zenon DEF Upper
  <2> HIDE DEF a, b
  <2>6. a < f.xc \/ b < f.xc
    <3>1. Sq(a) + Sq(b) <= r * r - r
      BY <2>3, <2>5
    <3>2. QED
      BY <1>1, <1>2, <2>4, <3>1, CircleRows
  <2>7. a <= r /\ b <= r
    <3>1. r * r \in Int /\ r * r >= 0 /\ Sq(r + 1) = r * r + 2 * r + 1
      BY <1>1 DEF Sq
    <3>2. ASSUME NEW k \in Nat, Sq(k) <= r * r - r
          PROVE  k <= r
      <4>1. SUFFICES ASSUME k >= r + 1
                     PROVE  FALSE
        BY <1>1
      <4>2. Sq(r + 1) <= Sq(k) /\ Sq(k) \in Int
        <5>1. r + 1 \in Nat /\ k \in Int
          BY <1>1
        <5>2. Sq(r + 1) <= Sq(k)
          BY <4>1, <5>1, SquareGrows
        <5>3. QED
          BY <5>1, <5>2, SquareFacts
      <4> HIDE DEF r
      <4>3. QED
        BY <1>1, <3>1, <3>2, <4>2 DEF r
    <3>3. Sq(a) <= r * r - r /\ Sq(b) <= r * r - r
      <4>1. r * r - r \in Int
        BY <1>1
      <4> HIDE DEF r
      <4>2. QED
        BY <2>3, <2>5, <4>1
    <3>4. QED
      BY <2>4, <3>2, <3>3
  <2>8. u \in -r .. r /\ v \in -r .. r
    BY <1>1, <2>4, <2>7
  <2>9. <<shape.x + u - 1, shape.y + v - 1>> \in drawn
    BY <1>1, <1>4, <2>3, <2>6, <2>8 DEF CircleDots, a, b
  <2>10. QED
    BY <2>2, <2>9
<1>5. Paint'.Width = Paint.Width /\ Paint'.Height = Paint.Height
  OBVIOUS
<1>6. \A q : Apart2(q) = (q[1] + 1 - shape.x) * (q[1] + 1 - shape.x)
                           + (q[2] + 1 - shape.y) * (q[2] + 1 - shape.y)
  BY DEF Apart2, Sq
<1>7. QED
  BY <1>1, <1>3, <1>4, <1>5, <1>6 DEF CircleIsRound

LEMMA CircleGoesOn ==
    ASSUME PaintInv, CircleCall, todo = <<f>>, CircleGoing(f), CircleStep, ~lost'
    PROVE  \/ todo' = <<>> /\ CircleIsRound'
           \/ todo' = <<f'>> /\ CircleGoing(f)'
<1> DEFINE xc1 == I16(f.xc + 1)
           yc1 == I16(f.yc - 1)
           e1 == I16(f.Esp + 4 * f.xc + 6)
           e2 == I16(f.Esp + 10 + 4 * (f.xc - f.yc))
           down == [f EXCEPT !.xc = xc1, !.Esp = e1]
           in   == [f EXCEPT !.xc = xc1, !.yc = yc1, !.Esp = e2]
           g == IF f.Esp < 0 THEN down ELSE in
<1>1. /\ shape.r \in Nat /\ shape.x \in Nat /\ shape.y \in Nat /\ shape.fill \in BOOLEAN
      /\ f.op = "circle" /\ f.x = shape.x /\ f.y = shape.y /\ f.size = 1 /\ f.fill = shape.fill
      /\ CircleErr(shape.r, f.xc, f.yc, f.Esp) /\ CircleDots(f.xc)
  BY DEF CircleGoing
<1>2. f \in [op : {"circle"}, x : Int, y : Int, xc : Int, yc : Int, Esp : Int, size : Int,
              fill : {f.fill}]
  BY <1>1, FrameInHand DEF Frame, PaintInv
<1>3. Paint' = Paint /\ shape' = shape
  BY DEF CircleStep, Steps
<1>4. CASE f.xc > f.yc
  <2>1. Steps(<<>>) /\ drawn' = drawn /\ lost' = lost
    BY <1>4 DEF CircleStep
  <2>2. todo' = <<>>
    BY <2>1, OnlyFrame
  <2>3. CircleIsRound'
    BY <1>3, <1>4, <2>1, CircleEnds
  <2>4. QED
    BY <2>2, <2>3
<1>5. CASE ~(f.xc > f.yc)
  <2>1. f.xc \in Int /\ f.yc \in Int /\ f.Esp \in Int /\ f.xc <= f.yc
    BY <1>2, <1>5
  <2>2. Steps(<<g>>)
    BY <1>5 DEF CircleStep
  <2>3. todo' = <<g>> /\ f' = g
    BY <2>2, OnlyFrame
  <2>4. drawn' = drawn \cup DotsAt(Ring(shape.fill, f.xc, f.yc))
    BY <2>1, RingIsDrawn
  <2>5. \A n \in Int : n = f.xc + 1 => CircleDots(n)'
    BY <1>1, <1>3, <2>1, <2>4, DotsGoOn
  <2>6. /\ xc1 = f.xc + 1 /\ yc1 = f.yc - 1
        /\ f.Esp < 0 => CircleErr(shape.r, xc1, f.yc, e1)
        /\ f.Esp >= 0 => CircleErr(shape.r, xc1, yc1, e2)
    <3>1. shape.r < 8192
      BY DEF CircleCall
    <3> DEFINE R == shape.r  X == f.xc  Y == f.yc  E == f.Esp
    <3>2. /\ R \in Nat /\ R < 8192 /\ X \in Int /\ Y \in Int /\ E \in Int
          /\ CircleErr(R, X, Y, E) /\ X <= Y
      BY <1>1, <2>1, <3>1
    <3> HIDE DEF xc1, yc1, e1, e2, R, X, Y, E
    <3>3. /\ I16(X + 1) = X + 1 /\ I16(Y - 1) = Y - 1
          /\ E < 0 => CircleErr(R, X + 1, Y, I16(E + 4 * X + 6))
          /\ E >= 0 => CircleErr(R, X + 1, Y - 1, I16(E + 10 + 4 * (X - Y)))
      BY <3>2, CircleErrGoes
    <3>4. /\ I16(f.xc + 1) = f.xc + 1 /\ I16(f.yc - 1) = f.yc - 1
          /\ f.Esp < 0 => CircleErr(shape.r, f.xc + 1, f.yc, I16(f.Esp + 4 * f.xc + 6))
          /\ f.Esp >= 0 =>
               CircleErr(shape.r, f.xc + 1, f.yc - 1, I16(f.Esp + 10 + 4 * (f.xc - f.yc)))
      BY <3>3, Zenon DEF R, X, Y, E
    <3>5. QED
      BY <3>4, Zenon DEF xc1, yc1, e1, e2
  <2> HIDE DEF xc1, yc1, e1, e2
  <2>7. /\ g.op = "circle" /\ g.x = f.x /\ g.y = f.y /\ g.size = f.size /\ g.fill = f.fill
        /\ g.xc = xc1 /\ CircleErr(shape.r, g.xc, g.yc, g.Esp)
    <3>1. CASE f.Esp < 0
      <4>1. /\ g.op = "circle" /\ g.x = f.x /\ g.y = f.y /\ g.size = f.size /\ g.fill = f.fill
            /\ g.xc = xc1 /\ g.yc = f.yc /\ g.Esp = e1
        BY <1>2, <3>1
      <4> HIDE DEF g
      <4>2. QED
        BY <2>6, <3>1, <4>1
    <3>2. CASE ~(f.Esp < 0)
      <4>1. /\ g.op = "circle" /\ g.x = f.x /\ g.y = f.y /\ g.size = f.size /\ g.fill = f.fill
            /\ g.xc = xc1 /\ g.yc = yc1 /\ g.Esp = e2
        BY <1>2, <3>2
      <4>2. f.Esp >= 0
        BY <2>1, <3>2
      <4> HIDE DEF g
      <4>3. QED
        BY <2>6, <4>1, <4>2
    <3>3. QED
      BY <3>1, <3>2
  <2> HIDE DEF g
  <2>8. CircleGoing(f)'
    <3>1. \A n : n = f.xc + 1 => CircleDots(n)'
      BY <2>1, <2>5
    <3>2. f'.xc = f.xc + 1
      BY <2>3, <2>6, <2>7
    <3>3. CircleDots(f.xc)'
      BY <3>1, <3>2 DEF CircleDots
    <3>4. /\ f'.op = "circle" /\ f'.x = shape'.x /\ f'.y = shape'.y /\ f'.size = 1
          /\ f'.fill = shape'.fill /\ CircleErr(shape'.r, f'.xc, f'.yc, f'.Esp)
          /\ shape'.r \in Nat /\ shape'.x \in Nat /\ shape'.y \in Nat /\ shape'.fill \in BOOLEAN
      BY <1>1, <1>3, <2>3, <2>7
    <3>5. QED
      BY <3>3, <3>4 DEF CircleGoing
  <2>9. QED
    BY <2>3, <2>8
<1>6. QED
  BY <1>4, <1>5

LEMMA CircleBegins ==
    ASSUME PaintInv, NEW x \in Nat, NEW y \in Nat, NEW r \in Nat, NEW size \in Nat,
           NEW fill \in BOOLEAN,
           Fresh([call |-> "circle", x |-> x, y |-> y, r |-> r, size |-> size, fill |-> fill],
                 DrawCircle(x, y, r, size, fill)),
           CircleCall'
    PROVE  todo' = <<f'>> /\ CircleGoing(f)'
<1> DEFINE s == [call |-> "circle", x |-> x, y |-> y, r |-> r, size |-> size, fill |-> fill]
           yc == I16(r)  e == I16(3 - 2 * r)
           g == [op |-> "circle", x |-> x, y |-> y, xc |-> 0, yc |-> yc, Esp |-> e,
                 size |-> size, fill |-> fill]
<1>1. shape' = s /\ Paint' = Paint /\ drawn' = {} /\ todo' = DrawCircle(x, y, r, size, fill)
  BY DEF Fresh
<1>2. s.x = x /\ s.y = y /\ s.r = r /\ s.size = size /\ s.fill = fill
  OBVIOUS
<1> HIDE DEF s
<1>3. Paint.Width \in Nat /\ Paint.Height \in Nat
  BY DEF PaintInv, Made
<1>4. /\ size = 1 /\ r < 8192 /\ x > r /\ y > r
      /\ x + r <= Paint.Width /\ y + r < Paint.Height
  BY <1>1, <1>2 DEF CircleCall
<1>5. todo' = <<g>>
  BY <1>1, <1>3, <1>4 DEF DrawCircle
<1>6. yc = r /\ e = 3 - 2 * r
  BY <1>4, Wrapped
<1> HIDE DEF yc, e
<1>7. f' = g
  BY <1>5 DEF f
<1>8. CircleErr(r, 0, r, 3 - 2 * r)
  <2>1. Sq(0) = 0 /\ Sq(r) \in Int
    BY SquareFacts DEF Sq
  <2>2. QED
    BY <2>1 DEF CircleErr
<1>9. CircleDots(0)'
  <2>1. shape'.r = r /\ drawn' = {}
    BY <1>1, <1>2
  <2>2. \A u, v \in Int : ~(Upper(u, -u) < 0) /\ ~(Upper(v, -v) < 0)
    BY DEF Upper
  <2>3. -r .. r \subseteq Int
    OBVIOUS
  <2>4. QED
    BY <2>1, <2>2, <2>3 DEF CircleDots
<1>10. g.op = "circle" /\ g.x = x /\ g.y = y /\ g.xc = 0 /\ g.yc = r /\ g.Esp = 3 - 2 * r
         /\ g.size = 1 /\ g.fill = fill
  BY <1>4, <1>6
<1> HIDE DEF g
<1>11. CircleDots(f.xc)'
  BY <1>7, <1>9, <1>10 DEF CircleDots
<1>12. CircleErr(shape'.r, f'.xc, f'.yc, f'.Esp)
  BY <1>1, <1>2, <1>7, <1>8, <1>10
<1>13. QED
  BY <1>1, <1>2, <1>5, <1>7, <1>10, <1>11, <1>12 DEF CircleGoing

LEMMA CircleHolds ==
    ASSUME PaintInv, Settled, CircleInv, [PaintNext]_paintvars
    PROVE  CircleInv'
<1>1. CASE Draws
  <2>1. Paint' = Paint /\ shape' = shape /\ (lost => lost')
    BY <1>1, DrawsWith
  <2>2. CircleCall' <=> CircleCall
    BY <2>1 DEF CircleCall
  <2>3. ASSUME CircleCall, ~lost'
        PROVE  \/ todo' = <<>> /\ CircleIsRound'
               \/ todo' = <<f'>> /\ CircleGoing(f)'
    <3>1. todo = <<f>> /\ CircleGoing(f)
      BY <1>1, <2>1, <2>3 DEF CircleInv, Draws
    <3>2. CircleStep
      BY <1>1, <3>1, DrawsWith DEF CircleGoing
    <3>3. QED
      BY <2>3, <3>1, <3>2, CircleGoesOn
  <2>4. QED
    BY <2>2, <2>3 DEF CircleInv
<1>2. CASE Resting /\ (DrawsPoint \/ DrawsLine \/ DrawsRectangle \/ DrawsCircle \/ Clears \/ Writes)
  <2>1. ASSUME CircleCall'
        PROVE  \E q \in Points, r \in Radii, n \in DotSizes, fill \in BOOLEAN :
                 Fresh([call |-> "circle", x |-> q[1], y |-> q[2], r |-> r, size |-> n,
                        fill |-> fill], DrawCircle(q[1], q[2], r, n, fill))
    <3>1. shape'.call = "circle"
      BY <2>1 DEF CircleCall
    <3>2. \A s \in Scripts : s.call # "circle"
      BY Written
    <3>3. QED
      BY <1>2, <3>1, <3>2, Called DEF Fresh
  <2>2. ASSUME CircleCall'
        PROVE  todo' = <<f'>> /\ CircleGoing(f)'
    <3>1. PICK q \in Points, r \in Radii, n \in DotSizes, fill \in BOOLEAN :
                 Fresh([call |-> "circle", x |-> q[1], y |-> q[2], r |-> r, size |-> n,
                        fill |-> fill], DrawCircle(q[1], q[2], r, n, fill))
      BY <2>1, <2>2
    <3>2. q[1] \in Nat /\ q[2] \in Nat
      BY PaintAssumption DEF Points, PaintInv, Made
    <3>3. r \in Nat /\ n \in Nat
      BY PaintAssumption
    <3>4. QED
      BY <2>2, <3>1, <3>2, <3>3, CircleBegins
  <2>3. QED
    BY <2>2 DEF CircleInv
<1>3. CASE UNCHANGED paintvars
  <2>1. /\ Paint' = Paint /\ shape' = shape /\ todo' = todo /\ drawn' = drawn /\ lost' = lost
        /\ f' = f
    BY <1>3 DEF paintvars, f
  <2>2. (CircleCall' <=> CircleCall) /\ (CircleIsRound' <=> CircleIsRound)
    BY <2>1 DEF CircleCall, CircleIsRound
  <2>3. CircleGoing(f)' <=> CircleGoing(f)
    BY <2>1 DEF CircleGoing, CircleDots, Apart2
  <2>4. QED
    BY <2>1, <2>2, <2>3 DEF CircleInv
<1>4. CASE shape' = NoShape
  BY <1>4 DEF CircleInv, CircleCall, NoShape
<1>5. QED
  BY <1>1, <1>2, <1>3, <1>4, Otherwise
-----------------------------------------------------------------------------
(* The numbers.  How many digits there are: the powers of ten.             *)
LEMMA TensAre ==
    /\ Tens[1] = 1 /\ Tens[2] = 10 /\ Tens[3] = 100 /\ Tens[4] = 1000 /\ Tens[5] = 10000
    /\ Tens[6] = 100000 /\ Tens[7] = 1000000 /\ Tens[8] = 10000000 /\ Tens[9] = 100000000
    /\ Tens[10] = 1000000000
    /\ \A i \in 1 .. 10 : Tens[i] \in Nat \ {0}
    /\ \A i \in 1 .. 9 : Tens[i + 1] = 10 * Tens[i]
<1>1. /\ Tens[1] = 1 /\ Tens[2] = 10 /\ Tens[3] = 100 /\ Tens[4] = 1000 /\ Tens[5] = 10000
      /\ Tens[6] = 100000 /\ Tens[7] = 1000000 /\ Tens[8] = 10000000 /\ Tens[9] = 100000000
      /\ Tens[10] = 1000000000
  BY DEF Tens
<1>2. ASSUME NEW i \in 1 .. 10
      PROVE  Tens[i] \in Nat \ {0}
  <2>1. i = 1 \/ i = 2 \/ i = 3 \/ i = 4 \/ i = 5 \/ i = 6 \/ i = 7 \/ i = 8 \/ i = 9 \/ i = 10
    OBVIOUS
  <2>2. QED
    BY <1>1, <2>1
<1>3. ASSUME NEW i \in 1 .. 9
      PROVE  Tens[i + 1] = 10 * Tens[i]
  <2>1. i = 1 \/ i = 2 \/ i = 3 \/ i = 4 \/ i = 5 \/ i = 6 \/ i = 7 \/ i = 8 \/ i = 9
    OBVIOUS
  <2>2. QED
    BY <1>1, <2>1
<1>4. QED
  BY <1>1, <1>2, <1>3

LEMMA TenIsPositive == ASSUME NEW i \in 1 .. 10 PROVE Tens[i] \in Nat \ {0}
  BY TensAre

LEMMA PlacesAre ==
    ASSUME NEW n \in Nat, n <= INT_MAX
    PROVE  /\ Places(n) \in 0 .. 10
           /\ Places(n) > 0 => n >= Tens[Places(n)]
           /\ Places(n) < 10 => n < Tens[Places(n) + 1]
<1> DEFINE ok(k) == (k > 0 => n >= Tens[k]) /\ (k < 10 => n < Tens[k + 1])
<1>1. \E k \in 0 .. 10 : ok(k)
  <2>1. ok(0) <=> n < 1
    BY TensAre
  <2>2. ok(1) <=> n >= 1 /\ n < 10
    BY TensAre
  <2>3. ok(2) <=> n >= 10 /\ n < 100
    BY TensAre
  <2>4. ok(3) <=> n >= 100 /\ n < 1000
    BY TensAre
  <2>5. ok(4) <=> n >= 1000 /\ n < 10000
    BY TensAre
  <2>6. ok(5) <=> n >= 10000 /\ n < 100000
    BY TensAre
  <2>7. ok(6) <=> n >= 100000 /\ n < 1000000
    BY TensAre
  <2>8. ok(7) <=> n >= 1000000 /\ n < 10000000
    BY TensAre
  <2>9. ok(8) <=> n >= 10000000 /\ n < 100000000
    BY TensAre
  <2>10. ok(9) <=> n >= 100000000 /\ n < 1000000000
    BY TensAre
  <2>11. ok(10) <=> n >= 1000000000
    BY TensAre
  <2> HIDE DEF ok
  <2>12. ok(0) \/ ok(1) \/ ok(2) \/ ok(3) \/ ok(4) \/ ok(5) \/ ok(6) \/ ok(7) \/ ok(8) \/ ok(9)
           \/ ok(10)
    BY <2>1, <2>2, <2>3, <2>4, <2>5, <2>6, <2>7, <2>8, <2>9, <2>10, <2>11
  <2>13. QED
    BY <2>12
<1>2. Places(n) = CHOOSE k \in 0 .. 10 : ok(k)
  BY DEF Places
<1> HIDE DEF ok
<1>3. Places(n) \in 0 .. 10 /\ ok(Places(n))
  BY <1>1, <1>2
<1>4. QED
  BY <1>3 DEF ok

LEMMA DigitsAre ==
    ASSUME NEW n \in Nat, NEW many \in 0 .. 10
    PROVE  /\ Digits(n, many) \in Seq(48 .. 57) /\ Len(Digits(n, many)) = many
           /\ \A i \in 1 .. many : Digits(n, many)[i] = 48 + ((n \div Tens[i]) % 10)
<1> DEFINE S == 48 .. 57  d(i) == 48 + ((n \div Tens[i]) % 10)
<1>1. \A i \in 1 .. many : d(i) \in S
  <2>1. \A i \in 1 .. many : Tens[i] \in Nat \ {0}
    BY TensAre
  <2>2. \A t \in Nat \ {0} : n \div t \in Nat
    OBVIOUS
  <2>3. \A m \in Nat : 48 + (m % 10) \in S
    OBVIOUS
  <2>4. QED
    BY <2>1, <2>2, <2>3
<1> HIDE DEF S, d
<1>2. [i \in 1 .. many |-> d(i)] \in [1 .. many -> S]
  BY <1>1
<1>3. [i \in 1 .. many |-> d(i)] \in Seq(S)
  BY <1>2, SeqDef
<1>4. Len([i \in 1 .. many |-> d(i)]) = many
  BY <1>2, <1>3, LenProperties
<1>5. Digits(n, many) = [i \in 1 .. many |-> d(i)]
  BY DEF Digits, d
<1>6. QED
  BY <1>3, <1>4, <1>5 DEF S, d

LEMMA ReverseIs ==
    ASSUME NEW S, NEW s \in Seq(S)
    PROVE  /\ Reverse(s) \in Seq(S) /\ Len(Reverse(s)) = Len(s)
           /\ \A i \in 1 .. Len(s) : Reverse(s)[i] = s[Len(s) - i + 1]
  BY DEF Reverse

(* The text of a number: the digits of its whole part, then a point and    *)
(* the digits of the fraction, each with the highest first.                *)
LEMMA NumTextIs ==
    ASSUME NEW n \in Nat, n <= INT_MAX, NEW fraction \in Nat, NEW digit \in 0 .. 9
    PROVE  LET text == NumText(n, fraction, digit)
               p == Places(n)
           IN  /\ text \in Seq(46 .. 57)
               /\ Len(text) = p + (IF digit = 0 THEN 0 ELSE digit + 1)
               /\ \A i \in 1 .. p : text[i] = 48 + ((n \div Tens[p - i + 1]) % 10)
               /\ digit > 0 => \A i \in 1 .. digit :
                    text[p + 1 + i] = 48 + ((fraction \div Tens[digit - i + 1]) % 10)
<1> DEFINE text == NumText(n, fraction, digit)
           p == Places(n)
           S == 46 .. 57
           A == Digits(fraction, digit)  B == Digits(n, p)
           dot == <<46>>
           R == (IF digit > 0 THEN A \o dot ELSE <<>>) \o B
<1>1. p \in 0 .. 10
  BY PlacesAre
<1>2. /\ A \in Seq(S) /\ Len(A) = digit
      /\ \A i \in 1 .. digit : A[i] = 48 + ((fraction \div Tens[i]) % 10)
  <2>1. digit \in 0 .. 10 /\ 48 .. 57 \subseteq S
    OBVIOUS
  <2>2. /\ A \in Seq(48 .. 57) /\ Len(A) = digit
        /\ \A i \in 1 .. digit : A[i] = 48 + ((fraction \div Tens[i]) % 10)
    BY <2>1, DigitsAre, Zenon
  <2> HIDE DEF S, A
  <2>3. QED
    BY <2>1, <2>2, SeqMonotonic, Zenon
<1>3. /\ B \in Seq(S) /\ Len(B) = p
      /\ \A i \in 1 .. p : B[i] = 48 + ((n \div Tens[i]) % 10)
  <2>1. 48 .. 57 \subseteq S
    OBVIOUS
  <2> HIDE DEF p
  <2>2. /\ B \in Seq(48 .. 57) /\ Len(B) = p
        /\ \A i \in 1 .. p : B[i] = 48 + ((n \div Tens[i]) % 10)
    BY <1>1, DigitsAre, Zenon
  <2> HIDE DEF S, B
  <2>3. QED
    BY <2>1, <2>2, SeqMonotonic, Zenon
<1>4. dot \in Seq(S) /\ Len(dot) = 1
  OBVIOUS
<1>5. text = Reverse(R)
  BY DEF NumText
<1> HIDE DEF text, p, S, A, B, dot
<1>6. CASE digit = 0
  <2>1. R = B
    <3>1. <<>> \o B = B
      BY <1>3, ConcatEmptySeq
    <3>2. QED
      BY <1>6, <3>1
  <2> HIDE DEF R
  <2>2. text \in Seq(S) /\ Len(text) = p /\ \A i \in 1 .. p : text[i] = B[p - i + 1]
    BY <1>3, <1>5, <2>1, ReverseIs
  <2>3. \A i \in 1 .. p : p - i + 1 \in 1 .. p
    BY <1>1
  <2>4. \A i \in 1 .. p : text[i] = 48 + ((n \div Tens[p - i + 1]) % 10)
    BY <1>3, <2>2, <2>3, Zenon
  <2>5. QED
    BY <1>1, <1>6, <2>2, <2>4 DEF text, p, S
<1>7. CASE digit > 0
  <2> DEFINE C == A \o dot
  <2>1. /\ C \in Seq(S) /\ Len(C) = digit + 1
        /\ \A i \in 1 .. digit : C[i] = A[i]
    <3>1. /\ A \o dot \in Seq(S) /\ Len(A \o dot) = Len(A) + Len(dot)
          /\ \A i \in 1 .. Len(A) + Len(dot) :
                (A \o dot)[i] = IF i <= Len(A) THEN A[i] ELSE dot[i - Len(A)]
      BY <1>2, <1>4, ConcatProperties, Zenon
    <3> HIDE DEF C
    <3>2. /\ C \in Seq(S) /\ Len(C) = digit + 1
          /\ \A i \in 1 .. digit + 1 : C[i] = IF i <= digit THEN A[i] ELSE dot[i - digit]
      BY <1>2, <1>4, <3>1 DEF C
    <3>3. QED
      BY <3>2
  <2>2. R = C \o B
    BY <1>7
  <2> HIDE DEF C, R
  <2> DEFINE m == digit + 1 + p
  <2>3. /\ R \in Seq(S) /\ Len(R) = m
        /\ \A i \in 1 .. m : R[i] = IF i <= digit + 1 THEN C[i] ELSE B[i - (digit + 1)]
    BY <1>1, <1>3, <2>1, <2>2, ConcatProperties
  <2>4. text \in Seq(S) /\ Len(text) = m /\ \A i \in 1 .. m : text[i] = R[m - i + 1]
    BY <1>5, <2>3, ReverseIs
  <2>5. ASSUME NEW i \in 1 .. p
        PROVE  text[i] = 48 + ((n \div Tens[p - i + 1]) % 10)
    <3> DEFINE j == m - i + 1
    <3>1. /\ i \in 1 .. m /\ j \in 1 .. m /\ ~(j <= digit + 1) /\ j - (digit + 1) = p - i + 1
          /\ p - i + 1 \in 1 .. p
      BY <1>1
    <3> HIDE DEF m
    <3>2. text[i] = R[j]
      BY <2>4, <3>1
    <3> HIDE DEF j
    <3>3. R[j] = B[p - i + 1]
      BY <2>3, <3>1
    <3>4. QED
      BY <1>3, <3>1, <3>2, <3>3
  <2>6. ASSUME NEW i \in 1 .. digit
        PROVE  text[p + 1 + i] = 48 + ((fraction \div Tens[digit - i + 1]) % 10)
    <3> DEFINE j == digit - i + 1  k == p + 1 + i
    <3>1. k \in 1 .. m /\ m - k + 1 = j /\ j \in 1 .. digit /\ j \in 1 .. m /\ j <= digit + 1
      BY <1>1
    <3> HIDE DEF m, k
    <3>2. text[k] = R[m - k + 1]
      BY <2>4, <3>1
    <3> HIDE DEF j
    <3>3. R[j] = A[j]
      BY <2>1, <2>3, <3>1
    <3>4. text[k] = 48 + ((fraction \div Tens[j]) % 10)
      BY <1>2, <3>1, <3>2, <3>3
    <3>5. QED
      BY <3>4 DEF j, k
  <2>7. Len(text) = p + (IF digit = 0 THEN 0 ELSE digit + 1)
    BY <1>1, <1>7, <2>4
  <2>8. QED
    BY <2>4, <2>5, <2>6, <2>7 DEF text, p, S
<1>8. QED
  BY <1>6, <1>7

LEMMA NumberIsText ==
    ASSUME NEW n \in Nat, n <= INT_MAX, NEW fraction \in Nat, NEW digit \in 0 .. 9
    PROVE  NumText(n, fraction, digit) \in Seq(32 .. 126)
<1> DEFINE t == NumText(n, fraction, digit)
<1>1. t \in Seq(46 .. 57)
  BY NumTextIs, Zenon
<1>2. 46 .. 57 \subseteq 32 .. 126
  OBVIOUS
<1> HIDE DEF t
<1>3. t \in Seq(32 .. 126)
  BY <1>1, <1>2, SeqMonotonic
<1>4. QED
  BY <1>3 DEF t

(* Reading digits back.                                                    *)
LEMMA TenthDown ==
    ASSUME NEW m \in Nat, NEW i \in 1 .. 9
    PROVE  m \div Tens[i + 1] = (m \div Tens[i]) \div 10
<1>1. i = 1 \/ i = 2 \/ i = 3 \/ i = 4 \/ i = 5 \/ i = 6 \/ i = 7 \/ i = 8 \/ i = 9
  OBVIOUS
<1>2. CASE i = 1
  BY <1>2, TensAre
<1>3. CASE i = 2
  BY <1>3, TensAre
<1>4. CASE i = 3
  BY <1>4, TensAre
<1>5. CASE i = 4
  BY <1>5, TensAre
<1>6. CASE i = 5
  BY <1>6, TensAre
<1>7. CASE i = 6
  BY <1>7, TensAre
<1>8. CASE i = 7
  BY <1>8, TensAre
<1>9. CASE i = 8
  BY <1>9, TensAre
<1>10. CASE i = 9
  BY <1>10, TensAre
<1>11. QED
  BY <1>1, <1>2, <1>3, <1>4, <1>5, <1>6, <1>7, <1>8, <1>9, <1>10

LEMMA FirstDigit ==
    ASSUME NEW m \in Nat, m <= INT_MAX, NEW p \in 1 .. 10, p < 10 => m < Tens[p + 1]
    PROVE  m \div Tens[p] < 10
<1>1. CASE p = 10
  BY <1>1, TensAre DEF INT_MAX
<1>2. CASE p \in 1 .. 9
  <2>1. /\ Tens[p] \in Nat \ {0} /\ Tens[p + 1] = 10 * Tens[p] /\ m < Tens[p + 1]
    BY <1>2, TensAre
  <2>2. m \div Tens[p + 1] = (m \div Tens[p]) \div 10
    BY <1>2, TenthDown
  <2>3. m \div Tens[p + 1] = 0
    <3> DEFINE t == Tens[p + 1]
    <3>1. t \in Nat \ {0} /\ m < t
      BY <2>1
    <3> HIDE DEF t
    <3>2. m \div t = 0
      BY <3>1
    <3>3. QED
      BY <3>2 DEF t
  <2>4. m \div Tens[p] \in Nat
    BY <2>1
  <2>5. QED
    BY <2>2, <2>3, <2>4
<1>3. QED
  BY <1>1, <1>2

LEMMA ValueIs ==
    ASSUME NEW m \in Nat, m <= INT_MAX, NEW p \in 0 .. 10, p < 10 => m < Tens[p + 1],
           NEW digits, Len(digits) = p,
           \A i \in 1 .. p : digits[i] = 48 + ((m \div Tens[p - i + 1]) % 10)
    PROVE  Value(digits) = m
<1> DEFINE step(u, i) == IF i = 0 THEN 0 ELSE 10 * u[i - 1] + digits[i] - 48
           v == CHOOSE u : u = [i \in 0 .. p |-> step(u, i)]
           w == [i \in 0 .. p |-> IF i = 0 THEN 0 ELSE m \div Tens[p - i + 1]]
<1>1. Value(digits) = v[p]
  BY DEF Value
<1>2. ASSUME NEW i \in 1 .. p
      PROVE  w[i] = 10 * w[i - 1] + digits[i] - 48
  <2> DEFINE k == p - i + 1  x == m \div Tens[k]
  <2>1. k \in 1 .. p /\ k \in 1 .. 10 /\ i \in 0 .. p /\ i # 0 /\ i - 1 \in 0 .. p
    OBVIOUS
  <2>2. w[i] = x /\ digits[i] = 48 + (x % 10)
    BY <2>1
  <2>3. x \in Nat
    <3> HIDE DEF k
    <3>1. k \in 1 .. 10
      BY <2>1
    <3>2. Tens[k] \in Nat \ {0}
      BY <3>1, TenIsPositive, Zenon
    <3>3. QED
      BY <3>2
  <2>4. w[i - 1] = x \div 10
    <3>1. CASE i = 1
      <4>1. k = p /\ p \in 1 .. 10 /\ w[i - 1] = 0
        BY <2>1, <3>1
      <4>2. x < 10
        <5>1. m \div Tens[p] < 10
          BY <4>1, FirstDigit
        <5>2. QED
          BY <4>1, <5>1
      <4> HIDE DEF x, w
      <4>3. x \div 10 = 0
        BY <2>3, <4>2
      <4>4. QED
        BY <4>1, <4>3
    <3>2. CASE i > 1
      <4>1. k \in 1 .. 9 /\ p - (i - 1) + 1 = k + 1 /\ i - 1 # 0
        BY <2>1, <3>2
      <4>2. w[i - 1] = m \div Tens[p - (i - 1) + 1]
        BY <2>1, <4>1
      <4> HIDE DEF w, k
      <4>3. m \div Tens[k + 1] = (m \div Tens[k]) \div 10
        BY <4>1, TenthDown, Zenon
      <4>4. QED
        BY <4>1, <4>2, <4>3
    <3>3. QED
      BY <2>1, <3>1, <3>2
  <2> HIDE DEF w, x
  <2>5. QED
    BY <2>2, <2>3, <2>4
<1>3. w[0] = 0 /\ w[p] = m
  <2>1. p > 0 => m \div Tens[p - p + 1] = m
    <3>1. p - p + 1 = 1 /\ Tens[1] = 1
      BY TensAre
    <3>2. m \div 1 = m
      OBVIOUS
    <3>3. QED
      BY <3>1, <3>2
  <2>2. p = 0 => m = 0
    <3>1. p = 0 => m < Tens[1]
      OBVIOUS
    <3>2. QED
      BY <3>1, TensAre
  <2>3. 0 \in 0 .. p /\ p \in 0 .. p
    OBVIOUS
  <2>4. QED
    BY <2>1, <2>2, <2>3
<1>4. w = [i \in 0 .. p |-> step(w, i)]
  <2>1. w = [i \in 0 .. p |-> w[i]]
    OBVIOUS
  <2>2. \A i \in 0 .. p : w[i] = step(w, i)
    <3> HIDE DEF w
    <3>1. \A i \in 0 .. p : i = 0 \/ i \in 1 .. p
      OBVIOUS
    <3>2. QED
      BY <1>2, <1>3, <3>1, Zenon
  <2> HIDE DEF w, step
  <2>3. QED
    BY <2>1, <2>2
<1>5. v = [i \in 0 .. p |-> step(v, i)]
  <2> HIDE DEF w
  <2>1. QED
    BY <1>4, Zenon
<1>6. v[0] = 0 /\ \A i \in 1 .. p : v[i] = 10 * v[i - 1] + digits[i] - 48
  <2> HIDE DEF v
  <2>1. \A i \in 0 .. p : v[i] = step(v, i)
    BY <1>5
  <2>2. 0 \in 0 .. p /\ \A i \in 1 .. p : i \in 0 .. p /\ i # 0
    OBVIOUS
  <2>3. QED
    BY <2>1, <2>2
<1> HIDE DEF v, w
<1>7. \A i \in 1 .. p : v[i - 1] = w[i - 1] => v[i] = w[i]
  BY <1>2, <1>6
<1> DEFINE Same(i) == i <= p => v[i] = w[i]
<1>8. Same(0)
  BY <1>3, <1>6
<1>9. \A i \in 1 .. 10 : Same(i - 1) => Same(i)
  BY <1>7
<1> HIDE DEF Same
<1>10. Same(1) /\ Same(2) /\ Same(3)
  <2>1. Same(1)
    BY <1>8, <1>9
  <2>2. Same(2)
    BY <1>9, <2>1
  <2>3. QED
    BY <1>9, <2>1, <2>2
<1>11. Same(4) /\ Same(5) /\ Same(6)
  <2>1. Same(4)
    BY <1>9, <1>10
  <2>2. Same(5)
    BY <1>9, <2>1
  <2>3. QED
    BY <1>9, <2>1, <2>2
<1>12. Same(7) /\ Same(8) /\ Same(9)
  <2>1. Same(7)
    BY <1>9, <1>11
  <2>2. Same(8)
    BY <1>9, <2>1
  <2>3. QED
    BY <1>9, <2>1, <2>2
<1>13. Same(10)
  BY <1>9, <1>12
<1>14. Same(p)
  <2>1. p = 0 \/ p = 1 \/ p = 2 \/ p = 3 \/ p = 4 \/ p = 5 \/ p = 6 \/ p = 7 \/ p = 8 \/ p = 9
          \/ p = 10
    OBVIOUS
  <2>2. QED
    BY <1>8, <1>10, <1>11, <1>12, <1>13, <2>1, Zenon
<1>15. QED
  BY <1>1, <1>3, <1>14 DEF Same

(* A number reads back as what it was, and so does its fraction.           *)
LEMMA NumberIsShown ==
    ASSUME NEW n \in Nat, n <= INT_MAX, NEW fraction \in Nat, NEW digit \in 0 .. 9,
           fraction < Tens[digit + 1]
    PROVE  LET text == NumText(n, fraction, digit)
               m == Len(text)
           IN  IF digit = 0 THEN Value(text) = n
               ELSE /\ Value(SubSeq(text, 1, m - digit - 1)) = n
                    /\ Value(SubSeq(text, m - digit + 1, m)) = fraction
<1> DEFINE text == NumText(n, fraction, digit)  m == Len(text)  p == Places(n)
           front == SubSeq(text, 1, m - digit - 1)  behind == SubSeq(text, m - digit + 1, m)
<1>1. p \in 0 .. 10 /\ (p < 10 => n < Tens[p + 1])
  BY PlacesAre
<1>2. /\ text \in Seq(46 .. 57)
      /\ m = p + (IF digit = 0 THEN 0 ELSE digit + 1)
      /\ \A i \in 1 .. p : text[i] = 48 + ((n \div Tens[p - i + 1]) % 10)
      /\ digit > 0 => \A i \in 1 .. digit :
            text[p + 1 + i] = 48 + ((fraction \div Tens[digit - i + 1]) % 10)
  BY NumTextIs, Zenon
<1> HIDE DEF text, m, p
<1>3. CASE digit = 0
  <2>1. Len(text) = p
    BY <1>1, <1>2, <1>3 DEF m
  <2>2. Value(text) = n
    BY <1>1, <1>2, <2>1, ValueIs, Zenon
  <2>3. QED
    BY <1>3, <2>2 DEF text
<1>4. CASE digit # 0
  <2>1. digit \in 1 .. 9 /\ m = p + digit + 1
    <3>1. digit \in 1 .. 9
      BY <1>4
    <3>2. m = p + (digit + 1)
      BY <1>2, <1>4
    <3>3. QED
      BY <1>1, <3>1, <3>2
  <2>2. m - digit - 1 = p /\ m - digit + 1 = p + 2 /\ p + 2 + digit - 1 = m
    BY <1>1, <2>1
  <2>3. Len(front) = p /\ \A i \in 1 .. p : front[i] = text[i]
    <3> DEFINE C == 46 .. 57
    <3>1. text \in Seq(C) /\ Len(text) = m
      BY <1>2 DEF m
    <3> HIDE DEF C
    <3>2. front = SubSeq(text, 1, p)
      BY <2>2, Zenon
    <3>3. \A i \in 1 .. p : text[i] \in C
      BY <1>1, <2>1, <3>1
    <3>4. /\ Len(SubSeq(text, 1, p)) = (IF 1 <= p THEN p - 1 + 1 ELSE 0)
          /\ \A i \in 1 .. p - 1 + 1 : SubSeq(text, 1, p)[i] = text[1 + i - 1]
      BY <1>1, <3>3, SubSeqProperties
    <3>5. p - 1 + 1 = p /\ (1 <= p \/ p = 0) /\ \A i \in 1 .. p : 1 + i - 1 = i
      BY <1>1
    <3>6. QED
      BY <3>2, <3>4, <3>5, Zenon
  <2>4. Len(behind) = digit /\ \A i \in 1 .. digit : behind[i] = text[p + 1 + i]
    <3> DEFINE C == 46 .. 57
    <3>1. text \in Seq(C) /\ Len(text) = m
      BY <1>2 DEF m
    <3> HIDE DEF C
    <3>2. behind = SubSeq(text, p + 2, m)
      BY <2>2, Zenon
    <3>3. /\ p + 2 \in Int /\ m \in Int /\ p + 2 <= m
          /\ \A i \in p + 2 .. m : text[i] \in C
      BY <1>1, <2>1, <3>1
    <3>4. /\ Len(SubSeq(text, p + 2, m)) = m - (p + 2) + 1
          /\ \A i \in 1 .. m - (p + 2) + 1 : SubSeq(text, p + 2, m)[i] = text[p + 2 + i - 1]
      BY <1>1, <3>3, SubSeqProperties
    <3>5. m - (p + 2) + 1 = digit /\ \A i \in 1 .. digit : p + 2 + i - 1 = p + 1 + i
      BY <1>1, <2>1
    <3>6. QED
      BY <3>2, <3>4, <3>5, Zenon
  <2> HIDE DEF front, behind
  <2>5. Value(front) = n
    <3>1. \A i \in 1 .. p : front[i] = 48 + ((n \div Tens[p - i + 1]) % 10)
      BY <1>2, <2>3
    <3>2. QED
      BY <1>1, <2>3, <3>1, ValueIs, Zenon
  <2>6. Value(behind) = fraction
    <3>1. \A i \in 1 .. digit : behind[i] = 48 + ((fraction \div Tens[digit - i + 1]) % 10)
      BY <1>2, <2>1, <2>4
    <3>2. digit \in 0 .. 10 /\ (digit < 10 => fraction < Tens[digit + 1])
      OBVIOUS
    <3>3. fraction <= INT_MAX
      <4>1. \A i \in 1 .. 10 : Tens[i] <= INT_MAX
        <5>1. SUFFICES ASSUME NEW i \in 1 .. 10
                       PROVE  Tens[i] <= INT_MAX
          OBVIOUS
        <5>2. i = 1 \/ i = 2 \/ i = 3 \/ i = 4 \/ i = 5 \/ i = 6 \/ i = 7 \/ i = 8 \/ i = 9
                \/ i = 10
          OBVIOUS
        <5>3. QED
          BY <5>2, TensAre DEF INT_MAX
      <4>2. digit + 1 \in 1 .. 10 /\ Tens[digit + 1] \in Nat
        BY TensAre
      <4>3. INT_MAX \in Nat
        BY DEF INT_MAX
      <4>4. QED
        BY <4>1, <4>2, <4>3
    <3>4. QED
      BY <2>4, <3>1, <3>2, <3>3, ValueIs, Zenon
  <2>7. QED
    BY <1>4, <2>5, <2>6 DEF front, behind, text, m
<1>5. QED
  BY <1>3, <1>4
-----------------------------------------------------------------------------
(* The glyphs.  Frames to be drawn from the tables of their fonts.         *)
Listed(s) == Frames(s) /\ \A i \in DOMAIN s : InTable(s[i])

LEMMA ListedNone == Listed(<<>>)
<1>1. DOMAIN <<>> = {}
  OBVIOUS
<1>2. QED
  BY <1>1, NoFrames DEF Listed

LEMMA ListedOne == ASSUME NEW g, Frame(g), InTable(g) PROVE Listed(<<g>>)
<1>1. Frames(<<g>>)
  BY OneFrame
<1>2. \A i \in DOMAIN <<g>> : <<g>>[i] = g
  OBVIOUS
<1>3. QED
  BY <1>1, <1>2 DEF Listed

LEMMA ListedBoth == ASSUME NEW s, NEW t, Listed(s), Listed(t) PROVE Listed(s \o t)
<1>1. Frames(s) /\ Frames(t) /\ Frames(s \o t)
  BY MoreFrames DEF Listed
<1>2. ASSUME NEW i \in DOMAIN (s \o t)
      PROVE  InTable((s \o t)[i])
  BY <1>1, <1>2, ElementsOfBoth DEF Listed
<1>3. QED
  BY <1>1, <1>2 DEF Listed

LEMMA ListedAfter ==
    ASSUME PaintInv, GlyphInv, todo # <<>>, NEW s, Listed(s), Steps(s)
    PROVE  GlyphInv'
<1>1. Frames(todo) /\ s \in Seq({s[j] : j \in DOMAIN s})
  BY DEF PaintInv, Listed, Frames
<1>2. ASSUME NEW i \in DOMAIN todo'
      PROVE  InTable(todo'[i])
  BY <1>1, <1>2, StepElements DEF GlyphInv, Listed
<1>3. QED
  BY <1>2 DEF GlyphInv

LEMMA OneListedAfter ==
    ASSUME PaintInv, GlyphInv, todo # <<>>, NEW g, InTable(g), Steps(<<g>>)
    PROVE  GlyphInv'
<1>1. <<g>> \in Seq({<<g>>[j] : j \in DOMAIN <<g>>}) /\ \A j \in DOMAIN <<g>> : <<g>>[j] = g
  OBVIOUS
<1>2. ASSUME NEW i \in DOMAIN todo'
      PROVE  InTable(todo'[i])
  <2> DEFINE s == <<g>>
  <2>1. s \in Seq({s[j] : j \in DOMAIN s}) /\ \A j \in DOMAIN s : s[j] = g
    BY <1>1
  <2>2. Steps(s)
    OBVIOUS
  <2> HIDE DEF s
  <2>3. QED
    BY <1>2, <2>1, <2>2, StepElements DEF GlyphInv, PaintInv
<1>3. QED
  BY <1>2 DEF GlyphInv

LEMMA InHand == ASSUME PaintInv, GlyphInv, todo # <<>> PROVE Frame(f) /\ InTable(f)
<1> DEFINE S == {todo[i] : i \in DOMAIN todo}
<1>1. todo \in Seq(S)
  BY DEF PaintInv, Frames
<1>2. \A g \in S : InTable(g)
  BY DEF GlyphInv
<1> HIDE DEF S
<1>3. f \in S
  BY <1>1, HeadTailProperties DEF f
<1>4. QED
  BY <1>2, <1>3, FrameInHand DEF PaintInv

(* What is no glyph and no text has no table.                              *)
LEMMA ListedLines ==
    ASSUME NEW x \in Int, NEW y \in Int, NEW xe \in Int, NEW ye \in Int, NEW size \in Int
    PROVE  InTable(Line(x, y, xe, ye, size)) /\ Listed(DrawLine(x, y, xe, ye, size))
<1>1. InTable(Line(x, y, xe, ye, size))
  BY DEF InTable, Line
<1>2. Frame(Line(x, y, xe, ye, size))
  BY LineFrame
<1>3. QED
  BY <1>1, <1>2, ListedOne, ListedNone DEF DrawLine

LEMMA ListedRectangle ==
    ASSUME NEW x \in Int, NEW y \in Int, NEW xe \in Int, NEW ye \in Int, NEW size \in Int,
           NEW fill \in BOOLEAN
    PROVE  Listed(DrawRectangle(x, y, xe, ye, size, fill))
<1>1. Frames(DrawRectangle(x, y, xe, ye, size, fill))
  BY RectangleFrames
<1> DEFINE m == Upper(0, ye - y)
           rows == [n \in 1 .. m |-> Line(x, y + n - 1, xe, y + n - 1, size)]
           four == DrawLine(x, y, xe, y, size) \o DrawLine(x, y, x, ye, size)
                     \o DrawLine(xe, ye, xe, y, size) \o DrawLine(xe, ye, x, ye, size)
<1>2. ASSUME NEW i \in DOMAIN rows
      PROVE  InTable(rows[i])
  <2>1. m \in Int
    BY DEF Upper
  <2>2. i \in Int /\ rows[i] = Line(x, y + i - 1, xe, y + i - 1, size)
    BY <1>2, <2>1
  <2>3. y + i - 1 \in Int
    BY <2>2
  <2>4. InTable(Line(x, y + i - 1, xe, y + i - 1, size))
    BY <2>3, ListedLines
  <2>5. QED
    BY <2>2, <2>4
<1>3. Listed(four)
  BY ListedLines, ListedBoth
<1> HIDE DEF rows, four
<1>4. DrawRectangle(x, y, xe, ye, size, fill) \in {<<>>, rows, four}
  BY DEF DrawRectangle, rows, four
<1>5. QED
  BY <1>1, <1>2, <1>3, <1>4, ListedNone DEF Listed

(* A glyph, a character and a time are read from their font.               *)
LEMMA SizesOfFonts ==
    ASSUME NEW font \in SFonts \cup CFonts
    PROVE  font.Height \in Nat \ {0} /\ RowOf(font) \in Nat
  BY FontSizes, ChineseSizes

LEMMA ChineseFits ==
    ASSUME NEW font \in CFonts
    PROVE  /\ font.Height * RowBytes(font) <= CH_CN /\ CH_CN \in Nat
           /\ font.Height \in Nat /\ RowBytes(font) \in Nat
  BY ChineseSizes

LEMMA ListedGlyph ==
    ASSUME NEW x \in Int, NEW y \in Int, NEW font \in SFonts \cup CFonts, NEW first \in Int,
           NEW last \in Int, NEW turned \in BOOLEAN,
           first + font.Height * RowBytes(font) - 1 <= last,
           turned => 0 <= first /\ last < font.table
    PROVE  Listed(Glyph(x, y, font, first, last, turned))
<1> DEFINE g == [op |-> "glyph", x |-> x, y |-> y, font |-> font, row |-> 0, ptr |-> first,
                 first |-> first, last |-> last, turned |-> turned]
<1>1. Frame(g)
  BY DEF Frame
<1>2. font.Height \in Nat \ {0} /\ RowOf(font) \in Nat
  BY SizesOfFonts
<1>3. /\ g.op = "glyph" /\ g.font = font /\ g.row = 0 /\ g.ptr = first /\ g.first = first
      /\ g.last = last /\ g.turned = turned
  OBVIOUS
<1> HIDE DEF g
<1>4. g.row \in 0 .. g.font.Height - 1 /\ g.ptr = g.first + g.row * RowOf(g.font)
  BY <1>2, <1>3
<1>5. InTable(g)
  BY <1>3, <1>4 DEF InTable
<1>6. Listed(<<g>>)
  BY <1>1, <1>5, ListedOne
<1>7. QED
  BY <1>6 DEF Glyph, g

LEMMA ListedChar ==
    ASSUME NEW x \in Int, NEW y \in Int, NEW char \in 32 .. 126, NEW font \in SFonts
    PROVE  Listed(DrawChar(x, y, char, font))
<1> DEFINE n == font.Height * RowBytes(font)
           offset == (char - 32) * font.Height * RowBytes(font)
<1>1. /\ font.Height \in Nat /\ RowBytes(font) \in Nat /\ font.table \in Nat
      /\ n \in Nat /\ 95 * n <= font.table
  BY FontSizes
<1>2. offset = (char - 32) * n
  BY <1>1
<1>3. offset \in Nat /\ offset + n - 1 < font.table
  <2> HIDE DEF n, offset
  <2>1. \A k \in 0 .. 94 : k * n >= 0 /\ k * n + n <= 95 * n /\ k * n \in Int
    BY <1>1
  <2>2. char - 32 \in 0 .. 94
    OBVIOUS
  <2>3. QED
    BY <1>1, <1>2, <2>1, <2>2
<1> DEFINE last == offset + n - 1
<1>4. /\ offset \in Int /\ 0 <= offset /\ last \in Int /\ last < font.table
      /\ offset + font.Height * RowBytes(font) - 1 <= last
  <2>1. offset + font.Height * RowBytes(font) - 1 = last
    <3> HIDE DEF offset
    <3>1. QED
      OBVIOUS
  <2> HIDE DEF n, offset
  <2>2. offset \in Int /\ 0 <= offset /\ last \in Int /\ last < font.table
    BY <1>1, <1>3
  <2> HIDE DEF last
  <2>3. QED
    BY <1>1, <2>1, <2>2
<1>5. last = offset + font.Height * RowBytes(font) - 1
  <2> HIDE DEF offset
  <2>1. QED
    OBVIOUS
<1> HIDE DEF n, offset, last
<1>6. Listed(Glyph(x, y, font, offset, last, TRUE))
  BY <1>4, ListedGlyph, Zenon
<1>7. DrawChar(x, y, char, font) \in {<<>>, Glyph(x, y, font, offset, last, TRUE)}
  BY <1>5 DEF DrawChar, offset
<1>8. QED
  BY <1>6, <1>7, ListedNone, Zenon

LEMMA ListedTime ==
    ASSUME NEW x \in Int, NEW y \in Int, NEW t, NEW font \in SFonts,
           t[1] \in Nat, t[2] \in Nat, t[3] \in Nat, t[1] < 60, t[2] < 60, t[3] < 60
    PROVE  Listed(DrawTime(x, y, t, font))
<1> DEFINE D == font.Width
           at == <<0, D, D + D \div 4 + D \div 2, 2 * D + D \div 2, 3 * D + D \div 2,
                   4 * D + D \div 2 - D \div 4, 5 * D, 6 * D>>
           char == <<48 + t[1] \div 10, 48 + (t[1] % 10), 58, 48 + t[2] \div 10,
                     48 + (t[2] % 10), 58, 48 + t[3] \div 10, 48 + (t[3] % 10)>>
           put(n) == DrawChar(x + at[n], y, char[n], font)
<1>1. D \in Nat
  BY FontSizes
<1>2. \A n \in 1 .. 8 : x + at[n] \in Int
  <2> HIDE DEF D
  <2>1. QED
    BY <1>1
<1>3. \A n \in 1 .. 8 : char[n] \in 32 .. 126
  <2>1. \A k \in Nat : k < 60 => 48 + k \div 10 \in 32 .. 126 /\ 48 + (k % 10) \in 32 .. 126
    OBVIOUS
  <2>2. QED
    BY <2>1
<1> HIDE DEF at, char
<1>4. \A n \in 1 .. 8 : Listed(put(n))
  BY <1>2, <1>3, ListedChar, Zenon
<1> HIDE DEF put
<1>5. Listed(put(1) \o put(2) \o put(3) \o put(4) \o put(5) \o put(6) \o put(7) \o put(8))
  BY <1>4, ListedBoth
<1>6. QED
  BY <1>5 DEF DrawTime, put, at, char

(* The steps of a glyph, of a string and of a Chinese text.                *)
LEMMA GlyphListed ==
    ASSUME PaintInv, GlyphInv, todo # <<>>, GlyphStep
    PROVE  GlyphInv'
<1> DEFINE row1 == f.row + 1
           ptr1 == f.ptr + RowOf(f.font)
           next == [f EXCEPT !.row = row1, !.ptr = ptr1]
           new == IF f.row + 1 = f.font.Height THEN <<>> ELSE <<next>>
<1>1. f.op = "glyph" /\ Steps(new)
  BY DEF GlyphStep
<1>2. f \in [op : {"glyph"}, x : Int, y : Int, font : {f.font}, row : Int, ptr : {f.ptr},
              first : {f.first}, last : {f.last}, turned : {f.turned}]
  BY <1>1, InHand DEF Frame
<1>3. /\ f.font \in SFonts \cup CFonts /\ f.row \in 0 .. f.font.Height - 1 /\ f.first \in Int
      /\ f.ptr = f.first + f.row * RowOf(f.font)
      /\ f.last \in Int /\ f.first + f.font.Height * RowBytes(f.font) - 1 <= f.last
      /\ f.turned => 0 <= f.first /\ f.last < f.font.table
  BY <1>1, InHand DEF InTable
<1>4. f.font.Height \in Nat /\ RowOf(f.font) \in Nat
  BY <1>3, SizesOfFonts
<1>5. row1 \in Int /\ ptr1 = f.first + row1 * RowOf(f.font)
  <2> DEFINE H == f.font.Height  k == RowOf(f.font)  F == f.first
  <2>1. /\ H \in Nat /\ k \in Nat /\ F \in Int /\ f.row \in Int
        /\ ptr1 = F + f.row * k + k /\ row1 = f.row + 1
    BY <1>3, <1>4
  <2> HIDE DEF H, k, F, row1, ptr1
  <2>2. row1 * k = f.row * k + k
    BY <2>1, OneMore
  <2>3. QED
    BY <2>1, <2>2 DEF k, F
<1>6. row1 = f.font.Height \/ row1 \in 0 .. f.font.Height - 1
  BY <1>3, <1>4
<1>7. new \in {<<>>, <<next>>} /\ (row1 = f.font.Height => new = <<>>)
  OBVIOUS
<1> HIDE DEF row1, ptr1
<1>8. /\ next.op = "glyph" /\ next.font = f.font /\ next.row = row1 /\ next.ptr = ptr1
      /\ next.first = f.first /\ next.last = f.last /\ next.turned = f.turned
      /\ next \in [op : {"glyph"}, x : Int, y : Int, font : {next.font}, row : Int,
                   ptr : {next.ptr}, first : {next.first}, last : {next.last},
                   turned : {next.turned}]
  BY <1>2, <1>5, Zenon
<1> HIDE DEF next, new
<1>9. Frame(next)
  BY <1>8 DEF Frame
<1>10. row1 # f.font.Height => InTable(next)
  BY <1>3, <1>5, <1>6, <1>8 DEF InTable
<1>11. Listed(new)
  BY <1>7, <1>9, <1>10, ListedOne, ListedNone
<1>12. QED
  BY <1>1, <1>11, ListedAfter

LEMMA StringListed ==
    ASSUME PaintInv, GlyphInv, todo # <<>>, StringStep
    PROVE  GlyphInv'
<1> DEFINE full == f.x + f.font.Width > Paint.Width
           y1   == IF full THEN f.y + f.font.Height ELSE f.y
           over == TooLow(y1, f.font)
           x    == IF full \/ over THEN f.x0 ELSE f.x
           y    == IF over THEN f.y0 ELSE y1
           y2   == y + f.font.Width
           rest == Tail(f.text)
           next == [f EXCEPT !.x = x, !.y = y2, !.text = rest]
           glyph == DrawChar(x, y, Head(f.text), f.font)
           new  == IF f.text = <<>> THEN <<>> ELSE glyph \o <<next>>
<1>1. f.op = "string" /\ Steps(new)
  BY DEF StringStep
<1>2. /\ f \in [op : {"string"}, x : Int, y : Int, x0 : Int, y0 : Int, text : {f.text},
                 font : {f.font}]
      /\ f.font.Width \in Int /\ f.font.Height \in Int
  BY <1>1, InHand DEF Frame
<1>3. f.font \in SFonts /\ f.text \in Seq(32 .. 126)
  BY <1>1, InHand DEF InTable
<1>4. x \in Int /\ y \in Int /\ y2 \in Int
  BY <1>2
<1>5. f.text # <<>> => Head(f.text) \in 32 .. 126 /\ rest \in Seq(32 .. 126)
  <2> DEFINE C == 32 .. 126
  <2>1. f.text \in Seq(C)
    BY <1>3
  <2> HIDE DEF C
  <2>2. f.text # <<>> => Head(f.text) \in C /\ Tail(f.text) \in Seq(C)
    BY <2>1, HeadTailProperties
  <2>3. QED
    BY <2>2 DEF C
<1> HIDE DEF x, y, y2, rest
<1>6. f.text # <<>> => Listed(glyph)
  BY <1>3, <1>4, <1>5, ListedChar, Zenon
<1>7. /\ next.op = "string" /\ next.font = f.font /\ next.text = rest
      /\ next \in [op : {"string"}, x : Int, y : Int, x0 : Int, y0 : Int, text : {next.text},
                   font : {next.font}]
  BY <1>2, <1>4, Zenon
<1> HIDE DEF next, glyph
<1>8. Frame(next)
  BY <1>2, <1>7 DEF Frame
<1>9. f.text # <<>> => InTable(next)
  BY <1>3, <1>5, <1>7 DEF InTable
<1>10. Listed(new)
  BY <1>6, <1>8, <1>9, ListedOne, ListedNone, ListedBoth
<1>11. QED
  BY <1>1, <1>10, ListedAfter

(* Behind a whole character is the beginning of another, or the end.       *)
LEMMA NextCharacter ==
    ASSUME NEW text, Complete(text), NEW i \in 1 .. Len(text), text[i] # "t"
    PROVE  /\ i + Stride(text[i]) \in 1 .. Len(text) + 1
           /\ i + Stride(text[i]) <= Len(text) => text[i + Stride(text[i])] # "t"
<1> DEFINE S == {"ascii", "Ascii", "lead", "other", "t"}  n == Len(text)
           opens(j) == text[j] \in {"lead", "other"}
<1>1. text \in Seq(S) /\ n \in Nat /\ DOMAIN text = 1 .. n
  BY LenProperties DEF Complete
<1>2. \A j \in 1 .. n :
         /\ opens(j) => j + 2 <= n
         /\ text[j] = "t" <=> \E k \in 1 .. j - 1 : opens(k) /\ k >= j - 2
  BY <1>1 DEF Complete
<1>3. \A j \in 1 .. n : text[j] \in S
  BY <1>1, ElementOfSeq
<1>4. \A j \in 1 .. n : text[j] = "t" => ~opens(j)
  OBVIOUS
<1>5. CASE opens(i)
  <2>1. Stride(text[i]) = 3
    BY <1>5 DEF Stride
  <2> HIDE DEF opens
  <2>2. i + 2 <= n
    BY <1>1, <1>2, <1>5
  <2>3. text[i + 1] = "t" /\ text[i + 2] = "t"
    <3>1. i + 1 \in 1 .. n /\ i \in 1 .. i + 1 - 1 /\ i >= i + 1 - 2
      BY <1>1, <2>2
    <3>2. i + 2 \in 1 .. n /\ i \in 1 .. i + 2 - 1 /\ i >= i + 2 - 2
      BY <1>1, <2>2
    <3>3. QED
      BY <1>2, <1>5, <3>1, <3>2
  <2>4. ~opens(i + 1) /\ ~opens(i + 2)
    BY <1>1, <1>4, <2>2, <2>3
  <2>5. i + 3 <= n => text[i + 3] # "t"
    <3>1. SUFFICES ASSUME i + 3 \in 1 .. n, text[i + 3] = "t"
                   PROVE  FALSE
      BY <1>1
    <3>2. PICK k \in 1 .. i + 3 - 1 : opens(k) /\ k >= i + 3 - 2
      BY <1>2, <3>1
    <3>3. k = i + 1 \/ k = i + 2
      BY <1>1, <3>2
    <3>4. QED
      BY <2>4, <3>2, <3>3
  <2>6. QED
    BY <1>1, <2>1, <2>2, <2>5
<1>6. CASE ~opens(i)
  <2>1. Stride(text[i]) = 1
    BY <1>3, <1>6 DEF Stride
  <2>2. i + 1 <= n => text[i + 1] # "t"
    <3> HIDE DEF opens
    <3>1. SUFFICES ASSUME i + 1 \in 1 .. n, text[i + 1] = "t"
                   PROVE  FALSE
      BY <1>1
    <3>2. PICK k \in 1 .. i + 1 - 1 : opens(k) /\ k >= i + 1 - 2
      BY <1>2, <3>1
    <3>3. k = i \/ k = i - 1
      BY <1>1, <3>2
    <3>4. k = i - 1 /\ k \in 1 .. i - 1 /\ k >= i - 2
      BY <1>1, <1>6, <3>2, <3>3
    <3>5. text[i] = "t"
      BY <1>1, <1>2, <3>2, <3>4
    <3>6. QED
      BY <3>5
  <2>3. QED
    BY <1>1, <2>1, <2>2
<1>7. QED
  BY <1>5, <1>6

LEMMA ChineseListed ==
    ASSUME PaintInv, GlyphInv, todo # <<>>, ChineseStep
    PROVE  GlyphInv'
<1> DEFINE byte == f.text[f.at]
           ascii == byte \in {"ascii", "Ascii"}
           x1 == f.x + IF ascii THEN f.font.ASCII_Width ELSE f.font.Width
           at1 == f.at + Stride(byte)
           next == [f EXCEPT !.at = at1, !.x = x1]
           glyph == IF byte \in {"ascii", "lead"}
                    THEN Glyph(U16(f.x), U16(f.y), f.font, 0, CH_CN - 1, FALSE) ELSE <<>>
           new == IF f.at > Len(f.text) THEN <<>> ELSE glyph \o <<next>>
<1>1. f.op = "cn" /\ Steps(new)
  BY Zenon DEF ChineseStep
<1>2. /\ f \in [op : {"cn"}, x : Int, y : Int, text : {f.text}, at : {f.at}, font : {f.font}]
      /\ f.font.Width \in Int /\ f.font.ASCII_Width \in Int
  BY <1>1, InHand DEF Frame
<1>3. /\ f.font \in CFonts /\ Complete(f.text) /\ f.at \in 1 .. Len(f.text) + 1
      /\ f.at <= Len(f.text) => f.text[f.at] # "t"
  BY <1>1, InHand DEF InTable
<1>4. Len(f.text) \in Nat
  BY <1>3, LenProperties DEF Complete
<1>5. x1 \in Int /\ U16(f.x) \in Int /\ U16(f.y) \in Int
  BY <1>2 DEF U16
<1>6. Listed(glyph)
  <2>1. Listed(Glyph(U16(f.x), U16(f.y), f.font, 0, CH_CN - 1, FALSE))
    <3>1. /\ f.font.Height * RowBytes(f.font) <= CH_CN /\ CH_CN \in Nat
          /\ f.font.Height \in Nat /\ RowBytes(f.font) \in Nat
      BY <1>3, ChineseFits
    <3> DEFINE n == f.font.Height * RowBytes(f.font)
    <3>2. n \in Nat
      BY <3>1
    <3>3. CH_CN - 1 \in Int /\ 0 + f.font.Height * RowBytes(f.font) - 1 <= CH_CN - 1
      <4> HIDE DEF n
      <4>1. 0 + n - 1 <= CH_CN - 1
        BY <3>1, <3>2 DEF n
      <4>2. QED
        BY <3>1, <4>1 DEF n
    <3>4. f.font \in SFonts \cup CFonts
      BY <1>3
    <3> DEFINE last == CH_CN - 1
    <3>5. last \in Int /\ 0 \in Int /\ 0 + f.font.Height * RowBytes(f.font) - 1 <= last
      BY <3>3
    <3> HIDE DEF last
    <3>6. Listed(Glyph(U16(f.x), U16(f.y), f.font, 0, last, FALSE))
      BY <1>5, <3>4, <3>5, ListedGlyph, Zenon
    <3>7. QED
      BY <3>6, Zenon DEF last
  <2>2. QED
    BY <2>1, ListedNone, Zenon
<1>7. f.at <= Len(f.text) =>
        /\ at1 \in 1 .. Len(f.text) + 1
        /\ at1 <= Len(f.text) => f.text[at1] # "t"
  BY <1>3, <1>4, NextCharacter
<1> HIDE DEF x1, at1, glyph
<1>8. /\ next.op = "cn" /\ next.font = f.font /\ next.text = f.text /\ next.at = at1
      /\ next \in [op : {"cn"}, x : Int, y : Int, text : {next.text}, at : {next.at},
                   font : {next.font}]
  BY <1>2, <1>5, Zenon
<1> HIDE DEF next
<1>9. Frame(next)
  BY <1>2, <1>8 DEF Frame
<1>10. f.at <= Len(f.text) => InTable(next)
  BY <1>3, <1>7, <1>8 DEF InTable
<1>11. Listed(new)
  <2>1. CASE f.at > Len(f.text)
    BY <2>1, ListedNone
  <2>2. CASE ~(f.at > Len(f.text))
    <3>1. f.at <= Len(f.text)
      BY <1>3, <1>4, <2>2
    <3>2. Listed(glyph \o <<next>>)
      BY <1>6, <1>9, <1>10, <3>1, ListedOne, ListedBoth
    <3>3. QED
      BY <2>2, <3>2
  <2>3. QED
    BY <2>1, <2>2
<1>12. QED
  BY <1>1, <1>11, ListedAfter

(* The texts: a string, Chinese text and a number, whose digits are        *)
(* characters of the font.                                                 *)
LEMMA FontIsSized ==
    ASSUME NEW font \in SFonts
    PROVE  font.Width \in Nat /\ font.Height \in Nat /\ font.Width <= font.Height
  BY FontSizes

LEMMA GlyphIsWide ==
    ASSUME NEW font \in SFonts
    PROVE  font.Width \in Int /\ font.Width >= 1 /\ font.Height \in Int /\ font.Height >= 1
  BY FontSizes

LEMMA ListedString ==
    ASSUME NEW x \in Int, NEW y \in Int, NEW text \in Seq(32 .. 126), NEW font \in SFonts
    PROVE  Listed(DrawString_EN(x, y, text, font))
<1> DEFINE g == [op |-> "string", x |-> x, y |-> y, x0 |-> x, y0 |-> y, text |-> text,
                 font |-> font]
<1>1. font.Width \in Int /\ font.Height \in Int
  BY FontIsSized
<1>2. Frame(g)
  BY <1>1 DEF Frame
<1>3. g.op = "string" /\ g.font = font /\ g.text = text
  OBVIOUS
<1> HIDE DEF g
<1>4. InTable(g)
  BY <1>3 DEF InTable
<1>5. QED
  BY <1>2, <1>4, ListedOne, ListedNone DEF DrawString_EN, g

LEMMA ListedChinese ==
    ASSUME NEW x \in Int, NEW y \in Int, NEW text, Complete(text), NEW font \in CFonts
    PROVE  Listed(DrawString_CN(x, y, text, font))
<1> DEFINE g == [op |-> "cn", x |-> x, y |-> y, text |-> text, at |-> 1, font |-> font]
<1>1. font.Width \in Int /\ font.ASCII_Width \in Int
  BY ChineseSizes
<1>2. Frame(g)
  BY <1>1 DEF Frame
<1>3. g.op = "cn" /\ g.font = font /\ g.text = text /\ g.at = 1
  OBVIOUS
<1>4. Len(text) \in Nat /\ (1 <= Len(text) => text[1] # "t")
  BY LenProperties DEF Complete
<1> HIDE DEF g
<1>5. InTable(g)
  BY <1>3, <1>4 DEF InTable
<1>6. QED
  BY <1>2, <1>5, ListedOne DEF DrawString_CN, g

LEMMA ListedNumber ==
    ASSUME NEW x \in Int, NEW y \in Int, NEW n \in Nat, NEW fraction \in Nat, NEW digit \in 0 .. 9,
           n <= INT_MAX, NEW font \in SFonts
    PROVE  Listed(DrawNum(x, y, n, fraction, digit, font))
  BY ListedString, NumberIsText, Zenon DEF DrawNum

LEMMA RowsInBytes ==
    ASSUME NEW font \in SFonts \cup CFonts
    PROVE  /\ RowOf(font) = RowBytes(font) /\ RowBytes(font) \in Nat /\ font.Height \in Nat
           /\ (font.Width - 1) \div 8 = RowBytes(font) - 1
<1>1. RowOf(font) = RowBytes(font) /\ RowBytes(font) \in Nat /\ font.Height \in Nat
  BY FontSizes, ChineseSizes
<1>2. font.Width \in Nat
  BY FontSizes, ChineseSizes
<1>3. (font.Width - 1) \div 8 = RowBytes(font) - 1
  BY <1>2 DEF RowBytes
<1>4. QED
  BY <1>1, <1>3

(* Whatever is called, and at every step.                                  *)
LEMMA GlyphHolds ==
    ASSUME PaintInv, Settled, GlyphInv, [PaintNext]_paintvars
    PROVE  GlyphInv'
<1>1. CASE Draws
  <2>1. todo # <<>>
    BY <1>1 DEF Draws
  <2>2. ASSUME Steps(<<>>)
        PROVE  GlyphInv'
    BY <2>1, <2>2, ListedAfter, ListedNone
  <2>3. CASE LineStep
    <3> DEFINE goX == 2 * f.Esp >= f.dy
               e1  == f.Esp + (IF goX THEN f.dy ELSE 0)
               goY == 2 * e1 <= f.dx
               sx  == IF goX THEN f.XAddway ELSE 0
               sy  == IF goY THEN f.YAddway ELSE 0
               e2  == e1 + (IF goY THEN f.dx ELSE 0)
               g   == [f EXCEPT !.x = @ + sx, !.y = @ + sy, !.Esp = e2]
    <3>1. /\ f.op = "line"
          /\ Steps(IF (goX /\ f.x = f.xe) \/ (goY /\ f.y = f.ye) THEN <<>> ELSE <<g>>)
      BY <2>3 DEF LineStep
    <3>2. f \in [op : {"line"}, x : Int, y : Int, xe : Int, ye : Int, size : Int, dx : Int,
                 dy : Int, Esp : Int, XAddway : Int, YAddway : Int]
      BY <2>1, <3>1, InHand DEF Frame
    <3> HIDE DEF goX, goY, sx, sy, e2
    <3>3. g.op = "line"
      BY <3>2
    <3> HIDE DEF g
    <3>4. InTable(g)
      BY <3>3 DEF InTable
    <3>5. QED
      BY <2>1, <2>2, <3>1, <3>4, OneListedAfter
  <2>4. CASE CircleStep
    <3> DEFINE xc1 == I16(f.xc + 1)
               yc1 == I16(f.yc - 1)
               e1 == I16(f.Esp + 4 * f.xc + 6)
               e2 == I16(f.Esp + 10 + 4 * (f.xc - f.yc))
               down == [f EXCEPT !.xc = xc1, !.Esp = e1]
               in   == [f EXCEPT !.xc = xc1, !.yc = yc1, !.Esp = e2]
               g == IF f.Esp < 0 THEN down ELSE in
    <3>1. f.op = "circle" /\ (Steps(<<>>) \/ Steps(<<g>>))
      BY <2>4 DEF CircleStep
    <3>2. f \in [op : {"circle"}, x : Int, y : Int, xc : Int, yc : Int, Esp : Int, size : Int,
                 fill : {f.fill}]
      BY <2>1, <3>1, InHand DEF Frame
    <3> HIDE DEF xc1, yc1, e1, e2
    <3>3. g.op = "circle"
      BY <3>2
    <3> HIDE DEF g
    <3>4. InTable(g)
      BY <3>3 DEF InTable
    <3>5. QED
      BY <2>1, <2>2, <3>1, <3>4, OneListedAfter
  <2>5. CASE GlyphStep
    BY <2>1, <2>5, GlyphListed
  <2>6. CASE StringStep
    BY <2>1, <2>6, StringListed
  <2>7. CASE ChineseStep
    BY <2>1, <2>7, ChineseListed
  <2>8. CASE WindowStep \/ ClearStep
    BY <2>2, <2>8 DEF WindowStep, ClearStep
  <2>9. QED
    BY <1>1, <2>3, <2>4, <2>5, <2>6, <2>7, <2>8 DEF Draws
<1>2. CASE Resting /\ (DrawsPoint \/ DrawsLine \/ DrawsRectangle \/ DrawsCircle \/ Clears \/ Writes)
  <2>1. \A q \in Points : q[1] \in Int /\ q[2] \in Int
    BY PointsAreOnPlane DEF PaintInv
  <2>2. \A q \in Corners : q[1] \in Int /\ q[2] \in Int
    BY PaintAssumption
  <2>3. \A n \in DotSizes : n \in Int
    BY PaintAssumption
  <2>4. ASSUME NEW g, g.op \notin {"glyph", "string", "cn"}, todo' = <<g>>
        PROVE  GlyphInv'
    <3>1. InTable(g)
      BY <2>4 DEF InTable
    <3>2. QED
      BY <2>4, <3>1 DEF GlyphInv
  <2>5. ASSUME Listed(todo')
        PROVE  GlyphInv'
    BY <2>5 DEF Listed, GlyphInv
  <2>6. CASE shape'.call = "point" /\ todo' = <<>>
    BY <2>5, <2>6, ListedNone
  <2>7. ASSUME NEW q \in Points, NEW e \in Points, NEW n \in DotSizes,
               Fresh([call |-> "line", x |-> q[1], y |-> q[2], xe |-> e[1], ye |-> e[2],
                      size |-> n], DrawLine(q[1], q[2], e[1], e[2], n))
        PROVE  GlyphInv'
    BY <2>1, <2>3, <2>5, <2>7, ListedLines, Zenon DEF Fresh
  <2>8. ASSUME NEW q \in Corners, NEW e \in Corners, NEW n \in DotSizes, NEW fill \in BOOLEAN,
               todo' = DrawRectangle(q[1], q[2], e[1], e[2], n, fill)
        PROVE  GlyphInv'
    BY <2>2, <2>3, <2>5, <2>8, ListedRectangle
  <2>9. ASSUME NEW q \in Points, NEW r \in Radii, NEW n \in DotSizes, NEW fill \in BOOLEAN,
               Fresh([call |-> "circle", x |-> q[1], y |-> q[2], r |-> r, size |-> n,
                      fill |-> fill], DrawCircle(q[1], q[2], r, n, fill))
        PROVE  GlyphInv'
    <3> DEFINE g == [op |-> "circle", x |-> q[1], y |-> q[2], xc |-> 0, yc |-> I16(r),
                     Esp |-> I16(3 - 2 * r), size |-> n, fill |-> fill]
    <3>1. todo' = <<>> \/ todo' = <<g>>
      BY <2>9 DEF Fresh, DrawCircle
    <3>2. g.op = "circle"
      OBVIOUS
    <3> HIDE DEF g
    <3>3. QED
      BY <2>4, <2>5, <3>1, <3>2, ListedNone
  <2>10. ASSUME NEW g, todo' = <<g>>, g.op \in {"clear", "bitmap", "block", "window"}
         PROVE  GlyphInv'
    BY <2>4, <2>10
  <2>11. ASSUME NEW s \in Scripts,
                s.call = "string" => todo' = DrawString_EN(s.x, s.y, s.text, s.font),
                s.call = "chinese" => todo' = DrawString_CN(s.x, s.y, s.text, s.font),
                s.call = "number" =>
                  todo' = DrawNum(s.x, s.y, s.text[1], s.text[2], s.text[3], s.font),
                s.call = "time" => todo' = DrawTime(s.x, s.y, s.text, s.font)
         PROVE  GlyphInv'
    <3>1. /\ s.call \in {"string", "chinese", "number", "time"} /\ s.x \in Int /\ s.y \in Int
          /\ s.call # "chinese" => s.font \in SFonts
      BY Written
    <3>2. CASE s.call = "string"
      BY <2>5, <2>11, <3>1, <3>2, Written, ListedString
    <3>3. CASE s.call = "chinese"
      BY <2>5, <2>11, <3>1, <3>3, Written, ListedChinese
    <3>4. CASE s.call = "number"
      BY <2>5, <2>11, <3>1, <3>4, Written, ListedNumber, Zenon
    <3>5. CASE s.call = "time"
      BY <2>5, <2>11, <3>1, <3>5, Written, ListedTime
    <3>6. QED
      BY <3>1, <3>2, <3>3, <3>4, <3>5
  <2>12. QED
    BY <1>2, <2>6, <2>7, <2>8, <2>9, <2>10, <2>11, Called, Zenon
<1>3. CASE UNCHANGED paintvars
  BY <1>3 DEF paintvars, GlyphInv
<1>4. CASE shape' = NoShape /\ todo' = <<>>
  BY <1>4, ListedNone DEF Listed, GlyphInv
<1>5. QED
  BY <1>1, <1>2, <1>3, <1>4, Otherwise

LEMMA GlyphsAreInside == ASSUME PaintInv, GlyphInv PROVE GlyphsAreInTheirTables
<1>1. ASSUME NEW i \in DOMAIN todo, todo[i].op = "glyph"
      PROVE  /\ todo[i].first <= todo[i].ptr
             /\ todo[i].ptr + (todo[i].font.Width - 1) \div 8 <= todo[i].last
             /\ todo[i].turned => 0 <= todo[i].first /\ todo[i].last < todo[i].font.table
  <2> DEFINE g == todo[i]  font == g.font  H == font.Height  k == RowBytes(font)  m == g.row
             F == g.first  L == g.last  P == g.ptr  w == (font.Width - 1) \div 8
  <2>1. /\ font \in SFonts \cup CFonts /\ m \in 0 .. H - 1 /\ F \in Int
        /\ P = F + m * RowOf(font)
        /\ L \in Int /\ F + H * k - 1 <= L
        /\ g.turned => 0 <= F /\ L < font.table
    BY <1>1 DEF GlyphInv, InTable
  <2>2. RowOf(font) = k /\ k \in Nat /\ H \in Nat /\ w = k - 1
    <3> HIDE DEF g, font
    <3>1. QED
      BY <2>1, RowsInBytes DEF font
  <2> HIDE DEF g, font, H, k, m, F, L, P, w
  <2>3. m * k \in Int /\ m * k >= 0 /\ (m + 1) * k = m * k + k
    BY <2>1, <2>2, OneMore
  <2>4. H * k >= (m + 1) * k
    BY <2>1, <2>2, AtLeast
  <2>5. H * k \in Int
    BY <2>2
  <2>6. F <= P /\ P + w <= L
    BY <2>1, <2>2, <2>3, <2>4, <2>5
  <2>7. QED
    BY <2>1, <2>6 DEF g, font, F, L, P, w
<1>2. ASSUME NEW i \in DOMAIN todo, todo[i].op = "cn"
      PROVE  todo[i].at <= Len(todo[i].text) + 1
  <2>1. Complete(todo[i].text) /\ todo[i].at \in 1 .. Len(todo[i].text) + 1
    BY <1>2 DEF GlyphInv, InTable
  <2>2. QED
    BY <2>1
<1>3. QED
  BY <1>1, <1>2 DEF GlyphsAreInTheirTables
-----------------------------------------------------------------------------
(* The first glyph of a number shows: something is drawn.                  *)
LEMMA DrawnGrows == ASSUME Draws PROVE drawn \subseteq drawn'
<1>1. ASSUME NEW points, SetPixels(points)
      PROVE  drawn \subseteq drawn'
  BY <1>1 DEF SetPixels
<1>2. CASE LineStep \/ GlyphStep \/ WindowStep
  BY <1>1, <1>2 DEF LineStep, GlyphStep, WindowStep
<1>3. CASE CircleStep
  BY <1>1, <1>3 DEF CircleStep
<1>4. CASE StringStep
  BY <1>4 DEF StringStep
<1>5. CASE ChineseStep
  BY <1>5 DEF ChineseStep
<1>6. CASE ClearStep
  BY <1>6 DEF ClearStep
<1>7. QED
  BY <1>2, <1>3, <1>4, <1>5, <1>6 DEF Draws

LEMMA UprightShows ==
    ASSUME Made, Upright, NEW x \in 0 .. Paint.Width, NEW y \in 0 .. Paint.Height
    PROVE  ~Clipped(x, y)
<1>1. /\ Paint.Width \in Nat /\ Paint.Height \in Nat
      /\ Paint.Width = Paint.WidthMemory /\ Paint.Height = Paint.HeightMemory
  BY DEF Made, Upright, Fitting
<1>2. Rotated(x, y) = <<x, y>>
  BY Turns DEF Upright
<1>3. Mirrored(<<x, y>>) = <<x, y>>
  BY DEF Mirrored, Upright
<1>4. QED
  BY <1>1, <1>2, <1>3 DEF Clipped

LEMMA FirstGlyphShows ==
    ASSUME PaintInv, GlyphInv, Upright, todo # <<>>, GlyphStep,
           f.x \in 0 .. Paint.Width, f.y \in 0 .. Paint.Height, f.row = 0, f.turned = TRUE,
           f.font \in SFonts
    PROVE  drawn' # {}
<1> DEFINE points == {IF f.turned THEN <<U16(f.x + f.row), U16(f.y + c)>>
                      ELSE <<U16(f.x + c), U16(f.y + f.row)>> : c \in 0 .. f.font.Width - 1}
           q == <<f.x, f.y>>
<1>1. SetPixels(points)
  BY DEF GlyphStep
<1>2. /\ Made /\ Paint.Width \in Nat /\ Paint.Height \in Nat
      /\ Paint.Width < 32768 /\ Paint.Height < 32768
  BY DEF PaintInv, Made
<1>3. 0 \in 0 .. f.font.Width - 1
  <2>1. f.font.Width >= 1 /\ f.font.Width \in Int
    BY GlyphIsWide
  <2>2. QED
    BY <2>1
<1>4. U16(f.x + f.row) = f.x /\ U16(f.y + 0) = f.y
  BY <1>2 DEF U16
<1>5. q \in points
  BY <1>3, <1>4, Zenon
<1>6. ~Clipped(f.x, f.y)
  BY <1>2, UprightShows
<1>7. q[1] = f.x /\ q[2] = f.y
  OBVIOUS
<1> HIDE DEF points, q
<1>8. drawn' = drawn \cup {p \in points : ~Clipped(p[1], p[2])}
  BY <1>1 DEF SetPixels
<1>9. q \in drawn'
  BY <1>5, <1>6, <1>7, <1>8
<1>10. QED
  BY <1>9

(* Where a string puts its next glyph.                                     *)
LEMMA StringGoesOn ==
    ASSUME PaintInv, GlyphInv, todo # <<>>, StringStep, f.text # <<>>
    PROVE  \E x \in Int, y \in Int : \E g :
              /\ x \in {f.x, f.x0} /\ y \in {f.y, f.y + f.font.Height, f.y0}
              /\ y # f.y0 => y + f.font.Height <= Paint.Height
              /\ g.op = "string" /\ g.font = f.font /\ g.x = x /\ g.y = y + f.font.Width
              /\ g.x0 = f.x0 /\ g.y0 = f.y0 /\ Frame(g)
              /\ Steps(DrawChar(x, y, Head(f.text), f.font) \o <<g>>)
<1> DEFINE full == f.x + f.font.Width > Paint.Width
           y1   == IF full THEN f.y + f.font.Height ELSE f.y
           over == TooLow(y1, f.font)
           x    == IF full \/ over THEN f.x0 ELSE f.x
           y    == IF over THEN f.y0 ELSE y1
           y2   == y + f.font.Width
           rest == Tail(f.text)
           next == [f EXCEPT !.x = x, !.y = y2, !.text = rest]
<1>1. f.op = "string" /\ Steps(DrawChar(x, y, Head(f.text), f.font) \o <<next>>)
  BY DEF StringStep
<1>2. /\ f \in [op : {"string"}, x : Int, y : Int, x0 : Int, y0 : Int, text : {f.text},
                 font : {f.font}]
      /\ f.font.Width \in Int /\ f.font.Height \in Int
  BY <1>1, InHand DEF Frame
<1>3. x \in Int /\ y \in Int /\ y2 \in Int
  BY <1>2
<1>4. x \in {f.x, f.x0} /\ y \in {f.y, f.y + f.font.Height, f.y0}
  OBVIOUS
<1>5. y # f.y0 => y + f.font.Height <= Paint.Height
  <2>1. Paint.Height \in Int
    BY DEF PaintInv, Made
  <2>2. ~over => y = y1 /\ ~(y1 + f.font.Height > Paint.Height)
    BY DEF TooLow
  <2>3. y1 \in Int
    BY <1>2
  <2> HIDE DEF y1
  <2>4. QED
    BY <1>2, <2>1, <2>2, <2>3
<1> HIDE DEF x, y, y2, rest
<1>6. /\ next.op = "string" /\ next.font = f.font /\ next.x = x /\ next.y = y2
      /\ next.x0 = f.x0 /\ next.y0 = f.y0
      /\ next \in [op : {"string"}, x : Int, y : Int, x0 : Int, y0 : Int, text : {next.text},
                   font : {next.font}]
  BY <1>2, <1>3, Zenon
<1> HIDE DEF next
<1>7. Frame(next)
  BY <1>2, <1>6 DEF Frame
<1>8. next.y = y + f.font.Width
  BY <1>6 DEF y2
<1>9. QED
  BY <1>1, <1>3, <1>4, <1>5, <1>6, <1>7, <1>8, Zenon

LEMMA TwoLeft ==
    ASSUME NEW h, todo = <<h>>, NEW c, NEW g, Steps(<<c>> \o <<g>>)
    PROVE  f' = c /\ todo' # <<>>
<1> DEFINE S == {c, g}  s == <<c>>  t == <<g>>
<1>1. /\ s \in Seq(S) /\ t \in Seq(S) /\ Len(s) = 1 /\ Len(t) = 1 /\ s[1] = c
      /\ Tail(todo) = <<>> /\ <<>> \in Seq(S) /\ Len(<<>>) = 0
  OBVIOUS
<1>2. todo' = (s \o t) \o <<>>
  BY <1>1 DEF Steps
<1> HIDE DEF S, s, t
<1>3. s \o t \in Seq(S) /\ Len(s \o t) = 2 /\ (s \o t)[1] = c
  BY <1>1, ConcatProperties
<1>4. (s \o t) \o <<>> = s \o t
  BY <1>3, ConcatEmptySeq
<1>5. todo' \in Seq(S) /\ Len(todo') = 2 /\ todo'[1] = c
  BY <1>2, <1>3, <1>4
<1>6. todo' # <<>> /\ Head(todo') = c
  BY <1>5, HeadTailProperties
<1>7. QED
  BY <1>6 DEF f

LEMMA NumberGoesOn ==
    ASSUME PaintInv, Settled, GlyphInv, NumberInv, Draws, shape.call = "number",
           drawn' = {}, todo' # <<>>
    PROVE  /\ f'.x \in 0 .. Paint.Width /\ f'.y \in 0 .. Paint.Height
           /\ f'.op = "glyph" /\ f'.row = 0 /\ f'.turned = TRUE /\ f'.font \in SFonts
<1>1. drawn = {} /\ todo # <<>> /\ Upright
  BY DrawnGrows DEF Draws, Settled, IsText
<1>2. /\ f.x \in 0 .. Paint.Width /\ f.y \in 0 .. Paint.Height
      /\ \/ f.op = "glyph" /\ f.row = 0 /\ f.turned = TRUE /\ f.font \in SFonts
         \/ /\ todo = <<f>> /\ f.op = "string" /\ f.font \in SFonts
            /\ f.x0 = f.x /\ f.y0 = f.y
  BY <1>1 DEF NumberInv
<1>3. CASE f.op = "glyph"
  <2>1. GlyphStep
    BY <1>3, DrawsWith
  <2>2. f.op # "string"
    BY <1>3
  <2>3. QED
    BY <1>1, <1>2, <2>1, <2>2, FirstGlyphShows, Zenon
<1>4. CASE f.op # "glyph"
  <2>1. /\ todo = <<f>> /\ f.op = "string" /\ f.font \in SFonts /\ f.x0 = f.x /\ f.y0 = f.y
    BY <1>2, <1>4
  <2>2. StringStep
    BY <2>1, DrawsWith
  <2>3. CASE f.text = <<>>
    <3>1. Steps(<<>>)
      BY <2>2, <2>3 DEF StringStep
    <3>2. QED
      BY <2>1, <3>1, OnlyFrame
  <2>4. CASE f.text # <<>>
    <3>1. PICK x \in Int, y \in Int : \E g :
             /\ x \in {f.x, f.x0} /\ y \in {f.y, f.y + f.font.Height, f.y0}
             /\ y # f.y0 => y + f.font.Height <= Paint.Height
             /\ g.op = "string" /\ g.font = f.font /\ g.x = x /\ g.y = y + f.font.Width
             /\ g.x0 = f.x0 /\ g.y0 = f.y0 /\ Frame(g)
             /\ Steps(DrawChar(x, y, Head(f.text), f.font) \o <<g>>)
      BY <1>1, <2>2, <2>4, StringGoesOn, Zenon
    <3>2. PICK g : Steps(DrawChar(x, y, Head(f.text), f.font) \o <<g>>)
      BY <3>1, Zenon
    <3>3. Paint.Width \in Nat /\ Paint.Height \in Nat
      BY DEF PaintInv, Made
    <3>4. x = f.x /\ x \in 0 .. Paint.Width
      BY <1>2, <2>1, <3>1
    <3>5. y \in 0 .. Paint.Height
      <4> DEFINE H == f.font.Height
      <4>1. H \in Int /\ H >= 1
        BY <2>1, GlyphIsWide
      <4>2. y \in {f.y, f.y + H} /\ (y # f.y => y + H <= Paint.Height)
        BY <2>1, <3>1
      <4> HIDE DEF H
      <4>3. QED
        BY <1>2, <3>3, <4>1, <4>2
    <3> DEFINE char == Head(f.text)  font == f.font
               offset == (char - 32) * font.Height * RowBytes(font)
               last == offset + font.Height * RowBytes(font) - 1
               c == [op |-> "glyph", x |-> x, y |-> y, font |-> font, row |-> 0,
                     ptr |-> offset, first |-> offset, last |-> last, turned |-> TRUE]
    <3>6. DrawChar(x, y, char, font) = <<c>>
      <4>1. ~(x > Paint.Width) /\ ~(y > Paint.Height)
        BY <3>3, <3>4, <3>5
      <4>2. QED
        BY <4>1, Zenon DEF DrawChar, Glyph
    <3> HIDE DEF offset, last
    <3>7. /\ c.op = "glyph" /\ c.x = x /\ c.y = y /\ c.row = 0 /\ c.turned = TRUE
           /\ c.font = font
      OBVIOUS
    <3> HIDE DEF char, font, c
    <3>8. f' = c
      BY <2>1, <3>2, <3>6, TwoLeft DEF char, font
    <3>9. QED
      BY <2>1, <3>4, <3>5, <3>7, <3>8 DEF font
  <2>5. QED
    BY <2>3, <2>4, Zenon
<1>5. QED
  BY <1>3, <1>4, Zenon

LEMMA NumberHolds ==
    ASSUME PaintInv, Settled, GlyphInv, NumberInv, [PaintNext]_paintvars
    PROVE  NumberInv'
<1>1. CASE Draws
  <2>1. Paint' = Paint /\ shape' = shape
    BY <1>1, DrawsWith
  <2>2. QED
    BY <1>1, <2>1, NumberGoesOn, Zenon DEF NumberInv
<1>2. CASE Resting /\ (DrawsPoint \/ DrawsLine \/ DrawsRectangle \/ DrawsCircle \/ Clears \/ Writes)
  <2>1. ASSUME shape'.call = "number", todo' # <<>>
        PROVE  /\ f'.x \in 0 .. Paint'.Width /\ f'.y \in 0 .. Paint'.Height
               /\ todo' = <<f'>> /\ f'.op = "string" /\ f'.font \in SFonts
               /\ f'.x0 = f'.x /\ f'.y0 = f'.y
               /\ f'.text = NumText(shape'.text[1], shape'.text[2], shape'.text[3])
    <3>1. PICK s \in Scripts :
             /\ Fresh(s, todo')
             /\ s.call = "number" =>
                  todo' = DrawNum(s.x, s.y, s.text[1], s.text[2], s.text[3], s.font)
      <4>1. shape'.call \notin {"point", "line", "rectangle", "circle", "clear", "bitmap",
                                "block", "window"}
        BY <2>1
      <4>2. QED
        BY <1>2, <4>1, Called DEF Fresh
    <3>2. shape' = s /\ Paint' = Paint /\ s.call = "number"
      BY <2>1, <3>1 DEF Fresh
    <3>3. s.x \in Nat /\ s.y \in Nat /\ s.font \in SFonts
      BY <3>2, Written
    <3>4. Paint.Width \in Nat /\ Paint.Height \in Nat
      BY DEF PaintInv, Made
    <3> DEFINE x == s.x  y == s.y  font == s.font
               text == NumText(s.text[1], s.text[2], s.text[3])
               g == [op |-> "string", x |-> x, y |-> y, x0 |-> x, y0 |-> y, text |-> text,
                     font |-> font]
    <3>5. todo' = DrawString_EN(x, y, text, font)
      BY <3>1, <3>2 DEF DrawNum
    <3> HIDE DEF x, y, font, text
    <3>6. /\ g.op = "string" /\ g.x = x /\ g.y = y /\ g.x0 = x /\ g.y0 = y /\ g.text = text
          /\ g.font = font
      OBVIOUS
    <3>7. x <= Paint.Width /\ y <= Paint.Height /\ todo' = <<g>>
      BY <2>1, <3>3, <3>4, <3>5 DEF DrawString_EN, x, y
    <3> HIDE DEF g
    <3>8. f' = g
      BY <3>7 DEF f
    <3>9. x \in 0 .. Paint.Width /\ y \in 0 .. Paint.Height /\ font \in SFonts
      BY <3>3, <3>4, <3>7 DEF x, y, font
    <3>10. QED
      BY <3>2, <3>6, <3>7, <3>8, <3>9 DEF text
  <2>2. QED
    BY <2>1 DEF NumberInv
<1>3. CASE UNCHANGED paintvars
  <2>1. Paint' = Paint /\ shape' = shape /\ todo' = todo /\ drawn' = drawn /\ f' = f
    BY <1>3 DEF paintvars, f
  <2>2. QED
    BY <2>1 DEF NumberInv
<1>4. CASE shape' = NoShape
  BY <1>4 DEF NumberInv, NoShape
<1>5. QED
  BY <1>1, <1>2, <1>3, <1>4, Otherwise

LEMMA NumberIsRead == ASSUME PaintInv, Settled, NumberInv PROVE NumberReadsBack
<1>1. SUFFICES ASSUME shape.call = "number", todo # <<>>, f.op = "string", drawn = {}
               PROVE  LET k == shape.text[3]
                          n == Len(f.text)
                      IN  IF k = 0 THEN Value(f.text) = shape.text[1]
                          ELSE /\ Value(SubSeq(f.text, 1, n - k - 1)) = shape.text[1]
                               /\ Value(SubSeq(f.text, n - k + 1, n)) = shape.text[2]
  BY DEF NumberReadsBack
<1>2. f.text = NumText(shape.text[1], shape.text[2], shape.text[3])
  BY <1>1 DEF NumberInv
<1>3. shape \in Scripts
  BY <1>1 DEF Settled, IsText
<1>4. /\ shape.text[1] \in Nat /\ shape.text[2] \in Nat /\ shape.text[3] \in 0 .. 9
      /\ shape.text[1] <= INT_MAX /\ shape.text[2] < Tens[shape.text[3] + 1]
  BY <1>1, <1>3, Written
<1> DEFINE m == shape.text[1]  fraction == shape.text[2]  digit == shape.text[3]
<1>5. /\ m \in Nat /\ m <= INT_MAX /\ fraction \in Nat /\ digit \in 0 .. 9
      /\ fraction < Tens[digit + 1] /\ f.text = NumText(m, fraction, digit)
  BY <1>2, <1>4
<1> HIDE DEF m, fraction, digit
<1>6. LET text == NumText(m, fraction, digit)
          n == Len(text)
      IN  IF digit = 0 THEN Value(text) = m
          ELSE /\ Value(SubSeq(text, 1, n - digit - 1)) = m
               /\ Value(SubSeq(text, n - digit + 1, n)) = fraction
  BY <1>5, NumberIsShown, Zenon
<1>7. QED
  BY <1>5, <1>6 DEF m, fraction, digit
-----------------------------------------------------------------------------
(* A string that fits is drawn whole.                                      *)
LEMMA SmallStays == ASSUME NEW n \in Nat, n < 65536 PROVE U16(n) = n
  BY DEF U16

LEMMA GlyphIsWhole ==
    ASSUME PaintInv, Upright, GlyphStep, ~lost, f.turned = TRUE,
           f.x \in Nat, f.y \in Nat, f.font \in SFonts, f.row \in 0 .. f.font.Height - 1,
           f.x + f.font.Height <= Paint.Width, f.y + f.font.Height <= Paint.Height
    PROVE  ~lost'
<1> DEFINE points == {IF f.turned THEN <<U16(f.x + f.row), U16(f.y + c)>>
                      ELSE <<U16(f.x + c), U16(f.y + f.row)>> : c \in 0 .. f.font.Width - 1}
           W == f.font.Width  H == f.font.Height
<1>1. SetPixels(points)
  BY DEF GlyphStep
<1>2. /\ Made /\ Paint.Width \in Nat /\ Paint.Height \in Nat
      /\ Paint.Width < 32768 /\ Paint.Height < 32768
  BY DEF PaintInv, Made
<1>3. W \in Nat /\ H \in Nat /\ W <= H
  BY FontIsSized
<1>4. ASSUME NEW c \in 0 .. W - 1
      PROVE  ~Clipped(U16(f.x + f.row), U16(f.y + c))
  <2>1. f.x + f.row \in 0 .. Paint.Width - 1 /\ f.y + c \in 0 .. Paint.Height - 1
    <3>1. /\ f.row \in 0 .. H - 1 /\ f.x + H <= Paint.Width /\ f.y + H <= Paint.Height
      OBVIOUS
    <3> HIDE DEF W, H
    <3>2. QED
      BY <1>2, <1>3, <1>4, <3>1
  <2>2. U16(f.x + f.row) = f.x + f.row /\ U16(f.y + c) = f.y + c
    <3>1. /\ f.x + f.row \in Nat /\ f.x + f.row < 65536
          /\ f.y + c \in Nat /\ f.y + c < 65536
      BY <1>2, <2>1
    <3>2. QED
      BY <3>1, SmallStays
  <2>3. f.x + f.row \in 0 .. Paint.Width /\ f.y + c \in 0 .. Paint.Height
    BY <1>2, <2>1
  <2>4. QED
    BY <1>2, <2>2, <2>3, UprightShows
<1>5. points = {<<U16(f.x + f.row), U16(f.y + c)>> : c \in 0 .. W - 1}
  OBVIOUS
<1>6. \A q \in points : ~Clipped(q[1], q[2])
  <2>1. SUFFICES ASSUME NEW q \in points PROVE ~Clipped(q[1], q[2])
    OBVIOUS
  <2>2. PICK c \in 0 .. W - 1 : q = <<U16(f.x + f.row), U16(f.y + c)>>
    BY <1>5, <2>1
  <2>3. q[1] = U16(f.x + f.row) /\ q[2] = U16(f.y + c)
    BY <2>2
  <2>4. QED
    BY <1>4, <2>3
<1> HIDE DEF points
<1>7. {q \in points : ~Clipped(q[1], q[2])} = points
  BY <1>6
<1>8. QED
  BY <1>1, <1>7, Zenon DEF SetPixels

(* The frames of a string stay in its column, the one in hand among them.  *)
LEMMA ColumnInHand ==
    ASSUME PaintInv, TextInv, TextCall, todo # <<>>
    PROVE  InColumn(f)
<1> DEFINE S == {todo[i] : i \in DOMAIN todo}
<1>1. todo \in Seq(S)
  BY DEF PaintInv, Frames
<1>2. \A g \in S : InColumn(g)
  BY DEF TextInv
<1> HIDE DEF S
<1>3. f \in S
  BY <1>1, HeadTailProperties DEF f
<1>4. QED
  BY <1>2, <1>3

LEMMA ColumnAfter ==
    ASSUME PaintInv, TextInv, TextCall, todo # <<>>, NEW s, Frames(s), Steps(s),
           \A j \in DOMAIN s : InColumn(s[j])
    PROVE  \A i \in DOMAIN todo' : InColumn(todo'[i])
<1>1. Frames(todo) /\ s \in Seq({s[j] : j \in DOMAIN s})
  BY DEF PaintInv, Frames
<1>2. ASSUME NEW i \in DOMAIN todo'
      PROVE  InColumn(todo'[i])
  BY <1>1, <1>2, StepElements DEF TextInv
<1>3. QED
  BY <1>2

LEMMA NoneLeft ==
    ASSUME PaintInv, TextInv, TextCall, todo # <<>>, Steps(<<>>)
    PROVE  \A i \in DOMAIN todo' : InColumn(todo'[i])
<1>1. \A j \in DOMAIN <<>> : InColumn(<<>>[j])
  <2>1. DOMAIN <<>> = {}
    OBVIOUS
  <2>2. QED
    BY <2>1
<1>2. QED
  BY <1>1, NoFrames, ColumnAfter

LEMMA TextIsAt ==
    ASSUME PaintInv, Settled, TextCall
    PROVE  /\ Upright /\ shape.font \in SFonts /\ shape.x \in Nat /\ shape.y \in Nat
           /\ shape.font.Width \in Nat /\ shape.font.Height \in Nat
           /\ shape.font.Width <= shape.font.Height /\ shape.font.Height >= 1
           /\ Paint.Width \in Nat /\ Paint.Height \in Nat
<1>1. shape.call = "string"
  BY DEF TextCall
<1>2. shape \in Scripts /\ Upright
  BY <1>1 DEF Settled, IsText
<1>3. shape.font \in SFonts /\ shape.x \in Nat /\ shape.y \in Nat
  BY <1>1, <1>2, Written
<1>4. /\ shape.font.Width \in Nat /\ shape.font.Height \in Nat
      /\ shape.font.Width <= shape.font.Height /\ shape.font.Height >= 1
  BY <1>3, FontIsSized, GlyphIsWide
<1>5. Paint.Width \in Nat /\ Paint.Height \in Nat
  BY DEF PaintInv, Made
<1>6. QED
  BY <1>2, <1>3, <1>4, <1>5

LEMMA ColumnOfGlyph ==
    ASSUME PaintInv, Settled, GlyphInv, TextInv, TextCall, todo # <<>>, GlyphStep
    PROVE  ~lost' /\ \A i \in DOMAIN todo' : InColumn(todo'[i])
<1> DEFINE row1 == f.row + 1
           ptr1 == f.ptr + RowOf(f.font)
           next == [f EXCEPT !.row = row1, !.ptr = ptr1]
           new == IF f.row + 1 = f.font.Height THEN <<>> ELSE <<next>>
<1>1. f.op = "glyph" /\ Steps(new)
  BY DEF GlyphStep
<1>2. /\ Upright /\ shape.font \in SFonts /\ shape.x \in Nat /\ shape.y \in Nat
      /\ shape.font.Width \in Nat /\ shape.font.Height \in Nat
      /\ Paint.Width \in Nat /\ Paint.Height \in Nat
  BY TextIsAt
<1>3. /\ f.font = shape.font /\ f.x = shape.x /\ f.y \in Nat
      /\ f.turned = TRUE /\ f.row \in 0 .. f.font.Height - 1
      /\ f.y + f.font.Height <= Paint.Height
  BY <1>1, ColumnInHand, Zenon DEF InColumn
<1>4. ~lost
  BY DEF TextInv
<1>5. f.x + f.font.Height <= Paint.Width
  BY <1>3 DEF TextCall
<1>6. ~lost'
  BY <1>2, <1>3, <1>4, <1>5, GlyphIsWhole, Zenon
<1>7. f \in [op : {"glyph"}, x : Int, y : Int, font : {f.font}, row : Int, ptr : {f.ptr},
              first : {f.first}, last : {f.last}, turned : {f.turned}]
  BY <1>1, InHand DEF Frame
<1>8. row1 \in Int /\ (row1 = f.font.Height \/ row1 \in 0 .. f.font.Height - 1)
  BY <1>2, <1>3
<1>9. new \in {<<>>, <<next>>} /\ (row1 = f.font.Height => new = <<>>)
  OBVIOUS
<1> HIDE DEF row1, ptr1
<1>10. /\ next.op = "glyph" /\ next.font = f.font /\ next.row = row1 /\ next.x = f.x
       /\ next.y = f.y /\ next.turned = f.turned
       /\ next \in [op : {"glyph"}, x : Int, y : Int, font : {next.font}, row : Int,
                    ptr : {next.ptr}, first : {next.first}, last : {next.last},
                    turned : {next.turned}]
  BY <1>7, <1>8, Zenon
<1> HIDE DEF next, new
<1>11. Frame(next)
  BY <1>10 DEF Frame
<1>12. row1 # f.font.Height => InColumn(next)
  BY <1>3, <1>8, <1>10 DEF InColumn
<1>13. CASE new = <<>>
  BY <1>1, <1>6, <1>13, NoneLeft
<1>14. CASE new # <<>>
  <2>1. new = <<next>> /\ InColumn(next)
    BY <1>9, <1>12, <1>14
  <2>2. Frames(<<next>>)
    BY <1>11, OneFrame
  <2>3. \A j \in DOMAIN <<next>> : InColumn(<<next>>[j])
    BY <2>1
  <2>4. QED
    BY <1>1, <1>6, <2>1, <2>2, <2>3, ColumnAfter
<1>15. QED
  BY <1>13, <1>14

LEMMA ColumnOfString ==
    ASSUME PaintInv, Settled, GlyphInv, TextInv, TextCall, todo # <<>>, StringStep
    PROVE  ~lost' /\ \A i \in DOMAIN todo' : InColumn(todo'[i])
<1>1. /\ shape.x \in Nat /\ shape.y \in Nat
      /\ shape.font.Width \in Nat /\ shape.font.Height \in Nat /\ shape.font.Height >= 1
      /\ Paint.Width \in Nat /\ Paint.Height \in Nat
  BY TextIsAt
<1>2. ~lost' /\ f.op = "string"
  BY DEF TextInv, StringStep
<1>3. /\ f.font = shape.font /\ f.x = shape.x /\ f.y \in Nat /\ f.x0 = shape.x /\ f.y0 = shape.y
  BY <1>2, ColumnInHand DEF InColumn
<1>4. CASE f.text = <<>>
  <2>1. Steps(<<>>)
    BY <1>4 DEF StringStep
  <2>2. QED
    BY <1>2, <2>1, NoneLeft
<1>5. CASE f.text # <<>>
  <2>1. PICK x \in Int, y \in Int : \E g :
           /\ x \in {f.x, f.x0} /\ y \in {f.y, f.y + f.font.Height, f.y0}
           /\ y # f.y0 => y + f.font.Height <= Paint.Height
           /\ g.op = "string" /\ g.font = f.font /\ g.x = x /\ g.y = y + f.font.Width
           /\ g.x0 = f.x0 /\ g.y0 = f.y0 /\ Frame(g)
           /\ Steps(DrawChar(x, y, Head(f.text), f.font) \o <<g>>)
    BY <1>5, StringGoesOn, Zenon
  <2>2. PICK g : /\ g.op = "string" /\ g.font = f.font /\ g.x = x /\ g.y = y + f.font.Width
                 /\ g.x0 = f.x0 /\ g.y0 = f.y0 /\ Frame(g)
                 /\ Steps(DrawChar(x, y, Head(f.text), f.font) \o <<g>>)
    BY <2>1
  <2> DEFINE H == shape.font.Height  W == shape.font.Width
  <2>3. x = shape.x /\ y \in Nat /\ y + H <= Paint.Height /\ x + H <= Paint.Width
    <3>1. /\ x = shape.x /\ y \in {f.y, f.y + H, shape.y}
          /\ y # shape.y => y + H <= Paint.Height
      BY <1>3, <2>1
    <3>2. shape.y + H <= Paint.Height /\ shape.x + H <= Paint.Width
      BY DEF TextCall
    <3>3. H \in Nat /\ f.y \in Nat /\ shape.y \in Nat
      BY <1>1, <1>3
    <3> HIDE DEF H
    <3>4. QED
      BY <3>1, <3>2, <3>3
  <2>4. y + W \in Nat
    BY <1>1, <2>3
  <2>5. InColumn(g) /\ Frame(g)
    BY <1>3, <2>2, <2>3, <2>4 DEF InColumn
  <2> DEFINE char == Head(f.text)  font == f.font
             offset == (char - 32) * font.Height * RowBytes(font)
             last == offset + font.Height * RowBytes(font) - 1
             c == [op |-> "glyph", x |-> x, y |-> y, font |-> font, row |-> 0,
                   ptr |-> offset, first |-> offset, last |-> last, turned |-> TRUE]
  <2>6. DrawChar(x, y, char, font) = <<c>>
    <3>1. ~(x > Paint.Width) /\ ~(y > Paint.Height)
      BY <1>1, <2>3
    <3>2. QED
      BY <3>1, Zenon DEF DrawChar, Glyph
  <2> HIDE DEF offset, last
  <2>7. x \in Int /\ y \in Int
    BY <1>1, <2>3
  <2>8. /\ c.op = "glyph" /\ c.x = x /\ c.y = y /\ c.row = 0 /\ c.turned = TRUE
        /\ c.font = font
        /\ c \in [op : {"glyph"}, x : Int, y : Int, font : {c.font}, row : Int, ptr : {c.ptr},
                  first : {c.first}, last : {c.last}, turned : {c.turned}]
    BY <2>7
  <2> HIDE DEF char, c
  <2>9. Frame(c)
    BY <2>8 DEF Frame
  <2>10. InColumn(c)
    <3>1. c.font = shape.font
      BY <1>3, <2>8
    <3>2. 0 \in 0 .. H - 1
      BY <1>1
    <3>3. QED
      BY <2>3, <2>8, <3>1, <3>2 DEF InColumn
  <2>11. Frames(<<c>>) /\ Frames(<<g>>) /\ Frames(<<c>> \o <<g>>)
    BY <2>5, <2>9, OneFrame, MoreFrames
  <2>12. ASSUME NEW j \in DOMAIN (<<c>> \o <<g>>)
         PROVE  InColumn((<<c>> \o <<g>>)[j])
    <3> DEFINE s == <<c>>  t == <<g>>
    <3>1. /\ \A i \in DOMAIN s : InColumn(s[i])
          /\ \A i \in DOMAIN t : InColumn(t[i])
      BY <2>5, <2>10
    <3>2. Frames(s) /\ Frames(t) /\ j \in DOMAIN (s \o t)
      BY <2>11, <2>12
    <3> HIDE DEF s, t
    <3>3. InColumn((s \o t)[j])
      BY <3>1, <3>2, ElementsOfBoth
    <3>4. QED
      BY <3>3 DEF s, t
  <2>13. Steps(<<c>> \o <<g>>)
    BY <2>2, <2>6 DEF char, font
  <2>14. \A i \in DOMAIN todo' : InColumn(todo'[i])
    <3> DEFINE s == <<c>> \o <<g>>
    <3>1. Frames(s) /\ Steps(s) /\ \A j \in DOMAIN s : InColumn(s[j])
      BY <2>11, <2>12, <2>13
    <3> HIDE DEF s
    <3>2. QED
      BY <3>1, ColumnAfter
  <2>15. QED
    BY <1>2, <2>14
<1>6. QED
  BY <1>4, <1>5

LEMMA TextHolds ==
    ASSUME PaintInv, Settled, GlyphInv, TextInv, [PaintNext]_paintvars
    PROVE  TextInv'
<1>1. CASE Draws
  <2>1. Paint' = Paint /\ shape' = shape /\ todo # <<>>
    BY <1>1, DrawsWith DEF Draws
  <2>2. ASSUME TextCall
        PROVE  ~lost' /\ \A i \in DOMAIN todo' : InColumn(todo'[i])
    <3>1. f.op = "glyph" \/ f.op = "string"
      BY <2>1, <2>2, ColumnInHand DEF InColumn
    <3>2. GlyphStep \/ StringStep
      BY <1>1, <3>1, DrawsWith
    <3>3. QED
      BY <2>1, <2>2, <3>2, ColumnOfGlyph, ColumnOfString
  <2>3. (TextCall' <=> TextCall) /\ \A i : (InColumn(todo[i])' <=> InColumn(todo'[i]))
    BY <2>1 DEF TextCall, InColumn
  <2>4. QED
    BY <2>2, <2>3 DEF TextInv
<1>2. CASE Resting /\ (DrawsPoint \/ DrawsLine \/ DrawsRectangle \/ DrawsCircle \/ Clears \/ Writes)
  <2>1. ASSUME TextCall'
        PROVE  ~lost' /\ \A i \in DOMAIN todo' : InColumn(todo[i])'
    <3>1. shape'.call = "string"
      BY <2>1 DEF TextCall
    <3>2. PICK s \in Scripts :
             /\ Fresh(s, todo')
             /\ s.call = "string" => todo' = DrawString_EN(s.x, s.y, s.text, s.font)
      <4>1. shape'.call \notin {"point", "line", "rectangle", "circle", "clear", "bitmap",
                                "block", "window"}
        BY <3>1
      <4>2. QED
        BY <1>2, <4>1, Called DEF Fresh
    <3>3. shape' = s /\ ~lost' /\ s.call = "string"
      BY <3>1, <3>2 DEF Fresh
    <3>4. s.x \in Nat /\ s.y \in Nat
      BY <3>3, Written
    <3> DEFINE g == [op |-> "string", x |-> s.x, y |-> s.y, x0 |-> s.x, y0 |-> s.y,
                     text |-> s.text, font |-> s.font]
    <3>5. todo' = <<>> \/ todo' = <<g>>
      BY <3>2, <3>3 DEF DrawString_EN
    <3>6. /\ g.op = "string" /\ g.x = s.x /\ g.y = s.y /\ g.x0 = s.x /\ g.y0 = s.y
          /\ g.font = s.font
      OBVIOUS
    <3> HIDE DEF g
    <3>7. ASSUME NEW i \in DOMAIN todo'
          PROVE  todo'[i] = g
      BY <3>5, <3>7
    <3>8. ASSUME NEW i \in DOMAIN todo'
          PROVE  InColumn(todo[i])'
      <4>1. todo'[i] = g
        BY <3>7, <3>8
      <4>2. QED
        BY <3>3, <3>4, <3>6, <4>1 DEF InColumn
    <3>9. QED
      BY <3>3, <3>8
  <2>2. QED
    BY <2>1 DEF TextInv
<1>3. CASE UNCHANGED paintvars
  <2>1. Paint' = Paint /\ shape' = shape /\ todo' = todo /\ lost' = lost
    BY <1>3 DEF paintvars
  <2>2. QED
    BY <2>1 DEF TextInv, TextCall, InColumn
<1>4. CASE shape' = NoShape
  BY <1>4 DEF TextInv, TextCall, NoShape
<1>5. QED
  BY <1>1, <1>2, <1>3, <1>4, Otherwise
-----------------------------------------------------------------------------
(* All of it together.                                                     *)
LEMMA LineMeans == ASSUME LineInv PROVE LineIsNear
<1>1. CASE SingleLine
  <2>1. LineCall /\ todo = <<>>
    BY <1>1 DEF SingleLine, LineCall
  <2>2. todo # <<f>>
    BY <2>1
  <2>3. QED
    BY <2>1, <2>2 DEF LineInv
<1>2. CASE ~SingleLine
  BY <1>2 DEF LineIsNear
<1>3. QED
  BY <1>1, <1>2

LEMMA CircleMeans == ASSUME CircleInv PROVE CircleIsRound
<1> DEFINE ready == /\ todo = <<>> /\ shape.call = "circle" /\ shape.size = 1 /\ ~lost
                    /\ shape.r < 8192 /\ shape.x > shape.r /\ shape.y > shape.r
                    /\ shape.x + shape.r <= Paint.Width /\ shape.y + shape.r < Paint.Height
<1>1. CASE ready
  <2>1. CircleCall /\ todo = <<>> /\ ~lost
    BY <1>1 DEF CircleCall
  <2>2. todo # <<f>>
    BY <2>1
  <2>3. QED
    BY <2>1, <2>2 DEF CircleInv
<1>2. CASE ~ready
  BY <1>2 DEF CircleIsRound
<1>3. QED
  BY <1>1, <1>2

LEMMA TextMeans == ASSUME TextInv PROVE TextIsWhole
  BY DEF TextInv, TextCall, TextIsWhole

LEMMA DrawAtFirst == ASSUME PaintInit PROVE DrawInv
<1>1. PaintInv
  BY StartHolds
<1>2. todo = <<>> /\ shape = NoShape /\ ~lost
  BY DEF PaintInit
<1>3. shape.call = "none"
  BY <1>2 DEF NoShape
<1>4. Settled
  BY <1>2, <1>3 DEF Settled, IsText
<1>5. LineInv /\ CircleInv /\ NumberInv /\ TextInv
  BY <1>3 DEF LineInv, LineCall, CircleInv, CircleCall, NumberInv, TextInv, TextCall
<1>6. GlyphInv
  BY <1>2, ListedNone DEF Listed, GlyphInv
<1>7. QED
  BY <1>1, <1>4, <1>5, <1>6 DEF DrawInv

LEMMA DrawKept == ASSUME DrawInv, [PaintNext]_paintvars PROVE DrawInv'
<1>1. PaintInv /\ Settled /\ LineInv /\ CircleInv /\ GlyphInv /\ NumberInv /\ TextInv
  BY DEF DrawInv
<1>2. PaintInv'
  BY <1>1, PaintStep
<1>3. Settled'
  BY <1>1, SettledHolds
<1>4. LineInv'
  BY <1>1, LineHolds
<1>5. CircleInv'
  BY <1>1, CircleHolds
<1>6. GlyphInv'
  BY <1>1, GlyphHolds
<1>7. NumberInv'
  BY <1>1, NumberHolds
<1>8. TextInv'
  BY <1>1, TextHolds
<1>9. QED
  BY <1>2, <1>3, <1>4, <1>5, <1>6, <1>7, <1>8 DEF DrawInv

(* What a call leaves in the image is what it is named for: a line keeps   *)
(* to the ideal line, a circle is round and a filled one whole, glyphs are *)
(* read from their own bytes, numbers read back and a text that fits is    *)
(* drawn whole, for images of any size, any points, radii and texts.       *)
THEOREM DrawingsStayRight == PaintSpec => []DrawingsAreRight
<1>1. PaintInit => DrawInv
  BY DrawAtFirst
<1>2. DrawInv /\ [PaintNext]_paintvars => DrawInv'
  BY DrawKept
<1>3. DrawInv => DrawingsAreRight
  <2>1. SUFFICES ASSUME DrawInv PROVE DrawingsAreRight
    OBVIOUS
  <2>2. PaintInv /\ Settled /\ LineInv /\ CircleInv /\ GlyphInv /\ NumberInv /\ TextInv
    BY <2>1 DEF DrawInv
  <2>3. LineIsNear
    BY <2>2, LineMeans
  <2>4. CircleIsRound
    BY <2>2, CircleMeans
  <2>5. GlyphsAreInTheirTables
    BY <2>2, GlyphsAreInside
  <2>6. NumberReadsBack
    BY <2>2, NumberIsRead
  <2>7. TextIsWhole
    BY <2>2, TextMeans
  <2>8. QED
    BY <2>3, <2>4, <2>5, <2>6, <2>7 DEF DrawingsAreRight
<1>4. QED
  BY <1>1, <1>2, <1>3, PTL DEF PaintSpec
=============================================================================
