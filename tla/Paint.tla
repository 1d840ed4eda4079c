-------------------------------- MODULE Paint --------------------------------
(***************************************************************************)
(* The drawing library spi_app_layer/oledgui/GUI_Paint.c.  A caller makes  *)
(* an image, settles how it is turned, mirrored and packed, and draws one  *)
(* shape after the other; a shape is drawn step by step.  Colours are left *)
(* out: a pixel is painted or it is not.                                   *)
(***************************************************************************)
EXTENDS Integers, SequencesExt, FiniteSets, Fonts

CONSTANTS
    Sizes,      \* of images: pairs <<width, height>> of their memory
    Charts,     \* those of them in which everything is drawn at every point
    Corners,    \* points that shapes are drawn at, whatever the settings
    DotSizes, Radii,
    Scripts     \* what is written: [call, x, y, font, text], with numbers as text

(* Images are small enough for WidthByte to be a UWORD in every scale, and *)
(* for an address to be an int.  Radii are UWORDs; a filled circle of      *)
(* radius 32767, whose sCountY never passes YCurrent, is left out.         *)
ASSUME PaintAssumption ==
    /\ Sizes \subseteq (Nat \ {0}) \X (Nat \ {0}) /\ \A s \in Sizes : s[1] < 32768 /\ s[2] < 32768
    /\ Corners \subseteq Nat \X Nat
    /\ DotSizes \subseteq Nat /\ Radii \subseteq Nat /\ \A r \in Radii : r < 65536 /\ r # 32767

(* What is written: text of the characters a font has, numbers that an int *)
(* holds with the digits of a fraction, a time, or Chinese text, in which  *)
(* two bytes, the "t", follow the leading byte of a character.             *)
Tens == <<1, 10, 100, 1000, 10000, 100000, 1000000, 10000000, 100000000, 1000000000>>
INT_MAX == 2147483647
Complete(text) ==
    /\ text \in Seq({"ascii", "Ascii", "lead", "other", "t"})
    /\ \A i \in DOMAIN text :
          /\ text[i] \in {"lead", "other"} => i + 2 <= Len(text)
          /\ text[i] = "t" <=> \E j \in 1 .. i - 1 : text[j] \in {"lead", "other"} /\ j >= i - 2
ASSUME ScriptAssumption ==
    \A s \in Scripts :
       /\ s.x \in Nat /\ s.y \in Nat
       /\ \/ s.call = "string" /\ s.font \in SFonts /\ s.text \in Seq(32 .. 126)
          \/ /\ s.call = "time" /\ s.font \in SFonts
             /\ s.text \in Nat \X Nat \X Nat /\ \A i \in 1 .. 3 : s.text[i] < 60
          \/ /\ s.call = "number" /\ s.font \in SFonts
             /\ s.text \in Nat \X Nat \X (0 .. 9) /\ s.text[1] <= INT_MAX
             /\ s.text[2] < Tens[s.text[3] + 1]
          \/ s.call = "chinese" /\ s.font \in CFonts /\ Complete(s.text)

VARIABLES
    Paint,      \* the image in use and its settings
    todo,       \* the shapes and parts of shapes still to draw
    shape,      \* the last call
    drawn,      \* the pixels it painted
    lost,       \* it had pixels that were clipped
    strays      \* how it came to write outside of the image, if it did

paintvars == <<Paint, todo, shape, drawn, lost, strays>>

ROTATES == {0, 90, 180, 270}
MIRRORS == {"none", "horizontal", "vertical", "origin"}
SCALES  == {2, 4, 16, 65}
NoShape     == [call |-> "none"]
U16(n)  == n % 65536                                    \* UWORD
I16(n)  == ((n + 32768) % 65536) - 32768                \* int16_t
Upper(a, b) == IF a > b THEN a ELSE b
Dist(a, b)  == Upper(a - b, b - a)

(* Pixels in a byte, and bytes in a row of the image.                      *)
Per(scale) == CASE scale = 2 -> 8 [] scale = 4 -> 4 [] scale = 16 -> 2 [] scale = 65 -> 1
(* Mutant: the last, unfinished byte of a row is forgotten.                *)
WidthFloor(w, scale)  == IF scale = 65 THEN 2 * w ELSE w \div Per(scale)
WidthBytes(w, scale) ==
    IF scale = 65 THEN 2 * w ELSE (w + Per(scale) - 1) \div Per(scale)

Bytes == Paint.WidthByte * Paint.HeightByte     \* what the caller allocates

Paint_NewImage(w, h, rotate) ==
    [WidthByte |-> WidthBytes(w, 2), HeightByte |-> h, WidthMemory |-> w, HeightMemory |-> h,
     Rotate |-> rotate, Mirror |-> "none", Scale |-> 2,
     Width  |-> IF rotate \in {0, 180} THEN w ELSE h,
     Height |-> IF rotate \in {0, 180} THEN h ELSE w]

PaintInit == /\ \E s \in Sizes : Paint = Paint_NewImage(s[1], s[2], 0)
             /\ todo = <<>> /\ shape = NoShape /\ drawn = {} /\ lost = FALSE /\ strays = {}
-----------------------------------------------------------------------------
(* Paint_SetPixel: turned, mirrored, and both times clipped one too late.  *)
Rotated(x, y) ==
    CASE Paint.Rotate = 0   -> <<x, y>>
      [] Paint.Rotate = 90  -> <<U16(Paint.WidthMemory - y - 1), x>>
      [] Paint.Rotate = 180 -> <<U16(Paint.WidthMemory - x - 1), U16(Paint.HeightMemory - y - 1)>>
      [] Paint.Rotate = 270 -> <<y, U16(Paint.HeightMemory - x - 1)>>
Mirrored(c) ==
    <<IF Paint.Mirror \in {"horizontal", "origin"} THEN U16(Paint.WidthMemory - c[1] - 1) ELSE c[1],
      IF Paint.Mirror \in {"vertical", "origin"} THEN U16(Paint.HeightMemory - c[2] - 1) ELSE c[2]>>
Clipped(x, y) ==
    \/ x > Paint.Width \/ y > Paint.Height
    \/ LET c == Mirrored(Rotated(x, y))
       IN  c[1] > Paint.WidthMemory \/ c[2] > Paint.HeightMemory
(* The bytes a pixel is in, with its place there.                          *)
Cells(x, y) ==
    LET c == Mirrored(Rotated(x, y))
        n == Per(Paint.Scale)
    IN  IF Paint.Scale = 65
        THEN {<<c[1] * 2 + c[2] * Paint.WidthByte + b, 0>> : b \in {0, 1}}
        ELSE {<<c[1] \div n + c[2] * Paint.WidthByte, c[1] % n>>}
Outside(x, y) == \E c \in Cells(x, y) : c[1] \notin 0 .. Bytes - 1

(* The image was made for the way it is turned now.                        *)
Fitting == (Paint.Width = Paint.WidthMemory) <=> (Paint.Rotate \in {0, 180})

SetPixels(points) ==
    LET on == {q \in points : ~Clipped(q[1], q[2])}
    IN  /\ drawn' = drawn \cup on
        /\ lost' = (lost \/ on # points)
        /\ strays' = strays \cup
              {IF q[1] = Paint.Width \/ q[2] = Paint.Height THEN "edge"
               ELSE IF ~Fitting THEN "turned" ELSE "inside" : q \in {q \in on : Outside(q[1], q[2])}}

(* Paint_DrawPoint: an area around the point, and a row up and left of it; *)
(* what would begin above or left of the image is not drawn at all.        *)
DrawPoint(x, y, size, dots) ==
    IF x > Paint.Width \/ y > Paint.Height THEN {}
    ELSE IF dots = "around"
         THEN {<<x + i - size, y + j - size>> : i \in {i \in 0 .. 2 * size - 2 : x + i >= size},
                                             j \in {j \in 0 .. 2 * size - 2 : y >= size}}
         ELSE {<<U16(x + i - 1), U16(y + j - 1)>> : i, j \in 0 .. size - 1}
-----------------------------------------------------------------------------
(* The frames a call leaves to do: one per shape, or one per glyph.        *)
Line(x, y, xe, ye, size) ==
    [op |-> "line", x |-> x, y |-> y, xe |-> xe, ye |-> ye, size |-> size,
     dx |-> Dist(x, xe), dy |-> -Dist(y, ye), Esp |-> Dist(x, xe) - Dist(y, ye),
     XAddway |-> IF x < xe THEN 1 ELSE -1, YAddway |-> IF y < ye THEN 1 ELSE -1]
DrawLine(x, y, xe, ye, size) ==
    IF Upper(x, xe) > Paint.Width \/ Upper(y, ye) > Paint.Height THEN <<>>
    ELSE <<Line(x, y, xe, ye, size)>>
DrawRectangle(x, y, xe, ye, size, fill) ==
    IF Upper(x, xe) > Paint.Width \/ Upper(y, ye) > Paint.Height THEN <<>>
    ELSE IF fill
         THEN [n \in 1 .. Upper(0, ye - y) |-> Line(x, y + n - 1, xe, y + n - 1, size)]
         ELSE DrawLine(x, y, xe, y, size) \o DrawLine(x, y, x, ye, size)
                \o DrawLine(xe, ye, xe, y, size) \o DrawLine(xe, ye, x, ye, size)
(* Mutant: the error begins with one radius.                               *)
DrawCircleOff(x, y, r, size, fill) ==
    IF x > Paint.Width \/ y >= Paint.Height THEN <<>>
    ELSE <<[op |-> "circle", x |-> x, y |-> y, xc |-> 0, yc |-> I16(r), Esp |-> I16(3 - r),
            size |-> size, fill |-> fill]>>
DrawCircle(x, y, r, size, fill) ==
    IF x > Paint.Width \/ y >= Paint.Height THEN <<>>
    ELSE <<[op |-> "circle", x |-> x, y |-> y, xc |-> 0, yc |-> I16(r), Esp |-> I16(3 - 2 * r),
            size |-> size, fill |-> fill]>>

RowBytes(font) == (font.Width + 7) \div 8
Glyph(x, y, font, first, last, turned) ==
    <<[op |-> "glyph", x |-> x, y |-> y, font |-> font, row |-> 0, ptr |-> first,
       first |-> first, last |-> last, turned |-> turned]>>
DrawChar(x, y, char, font) ==
    LET offset == (char - 32) * font.Height * RowBytes(font)
    IN  IF x > Paint.Width \/ y > Paint.Height THEN <<>>
        ELSE Glyph(x, y, font, offset, offset + font.Height * RowBytes(font) - 1, TRUE)
DrawString_EN(x, y, text, font) ==
    IF x > Paint.Width \/ y > Paint.Height THEN <<>>
    ELSE <<[op |-> "string", x |-> x, y |-> y, x0 |-> x, y0 |-> y, text |-> text, font |-> font]>>
DrawString_CN(x, y, text, font) ==
    <<[op |-> "cn", x |-> x, y |-> y, text |-> text, at |-> 1, font |-> font]>>

(* The digits of n, the last one first, and of a fraction of that many.    *)
Digits(n, many) == [i \in 1 .. many |-> 48 + ((n \div Tens[i]) % 10)]
Places(n)       == CHOOSE k \in 0 .. 10 : (k > 0 => n >= Tens[k]) /\ (k < 10 => n < Tens[k + 1])
(* Mutant: the string is not turned round.                                 *)
NumUnreversed(n, fraction, digit) ==
    (IF digit > 0 THEN Digits(fraction, digit) \o <<46>> ELSE <<>>) \o Digits(n, Places(n))
NumText(n, fraction, digit) ==
    Reverse((IF digit > 0 THEN Digits(fraction, digit) \o <<46>> ELSE <<>>)
              \o Digits(n, Places(n)))
DrawNum(x, y, n, fraction, digit, font) ==
    DrawString_EN(x, y, NumText(n, fraction, digit), font)

DrawTime(x, y, t, font) ==
    LET D == font.Width
        at == <<0, D, D + D \div 4 + D \div 2, 2 * D + D \div 2, 3 * D + D \div 2,
                4 * D + D \div 2 - D \div 4, 5 * D, 6 * D>>
        char == <<48 + t[1] \div 10, 48 + (t[1] % 10), 58, 48 + t[2] \div 10, 48 + (t[2] % 10),
                  58, 48 + t[3] \div 10, 48 + (t[3] % 10)>>
        put(n) == DrawChar(x + at[n], y, char[n], font)
    IN  put(1) \o put(2) \o put(3) \o put(4) \o put(5) \o put(6) \o put(7) \o put(8)
-----------------------------------------------------------------------------
(* One step of a shape.                                                    *)
f == Head(todo)
Steps(frames) == todo' = frames \o Tail(todo) /\ UNCHANGED <<Paint, shape>>

(* Mutant: the second test of a point moves on whatever the first did.     *)
LineSkips ==
    /\ f.op = "line" /\ SetPixels(DrawPoint(f.x, f.y, f.size, "around"))
    /\ Steps(IF f.x = f.xe \/ f.y = f.ye THEN <<>>
             ELSE <<[f EXCEPT !.x = @ + f.XAddway, !.y = @ + f.YAddway]>>)

LineStep ==
    LET goX == 2 * f.Esp >= f.dy
        e1  == f.Esp + (IF goX THEN f.dy ELSE 0)
        goY == 2 * e1 <= f.dx
        sx  == IF goX THEN f.XAddway ELSE 0
        sy  == IF goY THEN f.YAddway ELSE 0
    IN  /\ f.op = "line" /\ SetPixels(DrawPoint(f.x, f.y, f.size, "around"))
        /\ Steps(IF (goX /\ f.x = f.xe) \/ (goY /\ f.y = f.ye) THEN <<>>
                 ELSE <<[f EXCEPT !.x = @ + sx, !.y = @ + sy,
                                  !.Esp = e1 + (IF goY THEN f.dx ELSE 0)]>>)

CircleStep ==
    LET eight(a, b) == {<<a, b>>, <<-a, b>>, <<-b, a>>, <<-b, -a>>,
                        <<-a, -b>>, <<a, -b>>, <<b, -a>>, <<b, a>>}
        points == UNION {eight(f.xc, s) : s \in IF f.fill THEN f.xc .. f.yc ELSE {f.yc}}
        size   == IF f.fill THEN 1 ELSE f.size
    IN  /\ f.op = "circle"
        /\ IF f.xc > f.yc THEN Steps(<<>>) /\ UNCHANGED <<drawn, lost, strays>>
           ELSE /\ SetPixels(UNION {DrawPoint(U16(f.x + q[1]), U16(f.y + q[2]), size, "around") :
                                      q \in points})
                /\ Steps(<<IF f.Esp < 0
                           THEN [f EXCEPT !.xc = I16(@ + 1), !.Esp = I16(@ + 4 * f.xc + 6)]
                           ELSE [f EXCEPT !.xc = I16(@ + 1), !.yc = I16(@ - 1),
                                          !.Esp = I16(@ + 10 + 4 * (f.xc - f.yc))]>>)

(* A row of a glyph: its bytes are read from ptr on.                       *)
(* Mutant: a row ends with a byte of its own however wide it is.           *)
RowOver(font) == font.Width \div 8 + 1
RowOf(font)   == font.Width \div 8 + (IF font.Width % 8 # 0 THEN 1 ELSE 0)
GlyphStep ==
    /\ f.op = "glyph"
    /\ SetPixels({IF f.turned THEN <<U16(f.x + f.row), U16(f.y + c)>>
                  ELSE <<U16(f.x + c), U16(f.y + f.row)>> : c \in 0 .. f.font.Width - 1})
    /\ Steps(IF f.row + 1 = f.font.Height THEN <<>>
             ELSE <<[f EXCEPT !.row = @ + 1, !.ptr = @ + RowOf(f.font)]>>)

(* Mutant: only what begins below the image is too low.                    *)
TooLowLate(y, font) == y > Paint.Height
TooLow(y, font)     == y + font.Height > Paint.Height
StringStep ==
    LET full == f.x + f.font.Width > Paint.Width
        y1   == IF full THEN f.y + f.font.Height ELSE f.y
        over == TooLow(y1, f.font)
        x    == IF full \/ over THEN f.x0 ELSE f.x
        y    == IF over THEN f.y0 ELSE y1
    IN  /\ f.op = "string" /\ UNCHANGED <<drawn, lost, strays>>
        /\ Steps(IF f.text = <<>> THEN <<>>
                 ELSE DrawChar(x, y, Head(f.text), f.font)
                        \o <<[f EXCEPT !.x = x, !.y = y + f.font.Width, !.text = Tail(@)]>>)

(* Text of bytes: an ASCII or a leading byte is in the font's table or is  *)
(* not, and the pointer passes three bytes for a Chinese character.        *)
Stride(byte)    == IF byte \in {"ascii", "Ascii"} THEN 1 ELSE 3
ChineseStep ==
    /\ f.op = "cn" /\ UNCHANGED <<drawn, lost, strays>>
    /\ Steps(IF f.at > Len(f.text) THEN <<>>
             ELSE LET byte == f.text[f.at]
                      ascii == byte \in {"ascii", "Ascii"}
                  IN  (IF byte \in {"ascii", "lead"}
                       THEN Glyph(U16(f.x), U16(f.y), f.font, 0, CH_CN - 1, FALSE) ELSE <<>>)
                        \o <<[f EXCEPT !.at = @ + Stride(byte),
                               !.x = @ + IF ascii THEN f.font.ASCII_Width ELSE f.font.Width]>>)

(* Paint_ClearWindows calls Paint_SetPixel, the others go over the bytes;  *)
(* with two bytes to a pixel Paint_Clear leaves the image behind.          *)
WindowStep == /\ f.op = "window" /\ Steps(<<>>)
              /\ SetPixels({<<x, y>> : x \in f.x .. f.xe - 1, y \in f.y .. f.ye - 1})
(* Mutant: a row too many.                                                 *)
ByteRowsOver == 0 .. Paint.HeightByte
ByteRows     == 0 .. Paint.HeightByte - 1
ClearStep  ==
    /\ f.op \in {"clear", "bitmap", "block"} /\ Steps(<<>>) /\ UNCHANGED <<drawn, lost>>
    /\ LET wide == f.op = "clear" /\ Paint.Scale = 65
           addresses == {(IF wide THEN 2 * x + 1 ELSE x) + y * Paint.WidthByte :
                           x \in 0 .. Paint.WidthByte - 1, y \in ByteRows}
       IN  strays' = strays \cup {IF wide THEN "wide" ELSE "inside" : a \in addresses \ (0 .. Bytes - 1)}
-----------------------------------------------------------------------------
(* The calls.  Settings change between shapes.                             *)
Resting == todo = <<>> /\ shape = NoShape
Sets(image) == Paint' = image /\ UNCHANGED <<todo, shape, drawn, lost, strays>>

NewImage     == \E s \in Sizes, r \in ROTATES : Sets(Paint_NewImage(s[1], s[2], r))
SetRotate    == \E r \in ROTATES : Sets([Paint EXCEPT !.Rotate = r])
SetScale     == \E s \in SCALES :
    Sets([Paint EXCEPT !.Scale = s, !.WidthByte = WidthBytes(Paint.WidthMemory, s)])
SetMirroring == \E m \in MIRRORS : Sets([Paint EXCEPT !.Mirror = m])

Calls(s, frames) == /\ todo' = frames /\ shape' = s
                    /\ UNCHANGED <<Paint, drawn, lost, strays>>
Upright == Paint.Rotate = 0 /\ Paint.Mirror = "none" /\ Paint.Scale = 2 /\ Fitting
Points  == Corners \cup (IF Upright /\ <<Paint.WidthMemory, Paint.HeightMemory>> \in Charts
                        THEN (0 .. Paint.Width) \X (0 .. Paint.Height) ELSE {})

DrawsPoint  == /\ UNCHANGED <<Paint, todo>>
               /\ \E q \in Points, n \in DotSizes, dots \in {"around", "rightup"} :
                     /\ shape' = [call |-> "point", x |-> q[1], y |-> q[2], size |-> n]
                     /\ SetPixels(DrawPoint(q[1], q[2], n, dots))
DrawsLine   == \E q \in Points, e \in Points, n \in DotSizes :
    Calls([call |-> "line", x |-> q[1], y |-> q[2], xe |-> e[1], ye |-> e[2], size |-> n],
          DrawLine(q[1], q[2], e[1], e[2], n))
DrawsRectangle == \E q \in Corners, e \in Corners, n \in DotSizes, fill \in BOOLEAN :
    Upright /\ Calls([call |-> "rectangle", x |-> q[1], y |-> q[2], xe |-> e[1], ye |-> e[2],
           size |-> n, fill |-> fill], DrawRectangle(q[1], q[2], e[1], e[2], n, fill))
DrawsCircle == \E q \in Points, r \in Radii, n \in DotSizes, fill \in BOOLEAN :
    Calls([call |-> "circle", x |-> q[1], y |-> q[2], r |-> r, size |-> n, fill |-> fill],
          DrawCircle(q[1], q[2], r, n, fill))
Clears      == \/ \E op \in {"clear", "bitmap", "block"} : Calls([call |-> op], <<[op |-> op]>>)
               \/ \E q \in Corners, e \in Corners :
                     Calls([call |-> "window"], <<[op |-> "window", x |-> q[1], y |-> q[2],
                                                   xe |-> e[1], ye |-> e[2]]>>)
Writes      == \E s \in Scripts :
    Upright /\ Calls(s,
        CASE s.call = "string"  -> DrawString_EN(s.x, s.y, s.text, s.font)
          [] s.call = "chinese" -> DrawString_CN(s.x, s.y, s.text, s.font)
          [] s.call = "number"  -> DrawNum(s.x, s.y, s.text[1], s.text[2], s.text[3], s.font)
          [] s.call = "time"    -> DrawTime(s.x, s.y, s.text, s.font))

Returns == /\ todo = <<>> /\ shape # NoShape /\ UNCHANGED <<Paint, todo>>
           /\ shape' = NoShape /\ drawn' = {} /\ lost' = FALSE /\ strays' = {}
Draws   == /\ todo # <<>>
           /\ \/ LineStep \/ CircleStep \/ GlyphStep \/ StringStep \/ ChineseStep
              \/ WindowStep \/ ClearStep

PaintNext == \/ /\ Resting
                /\ \/ NewImage \/ SetRotate \/ SetScale \/ SetMirroring
                   \/ DrawsPoint \/ DrawsLine \/ DrawsRectangle \/ DrawsCircle \/ Clears \/ Writes
             \/ Draws \/ Returns
PaintSpec == PaintInit /\ [][PaintNext]_paintvars
-----------------------------------------------------------------------------
PaintTypeOK ==
    /\ Paint.Rotate \in ROTATES /\ Paint.Mirror \in MIRRORS /\ Paint.Scale \in SCALES
    /\ <<Paint.WidthMemory, Paint.HeightMemory>> \in Sizes
    /\ drawn \subseteq (0 .. Paint.Width) \X (0 .. Paint.Height)
    /\ lost \in BOOLEAN /\ strays \subseteq {"edge", "turned", "wide", "inside"}

(* However the image is turned, mirrored and packed, two pixels share no   *)
(* bits, and all of them are in the image.                                 *)
PixelsHaveTheirOwnBits ==
    (Fitting /\ Resting) =>
        LET all == (0 .. Paint.Width - 1) \X (0 .. Paint.Height - 1)
        IN  /\ \A q \in all : ~Outside(q[1], q[2]) /\ ~Clipped(q[1], q[2])
            /\ Cardinality(UNION {Cells(q[1], q[2]) : q \in all})
                 = Cardinality(all) * (IF Paint.Scale = 65 THEN 2 ELSE 1)

(* A write outside of the image comes from the test that lets the pixels   *)
(* one past the width or the height through, from an image turned after it *)
(* was made, or from Paint_Clear at two bytes to a pixel; else from none.  *)
StraysAreKnown == "inside" \notin strays

(* A line of single dots, its ends inside of the image: it begins where it *)
(* should, no dot is more than one and a half from the ideal line, and it  *)
(* stops at most one dot short of its end.  All dots are a step up and     *)
(* left of their points.                                                   *)
SingleLine == /\ todo = <<>> /\ shape.call = "line" /\ shape.size = 1 /\ Fitting
              /\ {shape.x, shape.xe} \subseteq 1 .. Paint.Width
              /\ {shape.y, shape.ye} \subseteq 1 .. Paint.Height
LineIsNear ==
    SingleLine =>
        LET dx == shape.xe - shape.x
            dy == shape.ye - shape.y
            n  == Upper(Dist(shape.x, shape.xe), Dist(shape.y, shape.ye))
        IN  /\ <<shape.x - 1, shape.y - 1>> \in drawn /\ Cardinality(drawn) \in {n, n + 1}
            /\ \E q \in drawn : Dist(q[1] + 1, shape.xe) <= 1 /\ Dist(q[2] + 1, shape.ye) <= 1
            /\ \A q \in drawn :
                  2 * Dist(dx * (q[2] + 1 - shape.y), dy * (q[1] + 1 - shape.x)) <= 3 * n

(* GUI_Paint.c:367-368 call Xend and Yend the end point of the line.       *)
LineMeetsItsEnd == SingleLine => <<shape.xe - 1, shape.ye - 1>> \in drawn

(* A circle that was drawn whole is as round as dots can be, and a filled  *)
(* one has no holes, while its error stays within 16 bits.                 *)
CircleIsRound ==
    (todo = <<>> /\ shape.call = "circle" /\ shape.size = 1 /\ ~lost
        /\ shape.r < 8192 /\ shape.x > shape.r /\ shape.y > shape.r
        /\ shape.x + shape.r <= Paint.Width /\ shape.y + shape.r < Paint.Height) =>
        LET sq(n) == n * n
            d2(q) == sq(q[1] + 1 - shape.x) + sq(q[2] + 1 - shape.y)
            r == shape.r
        IN  /\ \A q \in drawn : d2(q) <= r * r + r
            /\ IF shape.fill
               THEN {q \in (0 .. Paint.Width) \X (0 .. Paint.Height) : d2(q) <= r * r - r} \subseteq drawn
               ELSE \A q \in drawn : d2(q) >= r * r - r

(* A glyph is read from the bytes of its own character and from no other,  *)
(* and a string ends where it ends.                                        *)
GlyphsAreInTheirTables ==
    \A i \in DOMAIN todo :
        LET g == todo[i]
        IN  /\ g.op = "glyph" =>
                  /\ g.first <= g.ptr /\ g.ptr + (g.font.Width - 1) \div 8 <= g.last
                  /\ g.turned => 0 <= g.first /\ g.last < g.font.table
            /\ g.op = "cn" => g.at <= Len(g.text) + 1

(* A number is shown with its digits in their order.                       *)
Value(digits) ==
    LET v[i \in 0 .. Len(digits)] == IF i = 0 THEN 0 ELSE 10 * v[i - 1] + digits[i] - 48
    IN  v[Len(digits)]
NumberReadsBack ==
    (shape.call = "number" /\ todo # <<>> /\ f.op = "string" /\ drawn = {}) =>
        LET k == shape.text[3]
            n == Len(f.text)
        IN  IF k = 0 THEN Value(f.text) = shape.text[1]
            ELSE /\ Value(SubSeq(f.text, 1, n - k - 1)) = shape.text[1]
                 /\ Value(SubSeq(f.text, n - k + 1, n)) = shape.text[2]

(* A string that starts where a glyph fits, lying on its side as it is     *)
(* drawn, is drawn without a pixel lost, however often it starts again.    *)
TextIsWhole ==
    (shape.call = "string" /\ shape.x + shape.font.Height <= Paint.Width
        /\ shape.y + shape.font.Height <= Paint.Height) => ~lost

(* The addressing: no pixel harms another one, or what is not the image.   *)
PixelsStayApart == PaintTypeOK /\ StraysAreKnown /\ PixelsHaveTheirOwnBits

(* The drawing: what a call leaves in the image is what it is named for.   *)
DrawingsAreRight ==
    LineIsNear /\ CircleIsRound /\ GlyphsAreInTheirTables /\ NumberReadsBack /\ TextIsWhole
=============================================================================
