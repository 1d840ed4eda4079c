------------------------------- MODULE Fonts --------------------------------
(***************************************************************************)
(* The fonts of spi_app_layer/oledfonts: of each the width and height of a *)
(* glyph in pixels and the number of bytes its table holds.  What the      *)
(* glyphs look like is left out.                                           *)
(***************************************************************************)
EXTENDS Integers

(* sFONT: glyphs of ' ' .. '~' one behind the other.                       *)
Font8  == [Width |-> 5,  Height |-> 8,  table |-> 760]
Font12 == [Width |-> 7,  Height |-> 12, table |-> 1140]
Font16 == [Width |-> 11, Height |-> 16, table |-> 3040]
Font20 == [Width |-> 14, Height |-> 20, table |-> 3800]
Font24 == [Width |-> 17, Height |-> 24, table |-> 6840]
SFonts == {Font8, Font12, Font16, Font20, Font24}

(* cFONT: a table of glyphs, each found by the bytes of its character, in  *)
(* matrices of the same size for every font.                               *)
MAX_HEIGHT_FONT == 41
MAX_WIDTH_FONT  == 32
CH_CN    == (MAX_HEIGHT_FONT * MAX_WIDTH_FONT) \div 8
Font12CN == [ASCII_Width |-> 11, Width |-> 16, Height |-> 21, size |-> 9]
Font24CN == [ASCII_Width |-> 24, Width |-> 32, Height |-> 41, size |-> 27]
CFonts == {Font12CN, Font24CN}
=============================================================================
