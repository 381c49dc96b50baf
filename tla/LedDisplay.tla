----------------------------- MODULE LedDisplay -----------------------------
(***************************************************************************)
(* What write_num_to_display() of app/src/display/led_display.c puts on a  *)
(* box: the strip of 126 pixels runs through two panels of three digits of *)
(* seven segments, three pixels a segment, the lowest digit first.  A      *)
(* picture is the set of pixels that are on; colours are left out.         *)
(***************************************************************************)
EXTENDS Integers, Sequences

StripNumPixels == 126

\* Bits 6 to 0 are the segments, 0 to 6.
digit_segment_map == <<126, 48, 109, 121, 51, 91, 95, 112, 127, 123>>

SegmentsOn(digit) ==
  {s \in 0 .. 6 : (digit_segment_map[digit + 1] \div 2^(6 - s)) % 2 = 1}

\* Seeded fault: the second panel starts a pixel late.
PixelsOnShifted(digit, offset) ==
  {first + 3 * s + offset : first \in {0, 1, 2, 64, 65, 66}, s \in SegmentsOn(digit)}

\* display_digit(): the pixels it adds to those already set.
PixelsOn(digit, offset) ==
  {first + 3 * s + offset : first \in {0, 1, 2, 63, 64, 65}, s \in SegmentsOn(digit)}

\* Seeded fault: no number is too long.
TransfersUnchecked(num) ==
  LET ones     == PixelsOn(num % 10, 0)
      tens     == PixelsOn((num \div 10) % 10, 21)
      hundreds == PixelsOn((num \div 100) % 10, 42)
  IN  CASE num > 99 -> <<ones, ones \cup tens, ones \cup tens \cup hundreds>>
        [] num \in 10 .. 99 -> <<ones, ones \cup tens>>
        [] OTHER -> <<ones>>

\* The pictures sent to the strip for a number, one transfer each: after memset
\* each digit goes out with those before it, and nothing above 999.
Transfers(num) ==
  LET ones     == PixelsOn(num % 10, 0)
      tens     == PixelsOn((num \div 10) % 10, 21)
      hundreds == PixelsOn((num \div 100) % 10, 42)
  IN  CASE num > 999 -> <<{}>>
        [] num \in 100 .. 999 -> <<ones, ones \cup tens, ones \cup tens \cup hundreds>>
        [] num \in 10 .. 99 -> <<ones, ones \cup tens>>
        [] OTHER -> <<ones>>

Picture(num) == Transfers(num)[Len(Transfers(num))]

-----------------------------------------------------------------------------
(* What a reader of the sign expects, apart from the tables of the code.   *)

\* The bars of the digits 0 to 9 on any seven segment display.
Font == <<{"a", "b", "c", "d", "e", "f"}, {"b", "c"}, {"a", "b", "g", "e", "d"},
          {"a", "b", "g", "c", "d"}, {"f", "g", "b", "c"}, {"a", "f", "g", "c", "d"},
          {"a", "f", "e", "d", "c", "g"}, {"a", "b", "c"},
          {"a", "b", "c", "d", "e", "f", "g"}, {"a", "b", "c", "d", "f", "g"}>>

Bars == <<"a", "b", "c", "d", "e", "f", "g">>

\* The bar, digit place and panel of a pixel.
BarOf(pixel)   == Bars[(pixel % 21) \div 3 + 1]
PlaceOf(pixel) == (pixel % 63) \div 21

\* A number with its lowest n digits on every panel.
LowDigits(num, n) ==
  {pixel \in 0 .. StripNumPixels - 1 :
     /\ PlaceOf(pixel) < n
     /\ BarOf(pixel) \in Font[((num \div 10^PlaceOf(pixel)) % 10) + 1]}

Length(num) == IF num < 10 THEN 1 ELSE IF num < 100 THEN 2 ELSE 3

\* The number itself; no number has more than three digits.
Expected(num) == IF num > 999 THEN {} ELSE LowDigits(num, Length(num))

ExpectedParts(num) ==
  IF num > 999 THEN {{}} ELSE {LowDigits(num, n) : n \in 1 .. Length(num)}
=============================================================================
