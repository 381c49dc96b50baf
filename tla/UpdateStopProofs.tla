-------------------------- MODULE UpdateStopProofs --------------------------
(***************************************************************************)
(* Proofs about UpdateStop, for every mapping of boxes, every set of       *)
(* responses, every width of an unsigned int and every broken peripheral.  *)
(***************************************************************************)
EXTENDS UpdateStop, SequenceTheorems, WellFoundedInduction, TLAPS

-----------------------------------------------------------------------------
(* The display under it: for every number, the tables and offsets of        *)
(* led_display.c light exactly the bars a reader of the sign expects.       *)
(* A pixel has four coordinates: the panel h, the digit place k, the        *)
(* segment s and its position f in the segment.                             *)

\* The coordinates place a pixel.
LEMMA Placed ==
  ASSUME NEW h \in 0 .. 1, NEW k \in 0 .. 2, NEW s \in 0 .. 6, NEW f \in 0 .. 2,
         NEW p, p = 63 * h + 21 * k + 3 * s + f
  PROVE  p \in 0 .. StripNumPixels - 1 /\ PlaceOf(p) = k /\ BarOf(p) = Bars[s + 1]
<1>1. p \in 0 .. 125 /\ (p % 63) \div 21 = k /\ (p % 21) \div 3 = s
  OBVIOUS
<1> QED
  BY <1>1 DEF StripNumPixels, PlaceOf, BarOf

\* Every pixel has coordinates.
LEMMA Located ==
  ASSUME NEW p \in 0 .. StripNumPixels - 1
  PROVE  \E h \in 0 .. 1, k \in 0 .. 2, s \in 0 .. 6, f \in 0 .. 2 :
           p = 63 * h + 21 * k + 3 * s + f
BY DEF StripNumPixels

\* digit_segment_map draws the digits 0 to 9 as any seven segment display does.
LEMMA Glyphs ==
  ASSUME NEW d \in 0 .. 9, NEW s \in 0 .. 6
  PROVE  s \in SegmentsOn(d) <=> Bars[s + 1] \in Font[d + 1]
<1>1. CASE s = 0
  <2>1. 2 ^ (6 - s) = 64 /\ Bars[s + 1] = "a"
    BY <1>1 DEF Bars
  <2> QED
    BY <2>1 DEF SegmentsOn, digit_segment_map, Font
<1>2. CASE s = 1
  <2>1. 2 ^ (6 - s) = 32 /\ Bars[s + 1] = "b"
    BY <1>2 DEF Bars
  <2> QED
    BY <2>1 DEF SegmentsOn, digit_segment_map, Font
<1>3. CASE s = 2
  <2>1. 2 ^ (6 - s) = 16 /\ Bars[s + 1] = "c"
    BY <1>3 DEF Bars
  <2> QED
    BY <2>1 DEF SegmentsOn, digit_segment_map, Font
<1>4. CASE s = 3
  <2>1. 2 ^ (6 - s) = 8 /\ Bars[s + 1] = "d"
    BY <1>4 DEF Bars
  <2> QED
    BY <2>1 DEF SegmentsOn, digit_segment_map, Font
<1>5. CASE s = 4
  <2>1. 2 ^ (6 - s) = 4 /\ Bars[s + 1] = "e"
    BY <1>5 DEF Bars
  <2> QED
    BY <2>1 DEF SegmentsOn, digit_segment_map, Font
<1>6. CASE s = 5
  <2>1. 2 ^ (6 - s) = 2 /\ Bars[s + 1] = "f"
    BY <1>6 DEF Bars
  <2> QED
    BY <2>1 DEF SegmentsOn, digit_segment_map, Font
<1>7. CASE s = 6
  <2>1. 2 ^ (6 - s) = 1 /\ Bars[s + 1] = "g"
    BY <1>7 DEF Bars
  <2> QED
    BY <2>1 DEF SegmentsOn, digit_segment_map, Font
<1> QED
  BY <1>1, <1>2, <1>3, <1>4, <1>5, <1>6, <1>7

\* display_digit() lights the digit at its place, on both panels, and nothing else.
LEMMA DigitDrawn ==
  ASSUME NEW d \in 0 .. 9, NEW k \in 0 .. 2, NEW p
  PROVE  p \in PixelsOn(d, 21 * k) <=>
           p \in 0 .. StripNumPixels - 1 /\ PlaceOf(p) = k /\ BarOf(p) \in Font[d + 1]
<1>1. ASSUME p \in PixelsOn(d, 21 * k)
      PROVE  p \in 0 .. StripNumPixels - 1 /\ PlaceOf(p) = k /\ BarOf(p) \in Font[d + 1]
  <2>1. PICK first \in {0, 1, 2, 63, 64, 65}, s \in SegmentsOn(d) : p = first + 3 * s + 21 * k
    BY <1>1 DEF PixelsOn
  <2>2. s \in 0 .. 6
    BY DEF SegmentsOn
  <2>3. \E h \in 0 .. 1, f \in 0 .. 2 : p = 63 * h + 21 * k + 3 * s + f
    BY <2>1, <2>2
  <2> QED
    BY <2>2, <2>3, Placed, Glyphs
<1>2. ASSUME p \in 0 .. StripNumPixels - 1, PlaceOf(p) = k, BarOf(p) \in Font[d + 1]
      PROVE  p \in PixelsOn(d, 21 * k)
  <2>1. PICK h \in 0 .. 1, j \in 0 .. 2, s \in 0 .. 6, f \in 0 .. 2 :
          p = 63 * h + 21 * j + 3 * s + f
    BY <1>2, Located
  <2>2. j = k /\ BarOf(p) = Bars[s + 1]
    BY <1>2, <2>1, Placed
  <2>3. s \in SegmentsOn(d)
    BY <1>2, <2>2, Glyphs
  <2>4. 63 * h + f \in {0, 1, 2, 63, 64, 65} /\ p = (63 * h + f) + 3 * s + 21 * k
    BY <2>1, <2>2
  <2> QED
    BY <2>3, <2>4 DEF PixelsOn
<1> QED
  BY <1>1, <1>2

\* What the code computes with / and % are the digits of the number.
LEMMA Digits ==
  ASSUME NEW num \in Nat
  PROVE  /\ num % 10 \in 0 .. 9 /\ (num \div 10) % 10 \in 0 .. 9 /\ (num \div 100) % 10 \in 0 .. 9
         /\ num \div 10 ^ 0 = num /\ num \div 10 ^ 1 = num \div 10 /\ num \div 10 ^ 2 = num \div 100
<1>1. 10 ^ 0 = 1 /\ 10 ^ 1 = 10 /\ 10 ^ 2 = 100
  OBVIOUS
<1> QED
  BY <1>1

\* The pixels sent for the ones, the tens and the hundreds are the digits up to there.
LEMMA PartsDrawn ==
  ASSUME NEW num \in Nat
  PROVE  LET ones     == PixelsOn(num % 10, 0)
             tens     == PixelsOn((num \div 10) % 10, 21)
             hundreds == PixelsOn((num \div 100) % 10, 42)
         IN  /\ ones = LowDigits(num, 1)
             /\ ones \cup tens = LowDigits(num, 2)
             /\ ones \cup tens \cup hundreds = LowDigits(num, 3)
<1> DEFINE strip == 0 .. StripNumPixels - 1
           bar(p, n) == BarOf(p) \in Font[(n % 10) + 1]
<1>1. \A p : p \in PixelsOn(num % 10, 0) <=> p \in strip /\ PlaceOf(p) = 0 /\ bar(p, num)
  BY Digits, DigitDrawn, 21 * 0 = 0
<1>2. \A p : p \in PixelsOn((num \div 10) % 10, 21) <=>
               p \in strip /\ PlaceOf(p) = 1 /\ bar(p, num \div 10)
  BY Digits, DigitDrawn, 21 * 1 = 21
<1>3. \A p : p \in PixelsOn((num \div 100) % 10, 42) <=>
               p \in strip /\ PlaceOf(p) = 2 /\ bar(p, num \div 100)
  BY Digits, DigitDrawn, 21 * 2 = 42
<1>4. \A p \in strip : PlaceOf(p) \in 0 .. 2
  BY DEF PlaceOf, StripNumPixels
<1>5. ASSUME NEW n \in 1 .. 3, NEW p
      PROVE  p \in LowDigits(num, n) <=>
               /\ p \in strip
               /\ \/ PlaceOf(p) = 0 /\ bar(p, num)
                  \/ PlaceOf(p) = 1 /\ n > 1 /\ bar(p, num \div 10)
                  \/ PlaceOf(p) = 2 /\ n > 2 /\ bar(p, num \div 100)
  <2>1. p \in LowDigits(num, n) <=>
          p \in strip /\ PlaceOf(p) < n /\ bar(p, num \div 10 ^ PlaceOf(p))
    BY DEF LowDigits
  <2> HIDE DEF strip, bar
  <2>2. CASE p \in strip /\ PlaceOf(p) = 0
    BY <2>1, <2>2, Digits
  <2>3. CASE p \in strip /\ PlaceOf(p) = 1
    BY <2>1, <2>3, Digits
  <2>4. CASE p \in strip /\ PlaceOf(p) = 2
    BY <2>1, <2>4, Digits
  <2> QED
    BY <2>1, <2>2, <2>3, <2>4, <1>4
<1> HIDE DEF strip, bar
<1>6. PixelsOn(num % 10, 0) = LowDigits(num, 1)
  BY <1>1, <1>5
<1>7. PixelsOn(num % 10, 0) \cup PixelsOn((num \div 10) % 10, 21) = LowDigits(num, 2)
  BY <1>1, <1>2, <1>5
<1>8. PixelsOn(num % 10, 0) \cup PixelsOn((num \div 10) % 10, 21)
        \cup PixelsOn((num \div 100) % 10, 42) = LowDigits(num, 3)
  BY <1>1, <1>2, <1>3, <1>5
<1> QED
  BY <1>6, <1>7, <1>8

\* The transfers, written with the reader's digits.
LEMMA TransfersAre ==
  ASSUME NEW num \in Nat
  PROVE  /\ num > 999 => Transfers(num) = <<{}>>
         /\ num \in 100 .. 999 =>
              Transfers(num) = <<LowDigits(num, 1), LowDigits(num, 2), LowDigits(num, 3)>>
         /\ num \in 10 .. 99 => Transfers(num) = <<LowDigits(num, 1), LowDigits(num, 2)>>
         /\ num \in 0 .. 9 => Transfers(num) = <<LowDigits(num, 1)>>
<1> DEFINE ones == PixelsOn(num % 10, 0)
           two  == ones \cup PixelsOn((num \div 10) % 10, 21)
           all  == two \cup PixelsOn((num \div 100) % 10, 42)
<1>1. Transfers(num) = CASE num > 999 -> <<{}>>
                         [] num \in 100 .. 999 -> <<ones, two, all>>
                         [] num \in 10 .. 99 -> <<ones, two>>
                         [] OTHER -> <<ones>>
  BY DEF Transfers
<1>2. ones = LowDigits(num, 1) /\ two = LowDigits(num, 2) /\ all = LowDigits(num, 3)
  BY PartsDrawn
<1> HIDE DEF ones, two, all
<1>3. CASE num > 999
  BY <1>1, <1>3
<1>4. CASE num \in 100 .. 999
  <2>1. ~(num > 999) /\ num \notin 10 .. 99
    BY <1>4
  <2>2. Transfers(num) = <<ones, two, all>>
    BY <1>1, <1>4, <2>1
  <2> QED
    BY <2>2, <1>2, <1>4
<1>5. CASE num \in 10 .. 99
  <2>1. Transfers(num) = <<ones, two>>
    BY <1>1, <1>5
  <2> QED
    BY <2>1, <1>2, <1>5
<1>6. CASE num \in 0 .. 9
  <2>1. ~(num > 999) /\ num \notin 100 .. 999 /\ num \notin 10 .. 99
    BY <1>6
  <2>2. Transfers(num) = <<ones>>
    BY <1>1, <2>1
  <2> QED
    BY <2>2, <1>2, <1>6
<1> QED
  BY <1>3, <1>4, <1>5, <1>6

-----------------------------------------------------------------------------
(* Whatever number write_num_to_display() is given, the last transfer      *)
(* leaves on both panels the digits of that number in the bars of any      *)
(* seven segment display, and nothing at all of a number above 999.        *)
THEOREM PictureIsNumber == \A num \in Nat : Picture(num) = Expected(num)
<1> SUFFICES ASSUME NEW num \in Nat
             PROVE  Picture(num) = Expected(num)
  OBVIOUS
<1>1. CASE num > 999
  BY <1>1, TransfersAre DEF Picture, Expected
<1>2. CASE num \in 100 .. 999
  <2>1. Length(num) = 3 /\ Len(Transfers(num)) = 3 /\ Transfers(num)[3] = LowDigits(num, 3)
    BY <1>2, TransfersAre DEF Length
  <2> QED
    BY <1>2, <2>1 DEF Picture, Expected
<1>3. CASE num \in 10 .. 99
  <2>1. Length(num) = 2 /\ Len(Transfers(num)) = 2 /\ Transfers(num)[2] = LowDigits(num, 2)
    BY <1>3, TransfersAre DEF Length
  <2> QED
    BY <1>3, <2>1 DEF Picture, Expected
<1>4. CASE num \in 0 .. 9
  BY <1>4, TransfersAre DEF Picture, Expected, Length
<1> QED
  BY <1>1, <1>2, <1>3, <1>4

(* A transfer that is the last to arrive leaves the lowest digits of the   *)
(* number, right as far as they go.                                        *)
THEOREM TransfersAreParts ==
  \A num \in Nat : \A i \in DOMAIN Transfers(num) : Transfers(num)[i] \in ExpectedParts(num)
<1> SUFFICES ASSUME NEW num \in Nat, NEW i \in DOMAIN Transfers(num)
             PROVE  Transfers(num)[i] \in ExpectedParts(num)
  OBVIOUS
<1>1. CASE num > 999
  BY <1>1, TransfersAre DEF ExpectedParts
<1>2. CASE num \in 100 .. 999
  <2>1. i \in 1 .. 3 /\ Length(num) = 3 /\ Transfers(num)[i] = LowDigits(num, i)
    BY <1>2, TransfersAre DEF Length
  <2> QED
    BY <1>2, <2>1 DEF ExpectedParts
<1>3. CASE num \in 10 .. 99
  <2>1. i \in 1 .. 2 /\ Length(num) = 2 /\ Transfers(num)[i] = LowDigits(num, i)
    BY <1>3, TransfersAre DEF Length
  <2> QED
    BY <1>3, <2>1 DEF ExpectedParts
<1>4. CASE num \in 0 .. 9
  <2>1. i = 1 /\ Length(num) = 1 /\ Transfers(num)[i] = LowDigits(num, i)
    BY <1>4, TransfersAre DEF Length
  <2> QED
    BY <1>4, <2>1 DEF ExpectedParts
<1> QED
  BY <1>1, <1>2, <1>3, <1>4

\* A picture is a set of pixels of the strip.
LEMMA PartsFit ==
  ASSUME NEW num \in Nat, NEW part \in ExpectedParts(num)
  PROVE  part \subseteq 0 .. StripNumPixels - 1
BY DEF ExpectedParts, LowDigits

-----------------------------------------------------------------------------
(* The update: its types, and what holds while the departures are gone      *)
(* through.                                                                 *)

Route == [id : Ids, dests : Seq([dir : Dirs, min : Minute])]
Slots == [id : Ids \cup {None}, dests : Seq([dir : Dirs, min : Minute])]
Stops == [size : 0 .. MaxRoutes, slots : [1 .. MaxRoutes -> Slots]]

Types ==
  /\ pc \in {"wait", "parse", "pick", "write"}
  /\ result \in {-1, 0, 1}
  /\ response \in Responses \cup {NoBody}
  /\ stop \in Stops
  /\ route \in 1 .. MaxRoutes + 1
  /\ dep \in Nat \ {0}
  /\ times \in [Positions -> 0 .. UintMax]
  /\ lit \in [Positions -> BOOLEAN]
  /\ shown \in [Positions -> {Unwritten} \cup SUBSET (0 .. StripNumPixels - 1)]
  /\ port \in Positions
  /\ broken \in {{}, Faults}

\* From the sweep to the next restart or call, unless the update fails.
Live == pc \in {"pick", "write"} \/ Updated

\* Departure j of route i of the parsed stop, its minutes, and the box they are for.
At(i, j)     == i \in 1 .. stop.size /\ j \in 1 .. Len(stop.slots[i].dests)
MinAt(i, j)  == stop.slots[i].dests[j].min
For(i, j, p) ==
  /\ At(i, j) /\ MinAt(i, j) # -1
  /\ get_display_address(stop.slots[i].id, stop.slots[i].dests[j].dir) = p

\* update_routes() has dealt with it, or is writing it.
Behind(i, j)   == i < route \/ (i = route /\ (j < dep \/ (j = dep /\ pc = "write")))
Taken(i, j, p) == For(i, j, p) /\ Behind(i, j)

(* A number is on its way to a box only when it was chosen for that box,   *)
(* which is lit.                                                           *)
Writing ==
  pc = "write" =>
    /\ DeparturesLeft /\ Departure.min # -1
    /\ Display \in Positions /\ lit[Display]
    /\ times[Display] = Unsigned(Departure.min)

(* A departure taken has lit its box, and so has a time that is not 0.     *)
Covered ==
  Live => \A p \in Positions :
    /\ \A i, j \in Nat : Taken(i, j, p) => lit[p]
    /\ times[p] # 0 => lit[p]

(* The time of a box is the lowest of the departures taken, unless one of  *)
(* them is due at 0 minutes.                                               *)
Lowest ==
  Live => \A p \in Positions :
    (\A i, j \in Nat : Taken(i, j, p) => MinAt(i, j) # 0) =>
      \A i, j \in Nat : Taken(i, j, p) => 0 < times[p] /\ times[p] <= Unsigned(MinAt(i, j))

(* On a sign in order the time of a lit box is that of a departure taken.  *)
Justified ==
  (Healthy /\ Live) => \A p \in Positions :
    lit[p] => \E i, j \in Nat : Taken(i, j, p) /\ times[p] = Unsigned(MinAt(i, j))

(* It shows that time, but for the box being written.                      *)
Current ==
  (Healthy /\ Live) => \A p \in Positions :
    lit[p] => shown[p] = Expected(times[p]) \/ (pc = "write" /\ p = Display)

(* The parsed stop is the response, when that has no empty list.           *)
FromBody ==
  Live =>
    /\ response.kind \in {"no_routes", "routes"}
    /\ ~HasEmptyList(response) =>
         /\ stop.size = Len(response.routes)
         /\ \A i \in 1 .. stop.size : stop.slots[i] = response.routes[i]

Finished == Updated => route > stop.size

Inv == /\ Types /\ Writing /\ Covered /\ Lowest /\ Justified /\ Current
       /\ FromBody /\ Finished

-----------------------------------------------------------------------------
(* A box found for a departure is one of the sign, the first that matches. *)
LEMMA LeastOf ==
  ASSUME NEW S \in SUBSET Nat, S # {}
  PROVE  \E m \in S : \A n \in S : m <= n
<1> DEFINE less == {ss \in Nat \X Nat : ss[1] < ss[2]}
<1>1. IsWellFoundedOn(less, Nat)
  BY NatLessThanWellFounded DEF OpToRel
<1>2. PICK m \in S : \A n \in S : <<n, m>> \notin less
  <2> HIDE DEF less
  <2> QED
    BY <1>1, WFMin
<1>3. ASSUME NEW n \in S PROVE m <= n
  <2>1. n \in Nat /\ m \in Nat
    OBVIOUS
  <2>2. n < m => <<n, m>> \in less
    BY <2>1
  <2> QED
    BY <1>2, <2>1, <2>2
<1> QED
  BY <1>3

LEMMA Found ==
  ASSUME NEW id, NEW dir
  PROVE  LET p == get_display_address(id, dir)
         IN  p # 0 => p \in Positions /\ Boxes[p].id = id /\ Boxes[p].dir = dir
<1> DEFINE match == {p \in Positions : Boxes[p].id = id /\ Boxes[p].dir = dir}
<1>1. CASE match = {}
  BY <1>1 DEF get_display_address
<1>2. CASE match # {}
  <2>1. Positions = 1 .. Len(Boxes) /\ Len(Boxes) \in Nat
    BY BoxesAssumption, LenProperties DEF Positions
  <2>2. match \in SUBSET Nat
    BY <2>1
  <2>3. \E p \in match : \A q \in match : p <= q
    BY <1>2, <2>2, LeastOf
  <2>4. get_display_address(id, dir) = CHOOSE p \in match : \A q \in match : p <= q
    BY <1>2 DEF get_display_address
  <2>5. get_display_address(id, dir) \in match
    BY <2>3, <2>4
  <2> QED
    BY <2>5
<1> QED
  BY <1>1, <1>2

\* The boxes are numbered from 1.
LEMMA PositionsAre == \A p \in Positions : p \in Nat /\ p # 0
<1>1. Positions = 1 .. Len(Boxes) /\ Len(Boxes) \in Nat
  BY BoxesAssumption, LenProperties DEF Positions
<1> QED
  BY <1>1

\* A minute stays a number when it becomes an unsigned int, and 0 only if it was 0.
LEMMA UnsignedFits ==
  ASSUME NEW m \in Minute
  PROVE  Unsigned(m) \in 0 .. UintMax /\ (Unsigned(m) = 0 <=> m = 0)
BY UintAssumption DEF Minute, Unsigned

\* A response with routes, listing them.
LEMMA BodyTyped ==
  ASSUME NEW body \in Responses \cup {NoBody}
  PROVE  /\ body.kind \in {"unreadable", "no_data", "no_routes", "routes"}
         /\ body.kind = "routes" =>
              /\ body.routes \in Seq(Route) /\ Len(body.routes) \in 0 .. MaxRoutes
              /\ DOMAIN body.routes = 1 .. Len(body.routes)
              /\ \A i \in 1 .. Len(body.routes) : body.routes[i] \in Route
<1>1. CASE body = NoBody
  BY <1>1 DEF NoBody
<1>2. CASE body \in Responses
  <2>1. body.kind \in {"unreadable", "no_data", "no_routes", "routes"}
    BY <1>2, ResponsesAssumption
  <2>2. body.kind = "routes" => body.routes \in Seq(Route) /\ Len(body.routes) <= MaxRoutes
    BY <1>2, ResponsesAssumption DEF Route
  <2>3. ASSUME body.kind = "routes"
        PROVE  /\ Len(body.routes) \in 0 .. MaxRoutes
               /\ DOMAIN body.routes = 1 .. Len(body.routes)
               /\ \A i \in 1 .. Len(body.routes) : body.routes[i] \in Route
    <3> DEFINE routes == body.routes
    <3>1. routes \in Seq(Route) /\ Len(routes) <= MaxRoutes
      BY <2>2, <2>3
    <3> HIDE DEF routes
    <3>2. Len(routes) \in Nat /\ DOMAIN routes = 1 .. Len(routes)
      BY <3>1, LenProperties
    <3>3. \A i \in 1 .. Len(routes) : routes[i] \in Route
      BY <3>1, ElementOfSeq
    <3>4. Len(routes) \in 0 .. MaxRoutes
      BY <3>1, <3>2, RoutesAssumption
    <3> QED
      BY <3>2, <3>3, <3>4 DEF routes
  <2> QED
    BY <2>1, <2>2, <2>3
<1> QED
  BY <1>1, <1>2

LEMMA ParsedTyped ==
  ASSUME NEW old \in Stops, NEW body \in Responses \cup {NoBody},
         body.kind \in {"no_routes", "routes"}
  PROVE  ParsedStop(old, body) \in Stops
<1>1. CASE body.kind = "no_routes"
  BY <1>1 DEF ParsedStop
<1>2. CASE body.kind = "routes"
  <2> DEFINE n    == Len(body.routes)
             slot(i) == IF i <= n THEN ParsedSlot(old.slots[i], body.routes[i]) ELSE old.slots[i]
  <2>1. n \in 0 .. MaxRoutes /\ \A i \in 1 .. n : body.routes[i] \in Route
    BY <1>2, BodyTyped
  <2>2. \A i \in 1 .. MaxRoutes : old.slots[i] \in Slots
    BY DEF Stops
  <2> HIDE DEF n
  <2>3. ASSUME NEW i \in 1 .. MaxRoutes PROVE slot(i) \in Slots
    <3>1. CASE i <= n
      <4>1. body.routes[i] \in Route /\ old.slots[i] \in Slots
        BY <2>1, <2>2, <3>1
      <4>2. ParsedSlot(old.slots[i], body.routes[i]) \in Slots
        BY <4>1 DEF ParsedSlot, Slots, Route
      <4> QED
        BY <3>1, <4>2
    <3>2. CASE ~(i <= n)
      BY <2>2, <3>2
    <3> QED
      BY <3>1, <3>2
  <2>4. ParsedStop(old, body) = [size |-> n, slots |-> [i \in 1 .. MaxRoutes |-> slot(i)]]
    BY <1>2 DEF ParsedStop, n
  <2> HIDE DEF slot
  <2>5. [i \in 1 .. MaxRoutes |-> slot(i)] \in [1 .. MaxRoutes -> Slots]
    BY <2>3
  <2> QED
    BY <2>1, <2>4, <2>5 DEF Stops
<1> QED
  BY <1>1, <1>2

\* The minutes of a departure.
LEMMA MinTyped ==
  ASSUME Types, NEW i, NEW j, At(i, j)
  PROVE  MinAt(i, j) \in Minute /\ Unsigned(MinAt(i, j)) \in 0 .. UintMax
<1>1. i \in 1 .. MaxRoutes
  BY RoutesAssumption DEF Types, Stops, At
<1>2. stop.slots[i] \in Slots
  BY <1>1 DEF Types, Stops
<1> DEFINE dests == stop.slots[i].dests
<1>3. dests \in Seq([dir : Dirs, min : Minute]) /\ j \in 1 .. Len(dests)
  BY <1>2 DEF Slots, At
<1> HIDE DEF dests
<1>4. dests[j] \in [dir : Dirs, min : Minute]
  BY <1>3, ElementOfSeq
<1> QED
  BY <1>4, UnsignedFits DEF MinAt, dests

\* The departure reached, while there is one.
LEMMA DepartureTyped ==
  ASSUME Types, DeparturesLeft
  PROVE  /\ At(route, dep) /\ route \in Nat /\ dep \in Nat
         /\ Departure.min \in Minute /\ MinAt(route, dep) = Departure.min
         /\ Unsigned(Departure.min) \in 0 .. UintMax
         /\ Display # 0 => Display \in Positions
<1>1. route \in Nat /\ route \in 1 .. MaxRoutes /\ route \in 1 .. stop.size /\ dep \in Nat /\ dep >= 1
  BY RoutesAssumption DEF Types, Stops, DeparturesLeft, RoutesLeft
<1>2. stop.slots[route].dests \in Seq([dir : Dirs, min : Minute])
  <2>1. stop.slots[route] \in Slots
    BY <1>1 DEF Types, Stops
  <2> QED
    BY <2>1 DEF Slots
<1>3. dep \in 1 .. Len(stop.slots[route].dests)
  BY <1>1, <1>2, LenProperties DEF DeparturesLeft
<1>4. At(route, dep) /\ MinAt(route, dep) = Departure.min
  BY <1>1, <1>3 DEF At, MinAt, Departure
<1> QED
  BY <1>1, <1>4, MinTyped, Found DEF Display

-----------------------------------------------------------------------------
LEMMA TypesInit == Init => Types
<1> SUFFICES ASSUME Init PROVE Types
  OBVIOUS
<1>1. <<>> \in Seq([dir : Dirs, min : Minute])
  OBVIOUS
<1>2. stop \in Stops
  BY <1>1, RoutesAssumption DEF Init, EmptyStop, Stops, Slots
<1>3. route \in 1 .. MaxRoutes + 1 /\ dep \in Nat \ {0}
  BY RoutesAssumption DEF Init
<1>4. times \in [Positions -> 0 .. UintMax]
  BY UintAssumption DEF Init
<1>5. lit \in [Positions -> BOOLEAN]
  BY DEF Init
<1>6. shown \in [Positions -> {Unwritten} \cup SUBSET (0 .. StripNumPixels - 1)]
  BY DEF Init
<1> QED
  BY <1>2, <1>3, <1>4, <1>5, <1>6 DEF Init, Types

\* Whatever a switch does when it is switched off, it is on or off.
LEMMA SweptTyped ==
  ASSUME Types, NEW off \in Swept
  PROVE  off \in [Positions -> BOOLEAN]
BY DEF Swept, Types

\* What is sent to a box is a picture, and parts of the number.
LEMMA SentTyped ==
  ASSUME NEW num \in Nat, NEW before, NEW seen \in Sent(num, before)
  PROVE  /\ seen = before \/ (seen \in ExpectedParts(num)
                              /\ seen \in SUBSET (0 .. StripNumPixels - 1))
         /\ broken = {} => seen = Expected(num)
<1>1. Picture(num) = Expected(num)
  BY PictureIsNumber
<1>2. Expected(num) \in ExpectedParts(num)
  <2>1. Length(num) \in 1 .. 3
    BY DEF Length
  <2>2. Length(num) \in 1 .. Length(num)
    BY <2>1
  <2> QED
    BY <2>2 DEF Expected, ExpectedParts
<1>3. CASE "strip" \in broken
  <2>1. seen = before \/ \E i \in DOMAIN Transfers(num) : seen = Transfers(num)[i]
    BY <1>3 DEF Sent
  <2> QED
    BY <1>3, <2>1, TransfersAreParts, PartsFit
<1>4. CASE "strip" \notin broken
  <2>1. seen = Picture(num)
    BY <1>4 DEF Sent
  <2> QED
    BY <2>1, <1>1, <1>2, PartsFit
<1> QED
  BY <1>3, <1>4

LEMMA TypesStep == Types /\ Writing /\ [Next]_vars => Types'
<1> SUFFICES ASSUME Types, Writing, [Next]_vars PROVE Types'
  OBVIOUS
<1>1. CASE Restart
  <2>1. stop' \in Stops
    <3>1. <<>> \in Seq([dir : Dirs, min : Minute])
      OBVIOUS
    <3> QED
      BY <1>1, <3>1, RoutesAssumption DEF Restart, EmptyStop, Stops, Slots
  <2>2. lit' \in [Positions -> BOOLEAN]
    BY <1>1 DEF Restart
  <2> QED
    BY <1>1, <2>1, <2>2 DEF Restart, Types
<1>2. CASE Fetch
  BY <1>2 DEF Fetch, Return, Types
<1>3. CASE ParseFails
  BY <1>3 DEF ParseFails, Return, Types
<1>4. CASE Parse
  <2>1. stop' \in Stops
    BY <1>4, ParsedTyped DEF Parse, Types
  <2>2. lit' \in [Positions -> BOOLEAN]
    BY <1>4, SweptTyped DEF Parse
  <2>3. times' \in [Positions -> 0 .. UintMax]
    BY <1>4, UintAssumption DEF Parse
  <2>4. route' \in 1 .. MaxRoutes + 1 /\ dep' \in Nat \ {0}
    BY <1>4, RoutesAssumption DEF Parse
  <2> QED
    BY <1>4, <2>1, <2>2, <2>3, <2>4 DEF Parse, Types
<1>5. CASE NextRoute
  <2>1. route' \in 1 .. MaxRoutes + 1 /\ dep' \in Nat \ {0}
    BY <1>5, RoutesAssumption DEF NextRoute, RoutesLeft, Types, Stops
  <2> QED
    BY <1>5, <2>1 DEF NextRoute, Types
<1>6. CASE Skip
  <2>1. dep' \in Nat \ {0}
    BY <1>6 DEF Skip, Types
  <2> QED
    BY <1>6, <2>1 DEF Skip, Types
<1>7. CASE SwitchOn
  <2>1. Unsigned(Departure.min) \in 0 .. UintMax
    BY <1>7, DepartureTyped DEF SwitchOn
  <2>2. times' \in [Positions -> 0 .. UintMax]
    BY <1>7, <2>1 DEF SwitchOn, Types
  <2>3. lit' \in [Positions -> BOOLEAN]
    BY <1>7 DEF SwitchOn, Types
  <2>4. pc' \in {"write", "wait"} /\ result' \in {-1, 0, 1}
    BY <1>7 DEF SwitchOn, Types, Return
  <2> QED
    BY <1>7, <2>2, <2>3, <2>4 DEF SwitchOn, Types
<1>8. CASE WriteNumber
  <2>1. Display \in Positions
    BY <1>8 DEF WriteNumber, Writing
  <2>2. times[Display] \in Nat
    BY <2>1, UintAssumption DEF Types
  <2>3. /\ shown' \in [Positions -> {Unwritten} \cup SUBSET (0 .. StripNumPixels - 1)]
        /\ port' \in Positions /\ dep' \in Nat \ {0} /\ pc' \in {"pick", "wait"}
        /\ result' \in {-1, 0, 1}
    <3>1. CASE pc' = "pick"
      <4>1. PICK seen \in Sent(times[Display], shown[Display]) :
              shown' = [shown EXCEPT ![Display] = seen]
        BY <1>8, <3>1 DEF WriteNumber, Return
      <4>2. seen \in {Unwritten} \cup SUBSET (0 .. StripNumPixels - 1)
        BY <2>1, <2>2, SentTyped DEF Types
      <4>3. port' = Display /\ dep' = dep + 1 /\ result' = result
        BY <1>8, <3>1 DEF WriteNumber, Return
      <4> QED
        BY <2>1, <3>1, <4>1, <4>2, <4>3 DEF Types
    <3>2. CASE pc' # "pick"
      BY <1>8, <3>2 DEF WriteNumber, Return, Types
    <3> QED
      BY <3>1, <3>2
  <2> QED
    BY <1>8, <2>3 DEF WriteNumber, Types
<1>9. CASE Finish
  BY <1>9 DEF Finish, Return, Types
<1>10. CASE UNCHANGED vars
  BY <1>10 DEF vars, Types
<1> QED
  BY <1>1, <1>2, <1>3, <1>4, <1>5, <1>6, <1>7, <1>8, <1>9, <1>10 DEF Next

-----------------------------------------------------------------------------
\* The departures of the parsed stop are what they were.
LEMMA ForSame ==
  ASSUME stop' = stop, NEW i \in Nat, NEW j \in Nat, NEW p
  PROVE  /\ For(i, j, p)' <=> For(i, j, p)
         /\ MinAt(i, j)' = MinAt(i, j)
BY DEF For, At, MinAt

\* Only the departure the loops have reached is added to those taken, when it is
\* passed over or its box is lit; the sweep starts again with none.
LEMMA TakenThen ==
  ASSUME Types, Writing, NEW i \in Nat, NEW j \in Nat, NEW p
  PROVE  /\ Parse => ~Taken(i, j, p)'
         /\ NextRoute => (Taken(i, j, p)' <=> Taken(i, j, p))
         /\ Skip \/ (SwitchOn /\ pc' = "write") =>
              (Taken(i, j, p)' <=> Taken(i, j, p) \/ (For(i, j, p) /\ i = route /\ j = dep))
         /\ WriteNumber /\ pc' = "pick" => (Taken(i, j, p)' <=> Taken(i, j, p))
         /\ Finish => (Taken(i, j, p)' <=> Taken(i, j, p))
<1> USE DEF Types
<1>1. ASSUME Parse PROVE ~Taken(i, j, p)'
  <2>1. route' = 1 /\ dep' = 1 /\ pc' = "pick"
    BY <1>1 DEF Parse
  <2>2. At(i, j)' => i >= 1 /\ j >= 1
    BY DEF At
  <2> QED
    BY <2>1, <2>2 DEF Taken, For, Behind
<1>2. ASSUME NextRoute PROVE Taken(i, j, p)' <=> Taken(i, j, p)
  <2>1. /\ stop' = stop /\ pc = "pick" /\ pc' = "pick" /\ route' = route + 1 /\ dep' = 1
        /\ ~(dep <= Len(stop.slots[route].dests))
    BY <1>2 DEF NextRoute, DeparturesLeft
  <2>2. For(i, j, p) => j \in 1 .. Len(stop.slots[i].dests)
    BY DEF For, At
  <2>3. For(i, j, p)' <=> For(i, j, p)
    BY <2>1, ForSame
  <2>4. For(i, j, p) => (Behind(i, j)' <=> Behind(i, j))
    <3>1. CASE i = route
      <4> DEFINE n == Len(stop.slots[route].dests)
      <4>1. For(i, j, p) => j \in 1 .. n
        BY <2>2, <3>1
      <4>2. ~(dep <= n)
        BY <2>1
      <4>3. n \in Nat
        <5>1. route \in 1 .. MaxRoutes
          BY <1>2, RoutesAssumption DEF NextRoute, RoutesLeft, Stops
        <5>2. stop.slots[route] \in Slots
          BY <5>1 DEF Stops
        <5>3. stop.slots[route].dests \in Seq([dir : Dirs, min : Minute])
          BY <5>2 DEF Slots
        <5> QED
          BY <5>3, LenProperties
      <4> HIDE DEF n
      <4>4. For(i, j, p) => j < dep
        BY <4>1, <4>2, <4>3
      <4> QED
        BY <2>1, <3>1, <4>4 DEF Behind
    <3>2. CASE i # route
      BY <2>1, <3>2 DEF Behind, For, At
    <3> QED
      BY <3>1, <3>2
  <2> QED
    BY <2>3, <2>4 DEF Taken
<1>3. ASSUME Skip \/ (SwitchOn /\ pc' = "write")
      PROVE  Taken(i, j, p)' <=> Taken(i, j, p) \/ (For(i, j, p) /\ i = route /\ j = dep)
  <2>1. /\ stop' = stop /\ route' = route /\ pc = "pick"
        /\ (pc' = "pick" /\ dep' = dep + 1) \/ (pc' = "write" /\ dep' = dep)
    BY <1>3 DEF Skip, SwitchOn
  <2>2. For(i, j, p)' <=> For(i, j, p)
    BY <2>1, ForSame
  <2>3. Behind(i, j)' <=> Behind(i, j) \/ (i = route /\ j = dep)
    BY <2>1 DEF Behind
  <2> QED
    BY <2>2, <2>3 DEF Taken
<1>4. ASSUME WriteNumber, pc' = "pick" PROVE Taken(i, j, p)' <=> Taken(i, j, p)
  <2>1. stop' = stop /\ route' = route /\ pc = "write" /\ dep' = dep + 1
    BY <1>4 DEF WriteNumber, Return
  <2>2. For(i, j, p)' <=> For(i, j, p)
    BY <2>1, ForSame
  <2>3. Behind(i, j)' <=> Behind(i, j)
    BY <1>4, <2>1 DEF Behind
  <2> QED
    BY <2>2, <2>3 DEF Taken
<1>5. ASSUME Finish PROVE Taken(i, j, p)' <=> Taken(i, j, p)
  <2>1. stop' = stop /\ route' = route /\ pc = "pick" /\ pc' = "wait" /\ dep' = dep
    BY <1>5 DEF Finish, Return
  <2>2. For(i, j, p)' <=> For(i, j, p)
    BY <2>1, ForSame
  <2>3. Behind(i, j)' <=> Behind(i, j)
    BY <2>1 DEF Behind
  <2> QED
    BY <2>2, <2>3 DEF Taken
<1> QED
  BY <1>1, <1>2, <1>3, <1>4, <1>5

\* The steps that leave an update going, or done with success.
Going == Parse \/ NextRoute \/ Skip \/ (SwitchOn /\ pc' = "write")
         \/ (WriteNumber /\ pc' = "pick") \/ Finish \/ UNCHANGED vars

LEMMA LiveSteps == ASSUME [Next]_vars, Live' PROVE Going /\ (~Parse => Live)
<1> USE DEF Live, Updated
<1>1. CASE Restart
  BY <1>1 DEF Restart
<1>2. CASE Fetch
  BY <1>2 DEF Fetch, Return
<1>3. CASE ParseFails
  BY <1>3 DEF ParseFails, Return
<1>4. CASE Parse
  BY <1>4 DEF Going
<1>5. CASE NextRoute
  BY <1>5 DEF Going, NextRoute
<1>6. CASE Skip
  BY <1>6 DEF Going, Skip
<1>7. CASE SwitchOn
  BY <1>7 DEF Going, SwitchOn, Return
<1>8. CASE WriteNumber
  BY <1>8 DEF Going, WriteNumber, Return
<1>9. CASE Finish
  BY <1>9 DEF Going, Finish
<1>10. CASE UNCHANGED vars
  BY <1>10 DEF Going, vars
<1> QED
  BY <1>1, <1>2, <1>3, <1>4, <1>5, <1>6, <1>7, <1>8, <1>9, <1>10 DEF Next

\* A departure that is passed over has a box with a lower time, if it has a box.
LEMMA SkipLower ==
  ASSUME Types, Skip, NEW p \in Positions, For(route, dep, p)
  PROVE  times[p] # 0 /\ times[p] <= Unsigned(MinAt(route, dep))
<1>1. DeparturesLeft /\ ~Written
  BY DEF Skip
<1>2. Departure.min = MinAt(route, dep) /\ Display = p
  BY DEF Departure, Display, MinAt, For
<1>3. p # 0 /\ Departure.min # -1
  BY <1>2, PositionsAre DEF For
<1>4. ~(times[p] = 0 \/ Unsigned(Departure.min) < times[p])
  BY <1>1, <1>2, <1>3 DEF Written, Lower
<1>5. times[p] \in 0 .. UintMax /\ Unsigned(Departure.min) \in 0 .. UintMax
  BY <1>1, DepartureTyped DEF Types
<1> QED
  BY <1>2, <1>4, <1>5, UintAssumption

\* What switching a box on means for it and for the others.
LEMMA SwitchOnDoes ==
  ASSUME Types, SwitchOn, pc' = "write"
  PROVE  /\ Display \in Positions /\ For(route, dep, Display) /\ route \in Nat /\ dep \in Nat
         /\ MinAt(route, dep) \in Minute
         /\ stop' = stop /\ route' = route /\ dep' = dep /\ Display' = Display
         /\ shown' = shown /\ broken' = broken
         /\ lit'[Display] /\ times'[Display] = Unsigned(MinAt(route, dep))
         /\ times[Display] = 0 \/ Unsigned(MinAt(route, dep)) < times[Display]
         /\ \A p \in Positions : p # Display => lit'[p] = lit[p] /\ times'[p] = times[p]
<1>1. DeparturesLeft /\ Written /\ pc = "pick"
  BY DEF SwitchOn
<1>2. Display \in Positions /\ For(route, dep, Display) /\ route \in Nat /\ dep \in Nat
      /\ MinAt(route, dep) \in Minute /\ MinAt(route, dep) = Departure.min
  BY <1>1, DepartureTyped DEF Written, For, Display, MinAt, Departure
<1>3. /\ times' = [times EXCEPT ![Display] = Unsigned(MinAt(route, dep))]
      /\ lit' = [lit EXCEPT ![Display] = TRUE]
      /\ stop' = stop /\ route' = route /\ dep' = dep /\ shown' = shown /\ broken' = broken
  BY <1>2 DEF SwitchOn, Return
<1>4. Display' = Display
  BY <1>3 DEF Display, Departure
<1>5. times[Display] = 0 \/ Unsigned(MinAt(route, dep)) < times[Display]
  BY <1>1, <1>2 DEF Written, Lower
<1> QED
  BY <1>2, <1>3, <1>4, <1>5 DEF Types

-----------------------------------------------------------------------------
LEMMA WritingStep == Types /\ Writing /\ [Next]_vars => Writing'
<1> SUFFICES ASSUME Types, Writing, [Next]_vars, pc' = "write" PROVE Writing'
  BY DEF Writing
<1>1. CASE SwitchOn
  <2>1. DeparturesLeft /\ Written /\ pc' = "write"
    BY <1>1 DEF SwitchOn
  <2>2. stop' = stop /\ route' = route /\ dep' = dep
    BY <1>1 DEF SwitchOn
  <2>3. /\ DeparturesLeft' /\ Departure' = Departure /\ Display' = Display
        /\ Departure.min # -1
    BY <2>1, <2>2 DEF DeparturesLeft, RoutesLeft, Departure, Display, Written
  <2>4. Departure.min = MinAt(route, dep)
    BY DEF Departure, MinAt
  <2> QED
    BY <1>1, <2>3, <2>4, SwitchOnDoes DEF Writing
<1>2. CASE UNCHANGED vars
  BY <1>2 DEF vars, Writing, DeparturesLeft, RoutesLeft, Departure, Display
<1>3. SwitchOn \/ UNCHANGED vars
  BY DEF Next, Restart, Fetch, ParseFails, Parse, NextRoute, Skip, WriteNumber, Finish, Return
<1> QED
  BY <1>1, <1>2, <1>3

LEMMA CoveredStep == Types /\ Writing /\ Covered /\ [Next]_vars => Covered'
<1> SUFFICES ASSUME Types, Writing, Covered, [Next]_vars, Live', NEW p \in Positions
             PROVE  /\ \A i, j \in Nat : Taken(i, j, p)' => lit'[p]
                    /\ times'[p] # 0 => lit'[p]
  BY DEF Covered, Positions
<1>1. Going /\ (~Parse => Live)
  BY LiveSteps
<1>2. CASE Parse
  BY <1>2, TakenThen DEF Parse
<1>3. CASE NextRoute \/ Finish
  BY <1>1, <1>3, TakenThen DEF NextRoute, Finish, Parse, Covered
<1>4. CASE WriteNumber /\ pc' = "pick"
  BY <1>1, <1>4, TakenThen DEF WriteNumber, Parse, Covered
<1>5. CASE Skip
  <2>1. times' = times /\ lit' = lit /\ Live
    BY <1>1, <1>5 DEF Skip, Parse
  <2>2. ASSUME NEW i \in Nat, NEW j \in Nat, Taken(i, j, p)'
        PROVE  lit[p]
    <3>1. Taken(i, j, p) \/ For(route, dep, p)
      BY <1>5, <2>2, TakenThen
    <3> QED
      BY <1>5, <2>1, <3>1, SkipLower DEF Covered
  <2> QED
    BY <2>1, <2>2 DEF Covered
<1>6. CASE SwitchOn /\ pc' = "write"
  <2>1. CASE p = Display
    BY <1>6, <2>1, SwitchOnDoes
  <2>2. CASE p # Display
    <3>1. lit'[p] = lit[p] /\ times'[p] = times[p] /\ Live
      BY <1>1, <1>6, <2>2, SwitchOnDoes DEF SwitchOn, Parse
    <3>2. ~For(route, dep, p)
      BY <2>2 DEF For, Display, Departure
    <3> QED
      BY <1>6, <3>1, <3>2, TakenThen DEF Covered
  <2> QED
    BY <2>1, <2>2
<1>7. CASE UNCHANGED vars
  <2>1. \A i, j \in Nat : Taken(i, j, p)' <=> Taken(i, j, p)
    BY <1>7 DEF vars, Taken, For, Behind, At, MinAt
  <2>2. Live /\ times' = times /\ lit' = lit
    BY <1>7 DEF vars, Live, Updated
  <2> QED
    BY <2>1, <2>2 DEF Covered
<1> QED
  BY <1>1, <1>2, <1>3, <1>4, <1>5, <1>6, <1>7 DEF Going

LEMMA LowestStep == Types /\ Writing /\ Covered /\ Lowest /\ [Next]_vars => Lowest'
<1> SUFFICES ASSUME Types, Writing, Covered, Lowest, [Next]_vars, Live', NEW p \in Positions,
                    \A i, j \in Nat : Taken(i, j, p)' => MinAt(i, j)' # 0,
                    NEW i \in Nat, NEW j \in Nat, Taken(i, j, p)'
             PROVE  0 < times'[p] /\ times'[p] <= Unsigned(MinAt(i, j)')
  BY DEF Lowest, Positions, Unsigned
<1> DEFINE NoZero == \A k, l \in Nat : Taken(k, l, p) => MinAt(k, l) # 0
           Low    == 0 < times[p] /\ times[p] <= Unsigned(MinAt(i, j))
<1>1. Going /\ (~Parse => Live)
  BY LiveSteps
<1>2. (Live /\ NoZero /\ Taken(i, j, p)) => Low
  BY DEF Lowest
<1>3. CASE Parse
  BY <1>3, TakenThen
<1>4. CASE NextRoute \/ Finish \/ (WriteNumber /\ pc' = "pick")
  <2>1. times' = times /\ stop' = stop /\ ~Parse
    BY <1>4 DEF NextRoute, Finish, WriteNumber, Parse
  <2>2. \A k, l \in Nat : (Taken(k, l, p)' <=> Taken(k, l, p)) /\ MinAt(k, l)' = MinAt(k, l)
    BY <1>4, <2>1, TakenThen, ForSame
  <2> QED
    BY <1>1, <1>2, <2>1, <2>2
<1>5. CASE Skip
  <2>1. times' = times /\ stop' = stop /\ ~Parse
    BY <1>5 DEF Skip, Parse
  <2>2. \A k, l \in Nat : MinAt(k, l)' = MinAt(k, l) /\ (Taken(k, l, p) => Taken(k, l, p)')
    BY <1>5, <2>1, TakenThen, ForSame
  <2>3. NoZero
    BY <2>2
  <2>4. CASE Taken(i, j, p)
    BY <1>1, <1>2, <2>1, <2>2, <2>3, <2>4
  <2>5. CASE ~Taken(i, j, p)
    <3>1. For(i, j, p) /\ i = route /\ j = dep
      BY <1>5, <2>5, TakenThen
    <3>2. times[p] # 0 /\ times[p] <= Unsigned(MinAt(i, j)) /\ times[p] \in 0 .. UintMax
      BY <1>5, <3>1, SkipLower DEF Types
    <3> QED
      BY <2>1, <2>2, <3>2
  <2> QED
    BY <2>4, <2>5
<1>6. CASE SwitchOn /\ pc' = "write"
  <2>1. /\ ~Parse /\ stop' = stop
        /\ \A k, l \in Nat : MinAt(k, l)' = MinAt(k, l) /\ (Taken(k, l, p) => Taken(k, l, p)')
    BY <1>6, SwitchOnDoes, TakenThen, ForSame DEF SwitchOn, Parse
  <2>2. NoZero
    BY <2>1
  <2>3. Taken(i, j, p) => Low
    BY <1>1, <1>2, <2>1, <2>2
  <2>4. CASE p = Display
    <3> PICK r \in Nat, d \in Nat : r = route /\ d = dep
      BY <1>6, SwitchOnDoes
    <3> DEFINE new == Unsigned(MinAt(r, d))
    <3>1. times'[p] = new /\ (times[p] = 0 \/ new < times[p]) /\ times[p] \in 0 .. UintMax
      BY <1>6, <2>4, SwitchOnDoes DEF Types
    <3>2. Taken(r, d, p)' /\ MinAt(r, d) \in Minute
      BY <1>6, <2>4, SwitchOnDoes, TakenThen
    <3>3. MinAt(r, d) # 0
      BY <2>1, <3>2
    <3>4. new \in 0 .. UintMax /\ new # 0
      BY <3>2, <3>3, UnsignedFits
    <3>5. CASE Taken(i, j, p)
      <4>1. Unsigned(MinAt(i, j)) \in 0 .. UintMax
        BY <3>5, MinTyped DEF Taken, For
      <4> HIDE DEF new
      <4>2. new <= times[p] /\ times[p] <= Unsigned(MinAt(i, j))
        BY <2>3, <3>1, <3>4, <3>5
      <4> QED
        BY <2>1, <3>1, <3>4, <4>1, <4>2
    <3>6. CASE ~Taken(i, j, p)
      <4>1. i = r /\ j = d
        BY <1>6, <3>6, TakenThen
      <4> QED
        BY <2>1, <3>1, <3>4, <4>1
    <3> QED
      BY <3>5, <3>6
  <2>5. CASE p # Display
    <3>1. times'[p] = times[p]
      BY <1>6, <2>5, SwitchOnDoes
    <3>2. ~For(route, dep, p)
      BY <2>5 DEF For, Display, Departure
    <3>3. Taken(i, j, p)
      BY <1>6, <3>2, TakenThen
    <3> QED
      BY <2>1, <2>3, <3>1, <3>3
  <2> QED
    BY <2>4, <2>5
<1>7. CASE UNCHANGED vars
  <2>1. \A k, l \in Nat : (Taken(k, l, p)' <=> Taken(k, l, p)) /\ MinAt(k, l)' = MinAt(k, l)
    BY <1>7 DEF vars, Taken, For, Behind, At, MinAt
  <2>2. Live /\ times' = times
    BY <1>7 DEF vars, Live, Updated
  <2> QED
    BY <1>2, <2>1, <2>2
<1> QED
  BY <1>1, <1>3, <1>4, <1>5, <1>6, <1>7 DEF Going

\* On a sign in order the sweep leaves every box dark.
LEMMA HealthyThen ==
  ASSUME [Next]_vars
  PROVE  broken' = broken /\ (Healthy /\ Parse => lit' = [p \in Positions |-> FALSE])
<1>1. broken' = broken
  BY DEF Next, Restart, Fetch, ParseFails, Parse, NextRoute, Skip, SwitchOn, WriteNumber,
         Finish, vars
<1>2. Healthy /\ Parse => lit' = [p \in Positions |-> FALSE]
  BY DEF Healthy, Parse, Swept
<1> QED
  BY <1>1, <1>2

LEMMA JustifiedStep == Types /\ Writing /\ Justified /\ [Next]_vars => Justified'
<1> SUFFICES ASSUME Types, Writing, Justified, [Next]_vars, Live', Healthy',
                    NEW p \in Positions, lit'[p]
             PROVE  \E i, j \in Nat : Taken(i, j, p)' /\ times'[p] = Unsigned(MinAt(i, j)')
  BY DEF Justified, Positions, Unsigned
<1>1. Going /\ (~Parse => Live) /\ Healthy
  BY LiveSteps, HealthyThen DEF Healthy
<1>2. ~Parse
  BY <1>1, HealthyThen
<1>3. lit[p] => \E i, j \in Nat : Taken(i, j, p) /\ times[p] = Unsigned(MinAt(i, j))
  BY <1>1, <1>2 DEF Justified
<1>4. CASE NextRoute \/ Finish \/ Skip \/ (WriteNumber /\ pc' = "pick")
  <2>1. times' = times /\ stop' = stop /\ lit' = lit
    BY <1>4 DEF NextRoute, Finish, WriteNumber, Skip
  <2>2. \A k, l \in Nat : (Taken(k, l, p) => Taken(k, l, p)') /\ MinAt(k, l)' = MinAt(k, l)
    BY <1>4, <2>1, TakenThen, ForSame
  <2> QED
    BY <1>3, <2>1, <2>2
<1>5. CASE SwitchOn /\ pc' = "write"
  <2>1. \A k, l \in Nat : (Taken(k, l, p) => Taken(k, l, p)') /\ MinAt(k, l)' = MinAt(k, l)
    BY <1>5, SwitchOnDoes, TakenThen, ForSame
  <2>2. CASE p = Display
    <3> PICK r \in Nat, d \in Nat : r = route /\ d = dep
      BY <1>5, SwitchOnDoes
    <3>1. Taken(r, d, p)' /\ times'[p] = Unsigned(MinAt(r, d))
      BY <1>5, <2>2, SwitchOnDoes, TakenThen
    <3> QED
      BY <2>1, <3>1
  <2>3. CASE p # Display
    <3>1. lit'[p] = lit[p] /\ times'[p] = times[p]
      BY <1>5, <2>3, SwitchOnDoes
    <3> QED
      BY <1>3, <2>1, <3>1
  <2> QED
    BY <2>2, <2>3
<1>6. CASE UNCHANGED vars
  <2>1. \A k, l \in Nat : (Taken(k, l, p)' <=> Taken(k, l, p)) /\ MinAt(k, l)' = MinAt(k, l)
    BY <1>6 DEF vars, Taken, For, Behind, At, MinAt
  <2>2. times' = times /\ lit' = lit
    BY <1>6 DEF vars
  <2> QED
    BY <1>3, <2>1, <2>2
<1> QED
  BY <1>1, <1>2, <1>4, <1>5, <1>6 DEF Going

LEMMA CurrentStep == Types /\ Writing /\ Current /\ [Next]_vars => Current'
<1> SUFFICES ASSUME Types, Writing, Current, [Next]_vars, Live', Healthy',
                    NEW p \in Positions, lit'[p]
             PROVE  shown'[p] = Expected(times'[p]) \/ (pc' = "write" /\ p = Display')
  BY DEF Current, Positions, Expected
<1>1. Going /\ (~Parse => Live) /\ Healthy
  BY LiveSteps, HealthyThen DEF Healthy
<1>2. ~Parse
  BY <1>1, HealthyThen
<1>3. lit[p] => shown[p] = Expected(times[p]) \/ (pc = "write" /\ p = Display)
  BY <1>1, <1>2 DEF Current
<1>4. CASE NextRoute \/ Finish \/ Skip
  BY <1>3, <1>4 DEF NextRoute, Finish, Skip
<1>5. CASE SwitchOn /\ pc' = "write"
  BY <1>3, <1>5, SwitchOnDoes DEF SwitchOn
<1>6. CASE WriteNumber /\ pc' = "pick"
  <2>1. PICK seen \in Sent(times[Display], shown[Display]) :
          shown' = [shown EXCEPT ![Display] = seen]
    BY <1>6 DEF WriteNumber, Return
  <2>2. times' = times /\ lit' = lit /\ Display \in Positions
    BY <1>6 DEF WriteNumber, Writing
  <2>3. CASE p = Display
    <3>1. times[p] \in Nat
      BY UintAssumption DEF Types
    <3>2. seen = Expected(times[p])
      BY <1>1, <2>3, <3>1, SentTyped DEF Healthy
    <3> QED
      BY <2>1, <2>2, <2>3, <3>2 DEF Types
  <2>4. CASE p # Display
    BY <1>3, <2>1, <2>2, <2>4 DEF Types
  <2> QED
    BY <2>3, <2>4
<1>7. CASE UNCHANGED vars
  BY <1>3, <1>7 DEF vars, Display, Departure
<1> QED
  BY <1>1, <1>2, <1>4, <1>5, <1>6, <1>7 DEF Going

LEMMA FromBodyStep == Types /\ FromBody /\ [Next]_vars => FromBody'
<1> SUFFICES ASSUME Types, FromBody, [Next]_vars, Live' PROVE FromBody'
  BY DEF FromBody
<1>1. Going /\ (~Parse => Live)
  BY LiveSteps
<1>2. CASE Parse
  <2>1. response' = response /\ response.kind \in {"no_routes", "routes"}
        /\ stop' = ParsedStop(stop, response)
    BY <1>2 DEF Parse
  <2>2. ASSUME ~HasEmptyList(response)
        PROVE  /\ stop'.size = Len(response.routes)
               /\ \A i \in 1 .. stop'.size : stop'.slots[i] = response.routes[i]
    <3> DEFINE n == Len(response.routes)
    <3>1. response.kind = "routes"
      BY <2>1, <2>2 DEF HasEmptyList
    <3>2. /\ n \in 0 .. MaxRoutes /\ DOMAIN response.routes = 1 .. n
          /\ \A i \in 1 .. n : response.routes[i] \in Route
      BY <3>1, BodyTyped DEF Types
    <3>3. \A i \in 1 .. n : response.routes[i].dests # <<>>
      BY <2>2, <3>2 DEF HasEmptyList
    <3>4. /\ stop'.size = n
          /\ stop'.slots = [i \in 1 .. MaxRoutes |->
                              IF i <= n THEN ParsedSlot(stop.slots[i], response.routes[i])
                                        ELSE stop.slots[i]]
      BY <2>1, <3>1 DEF ParsedStop
    <3> HIDE DEF n
    <3>5. ASSUME NEW i \in 1 .. n PROVE stop'.slots[i] = response.routes[i]
      <4>1. stop'.slots[i] = ParsedSlot(stop.slots[i], response.routes[i])
        BY <3>2, <3>4, RoutesAssumption
      <4>2. ParsedSlot(stop.slots[i], response.routes[i]) = response.routes[i]
        BY <3>2, <3>3 DEF ParsedSlot, Route
      <4> QED
        BY <4>1, <4>2
    <3> QED
      BY <3>4, <3>5 DEF n
  <2> QED
    BY <2>1, <2>2 DEF FromBody, HasEmptyList
<1>3. CASE ~Parse
  <2>1. response' = response /\ stop' = stop
    BY <1>1, <1>3 DEF Going, NextRoute, Finish, Skip, SwitchOn, WriteNumber, vars
  <2> QED
    BY <1>1, <1>3, <2>1 DEF FromBody, HasEmptyList
<1> QED
  BY <1>2, <1>3

LEMMA FinishedStep == Types /\ Finished /\ [Next]_vars => Finished'
<1> SUFFICES ASSUME Types, Finished, [Next]_vars, Updated' PROVE route' > stop'.size
  BY DEF Finished
<1>1. Going
  BY LiveSteps DEF Live
<1>2. CASE Finish
  BY <1>2 DEF Finish, RoutesLeft, Types, Stops
<1>3. CASE UNCHANGED vars
  BY <1>3 DEF Finished, Updated, vars
<1>4. Finish \/ UNCHANGED vars
  BY <1>1 DEF Going, Updated, Parse, NextRoute, Skip, SwitchOn, WriteNumber
<1> QED
  BY <1>2, <1>3, <1>4

LEMMA InvInit == Init => Inv
<1> SUFFICES ASSUME Init PROVE Inv
  OBVIOUS
<1>1. pc = "wait" /\ ~Live /\ ~Updated
  BY DEF Init, Live, Updated
<1> QED
  BY <1>1, TypesInit DEF Inv, Writing, Covered, Lowest, Justified, Current, FromBody, Finished

LEMMA InvStep == Inv /\ [Next]_vars => Inv'
BY TypesStep, WritingStep, CoveredStep, LowestStep, JustifiedStep, CurrentStep, FromBodyStep,
   FinishedStep DEF Inv

(* The inductive invariant holds of every behaviour.                       *)
THEOREM Invariant == Spec => []Inv
BY InvInit, InvStep, PTL DEF Spec

-----------------------------------------------------------------------------
\* The minutes for a box in a list of slots.
LEMMA MinutesAre ==
  ASSUME NEW p, NEW slots, NEW m
  PROVE  m \in MinutesFor(p, slots) <=>
           \E i \in DOMAIN slots : \E j \in DOMAIN slots[i].dests :
             /\ slots[i].dests[j].min # -1 /\ slots[i].dests[j].min = m
             /\ get_display_address(slots[i].id, slots[i].dests[j].dir) = p
BY DEF MinutesFor

\* After a successful update they are those of the departures taken.
LEMMA MinutesTaken ==
  ASSUME Inv, Updated, NEW p \in Positions, NEW m
  PROVE  m \in Minutes(p) <=> \E i, j \in Nat : Taken(i, j, p) /\ m = MinAt(i, j)
<1> DEFINE size  == stop.size
           slots == SubSeq(stop.slots, 1, size)
<1>1. size \in 0 .. MaxRoutes /\ \A i \in 1 .. size : stop.slots[i] \in Slots
  BY RoutesAssumption DEF Inv, Types, Stops
<1>2. /\ slots \in Seq(Slots) /\ Len(slots) = size
      /\ \A i \in 1 .. size : slots[i] = stop.slots[i]
  <2> HIDE DEF size
  <2>1. size \in Int /\ size - 1 + 1 = size /\ (1 <= size \/ size = 0)
        /\ \A i \in 1 .. size : 1 + i - 1 = i
    BY <1>1, RoutesAssumption
  <2> QED
    BY <1>1, <2>1, SubSeqProperties
<1>3. DOMAIN slots = 1 .. size
  BY <1>2, LenProperties
<1>4. \A i \in 1 .. size : /\ DOMAIN stop.slots[i].dests = 1 .. Len(stop.slots[i].dests)
                           /\ Len(stop.slots[i].dests) \in Nat
  <2>1. \A i \in 1 .. size : stop.slots[i].dests \in Seq([dir : Dirs, min : Minute])
    BY <1>1 DEF Slots
  <2> QED
    BY <2>1, LenProperties
<1>5. \A i, j : Taken(i, j, p) <=> For(i, j, p)
  <2>1. route > size /\ route \in Nat
    BY DEF Inv, Finished, Types
  <2>2. \A i \in 1 .. size : i < route
    BY <1>1, <2>1
  <2> QED
    BY <2>2 DEF Taken, Behind, For, At
<1>6. \A i, j : At(i, j) => i \in Nat /\ j \in Nat
  BY <1>1, <1>4 DEF At
<1>7. m \in Minutes(p) <=>
        \E i \in 1 .. size : \E j \in 1 .. Len(stop.slots[i].dests) :
          /\ stop.slots[i].dests[j].min # -1 /\ stop.slots[i].dests[j].min = m
          /\ get_display_address(stop.slots[i].id, stop.slots[i].dests[j].dir) = p
  <2>1. Minutes(p) = MinutesFor(p, slots)
    BY DEF Minutes
  <2> HIDE DEF slots, size
  <2>2. m \in MinutesFor(p, slots) <=>
          \E i \in DOMAIN slots : \E j \in DOMAIN slots[i].dests :
            /\ slots[i].dests[j].min # -1 /\ slots[i].dests[j].min = m
            /\ get_display_address(slots[i].id, slots[i].dests[j].dir) = p
    BY MinutesAre
  <2>3. \A i \in 1 .. size : slots[i] = stop.slots[i]
    BY <1>2
  <2>4. \A i \in 1 .. size : DOMAIN slots[i].dests = 1 .. Len(stop.slots[i].dests)
    BY <2>3, <1>4
  <2> QED
    BY <1>3, <2>1, <2>2, <2>3, <2>4
<1>8. m \in Minutes(p) <=> \E i, j : For(i, j, p) /\ MinAt(i, j) = m
  BY <1>7 DEF For, At, MinAt
<1> QED
  BY <1>5, <1>6, <1>8 DEF For

(* Every variable keeps its type, and the LEDs only ever hold pictures.    *)
THEOREM TypeCorrect == Spec => []TypeOK
<1>1. Inv => TypeOK
  <2> SUFFICES ASSUME Types PROVE TypeOK
    BY DEF Inv
  <2>1. \A i \in 1 .. MaxRoutes : stop.slots[i].id \in Ids \cup {None}
    BY DEF Types, Stops, Slots
  <2>2. \A p \in Positions : shown[p] = Unwritten \/ shown[p] \subseteq 0 .. StripNumPixels - 1
    BY DEF Types
  <2>3. stop.size \in 0 .. MaxRoutes
    BY DEF Types, Stops
  <2> QED
    BY <2>1, <2>2, <2>3 DEF Types, TypeOK
<1> QED
  BY Invariant, <1>1, PTL

(* A sign in order shows, after a successful update, the lowest minutes of  *)
(* the parsed stop for each box, and no box is lit without any.            *)
THEOREM LowestShown == Spec => []ShowsLowest
<1>1. Inv => ShowsLowest
  <2> SUFFICES ASSUME Inv, Healthy, Updated, NEW p \in Positions
               PROVE  /\ lit[p] <=> Minutes(p) # {}
                      /\ (lit[p] /\ 0 \notin Minutes(p)) =>
                           \E m \in Minutes(p) : /\ shown[p] = Expected(Unsigned(m))
                                                 /\ \A n \in Minutes(p) : Unsigned(m) <= Unsigned(n)
    BY DEF ShowsLowest
  <2>1. Live /\ pc # "write"
    BY DEF Live, Updated
  <2>2. /\ \A i, j \in Nat : Taken(i, j, p) => lit[p]
        /\ lit[p] => \E i, j \in Nat : Taken(i, j, p) /\ times[p] = Unsigned(MinAt(i, j))
        /\ lit[p] => shown[p] = Expected(times[p])
    BY <2>1 DEF Inv, Covered, Justified, Current
  <2>3. lit[p] <=> Minutes(p) # {}
    BY <2>2, MinutesTaken
  <2>4. ASSUME lit[p], 0 \notin Minutes(p)
        PROVE  \E m \in Minutes(p) : /\ shown[p] = Expected(Unsigned(m))
                                     /\ \A n \in Minutes(p) : Unsigned(m) <= Unsigned(n)
    <3>1. \A i, j \in Nat : Taken(i, j, p) => MinAt(i, j) # 0
      BY <2>4, MinutesTaken
    <3>2. \A i, j \in Nat : Taken(i, j, p) => times[p] <= Unsigned(MinAt(i, j))
      BY <2>1, <3>1 DEF Inv, Lowest
    <3>3. PICK m \in Minutes(p) : times[p] = Unsigned(m)
      BY <2>2, <2>4, MinutesTaken
    <3>4. \A n \in Minutes(p) : Unsigned(m) <= Unsigned(n)
      BY <3>2, <3>3, MinutesTaken
    <3> QED
      BY <2>2, <2>4, <3>3, <3>4
  <2> QED
    BY <2>3, <2>4
<1> QED
  BY Invariant, <1>1, PTL

(* While the boxes are rewritten no lit one shows what its LEDs remember.  *)
THEOREM LitAreCurrent == Spec => []LitIsCurrent
<1>1. Inv => LitIsCurrent
  BY DEF Inv, Current, Live, LitIsCurrent
<1> QED
  BY Invariant, <1>1, PTL

(* No number of an earlier response is shown, without an empty list.       *)
THEOREM ShownFromResponse == Spec => []FromThisResponse
<1>1. Inv => FromThisResponse
  <2> SUFFICES ASSUME Inv, Healthy, Updated, ~HasEmptyList(response),
                      NEW p \in Positions, lit[p]
               PROVE  shown[p] \in {Expected(Unsigned(m)) : m \in MinutesFor(p, response.routes)}
    BY DEF FromThisResponse
  <2>1. Live /\ pc # "write"
    BY DEF Live, Updated
  <2>2. PICK i \in Nat, j \in Nat : Taken(i, j, p) /\ times[p] = Unsigned(MinAt(i, j))
    BY <2>1 DEF Inv, Justified
  <2>3. shown[p] = Expected(Unsigned(MinAt(i, j)))
    BY <2>1, <2>2 DEF Inv, Current
  <2>4. /\ response.kind = "routes" /\ stop.size = Len(response.routes)
        /\ \A k \in 1 .. stop.size : stop.slots[k] = response.routes[k]
    BY <2>1 DEF Inv, FromBody, HasEmptyList
  <2>5. /\ DOMAIN response.routes = 1 .. stop.size
        /\ \A k \in 1 .. stop.size : response.routes[k] \in Route
    BY <2>4, BodyTyped DEF Inv, Types
  <2>6. At(i, j) /\ i \in 1 .. stop.size /\ stop.slots[i] = response.routes[i]
    BY <2>2, <2>4 DEF Taken, For, At
  <2>7. j \in DOMAIN response.routes[i].dests
    <3>1. response.routes[i].dests \in Seq([dir : Dirs, min : Minute])
      BY <2>5, <2>6 DEF Route
    <3> QED
      BY <2>6, <3>1, LenProperties DEF At
  <2>8. MinAt(i, j) \in MinutesFor(p, response.routes)
    <3> DEFINE routes == response.routes
               m      == MinAt(i, j)
    <3>1. /\ i \in DOMAIN routes /\ j \in DOMAIN routes[i].dests
          /\ routes[i].dests[j].min # -1 /\ routes[i].dests[j].min = m
          /\ get_display_address(routes[i].id, routes[i].dests[j].dir) = p
      BY <2>2, <2>5, <2>6, <2>7 DEF Taken, For, MinAt
    <3> HIDE DEF routes, m
    <3>2. m \in MinutesFor(p, routes)
      BY <3>1, MinutesAre
    <3> QED
      BY <3>2 DEF routes, m
  <2> QED
    BY <2>3, <2>8
<1> QED
  BY Invariant, <1>1, PTL

(* Success means lit boxes, whichever peripherals fail.                    *)
THEOREM NamedLit == Spec => []NamedAreLit
<1>1. Inv => NamedAreLit
  <2> SUFFICES ASSUME Inv, Updated, NEW p \in Positions, Minutes(p) # {} PROVE lit[p]
    BY DEF NamedAreLit
  <2>1. Live
    BY DEF Live
  <2> QED
    BY <2>1, MinutesTaken DEF Inv, Covered
<1> QED
  BY Invariant, <1>1, PTL

(* The LEDs of a box change only while it is lit, and to its own digits,   *)
(* whichever peripherals fail.                                             *)
THEOREM OwnDigits == Spec => OnlyItsOwnDigits
<1>1. Inv /\ [Next]_vars =>
        [\A p \in Positions : shown'[p] # shown[p] =>
           lit[p] /\ shown'[p] \in ExpectedParts(times[p])]_vars
  <2> SUFFICES ASSUME Inv, Next, NEW p \in Positions, shown'[p] # shown[p]
               PROVE  lit[p] /\ shown'[p] \in ExpectedParts(times[p])
    OBVIOUS
  <2>1. WriteNumber /\ pc' = "pick"
    BY DEF Next, Restart, Fetch, ParseFails, Parse, NextRoute, Skip, SwitchOn, WriteNumber,
           Finish, Return
  <2>2. PICK seen \in Sent(times[Display], shown[Display]) :
          shown' = [shown EXCEPT ![Display] = seen]
    BY <2>1 DEF WriteNumber, Return
  <2>3. Display \in Positions /\ lit[Display] /\ times[Display] \in Nat
    BY <2>1, UintAssumption DEF WriteNumber, Inv, Writing, Types
  <2>4. p = Display /\ seen # shown[Display] /\ shown'[p] = seen
    BY <2>2, <2>3 DEF Inv, Types
  <2>5. seen \in ExpectedParts(times[Display])
    BY <2>3, <2>4, SentTyped
  <2> QED
    BY <2>3, <2>4, <2>5
<1> QED
  BY Invariant, <1>1, PTL DEF Spec, OnlyItsOwnDigits

-----------------------------------------------------------------------------
(* Refinement: each step of update_stop() is one of Board, or none.        *)
LEMMA BoardInitially == Init => Switches!BoardInit
<1> SUFFICES ASSUME Init PROVE Switches!BoardInit
  OBVIOUS
<1>1. lit = Switches!Dark /\ pc = "wait"
  BY DEF Init, Switches!Dark
<1>2. ("switch" \in broken) \in BOOLEAN
  OBVIOUS
<1> QED
  BY <1>1, <1>2 DEF Switches!BoardInit

LEMMA BoardStep == Inv /\ [Next]_vars => [Switches!BoardNext]_Switches!boardVars
<1> SUFFICES ASSUME Inv, [Next]_vars PROVE [Switches!BoardNext]_Switches!boardVars
  OBVIOUS
<1> DEFINE updating == pc \in {"pick", "write"}
<1>0. broken' = broken
  BY HealthyThen
<1>1. CASE Restart
  BY <1>1 DEF Restart, Switches!BoardNext, Switches!GoDark, Switches!Dark
<1>2. CASE Fetch \/ ParseFails
  <2>1. lit' = lit /\ ~updating /\ ~updating'
    BY <1>2 DEF Fetch, ParseFails, Return
  <2> QED
    BY <1>0, <2>1 DEF Switches!boardVars
<1>3. CASE Parse
  <2>1. lit' \in Switches!Swept
    BY <1>3 DEF Parse, Swept, Switches!Swept, Switches!Dark
  <2>2. ~updating /\ updating'
    BY <1>3 DEF Parse
  <2> QED
    BY <1>0, <2>1, <2>2 DEF Switches!BoardNext, Switches!Sweep
<1>4. CASE NextRoute \/ Skip
  <2>1. lit' = lit /\ updating /\ updating'
    BY <1>4 DEF NextRoute, Skip
  <2> QED
    BY <1>0, <2>1 DEF Switches!boardVars
<1>5. CASE SwitchOn
  <2>1. CASE pc' = "write"
    <3>1. Display \in Positions
      BY <1>5, <2>1, SwitchOnDoes DEF Inv
    <3>2. lit' = [lit EXCEPT ![Display] = TRUE] /\ updating /\ updating'
      BY <1>5, <2>1 DEF SwitchOn, Return
    <3>3. Switches!Light(Display)
      BY <1>0, <3>2 DEF Switches!Light
    <3> QED
      BY <3>1, <3>3 DEF Switches!BoardNext
  <2>2. CASE pc' # "write"
    <3>1. lit' = lit /\ updating /\ ~updating'
      BY <1>5, <2>2 DEF SwitchOn, Return
    <3> QED
      BY <1>0, <3>1 DEF Switches!BoardNext, Switches!EndUpdate
  <2> QED
    BY <2>1, <2>2
<1>6. CASE WriteNumber
  <2>1. lit' = lit /\ updating /\ pc' \in {"pick", "wait"}
    BY <1>6 DEF WriteNumber, Return
  <2>2. CASE pc' = "pick"
    BY <1>0, <2>1, <2>2 DEF Switches!boardVars
  <2>3. CASE pc' = "wait"
    BY <1>0, <2>1, <2>3 DEF Switches!BoardNext, Switches!EndUpdate
  <2> QED
    BY <2>1, <2>2, <2>3
<1>7. CASE Finish
  <2>1. lit' = lit /\ updating /\ ~updating'
    BY <1>7 DEF Finish, Return
  <2> QED
    BY <1>0, <2>1 DEF Switches!BoardNext, Switches!EndUpdate
<1>8. CASE UNCHANGED vars
  BY <1>8 DEF vars, Switches!boardVars
<1> QED
  BY <1>1, <1>2, <1>3, <1>4, <1>5, <1>6, <1>7, <1>8 DEF Next

(* The switches do what Board allows, whichever of them fail.              *)
THEOREM Implements == Spec => ImplementsBoard
<1>1. Inv /\ [Next]_vars => [Switches!BoardNext]_Switches!boardVars
  BY BoardStep
<1> QED
  BY BoardInitially, Invariant, <1>1, PTL DEF Spec, ImplementsBoard, Switches!BoardSpec

=============================================================================
