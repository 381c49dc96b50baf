------------------------ MODULE ParseSwiftlyProofs ------------------------
(***************************************************************************)
(* Proofs about ParseSwiftly and the tokenizer under it, for every text    *)
(* made of lexemes, whether it is JSON or not, and every pool.             *)
(***************************************************************************)
EXTENDS ParseSwiftly, SequenceTheorems, WellFoundedInduction, TLAPS

TokenTypes == Containers \cup {"string", "primitive"}

TokenRecords == [type : TokenTypes, text : Texts, num : Int, size : Nat, open : BOOLEAN]

(* A token counts tokens that come after it, and the token that counts the *)
(* next one has been allocated.                                            *)
Tokenized ==
  /\ js \in Seq(Lexemes)
  /\ tokens \in Seq(TokenRecords)
  /\ Len(tokens) <= Pool
  /\ \A i \in 1 .. Len(tokens) : tokens[i].size <= Len(tokens) - i
  /\ toksuper \in 0 .. Len(tokens)
  /\ ret \in PART .. Pool

(* The tokens are handed on only when the text has been read to its end    *)
(* and no bracket is left open, and their number with them.                *)
Closed ==
  (pc \notin {"idle", "scan"} /\ ret >= 0) =>
    ret = Len(tokens) /\ OpenTokens = {} /\ js = <<>>

Loops == Objects \cup Lists

\* The loops that run around each one.
Around ==
  [l \in Loops |->
     CASE l = "data"   -> {}
       [] l = "routes" -> {"data"}
       [] l = "route"  -> {"data", "routes"}
       [] l = "dests"  -> {"data", "routes", "route"}
       [] l = "dest"   -> {"data", "routes", "route", "dests"}
       [] l = "preds"  -> {"data", "routes", "route", "dests", "dest"}
       [] l = "pred"   -> {"data", "routes", "route", "dests", "dest", "preds"}]

\* A loop inside others is in one of their rounds: none of them is through.
Nested ==
  /\ pc \in {"idle", "scan", "parsed", "root", "astray"} \cup Loops
  /\ left \in [Loops -> 0 .. Pool]
  /\ pc \in Loops => \A l \in Around[pc] : left[l] > 0

\* What the ways out of the lists take back, the ways in have put there.
Ahead ==
  /\ t \in Nat
  /\ pc \in {"dests", "dest"} => t >= 2
  /\ pc \in {"preds", "pred"} => t >= 4

Kinds == cut \in BOOLEAN /\ stop \in Stops /\ old \in Stops /\ result \in -1 .. 5

\* Nothing is written to the stop before the tokens are there and judged.
Untouched ==
  /\ pc \in {"scan", "parsed"} => stop = old
  /\ pc \notin {"idle", "scan", "parsed"} => ret > 1
  /\ FailureKeepsStop

Inv == Tokenized /\ Closed /\ Nested /\ Ahead /\ Kinds /\ Untouched

(* Only a whole text is walked: while t moves, the text has been read to    *)
(* its end, every bracket in it is closed, and ret counts its tokens.       *)
WalksWhole ==
  pc \notin {"idle", "scan", "parsed"} =>
    js = <<>> /\ OpenTokens = {} /\ ret = Len(tokens) /\ ret > 1

-----------------------------------------------------------------------------
LEMMA HighestIn ==
  ASSUME NEW n \in Nat, NEW S \in SUBSET (1 .. n)
  PROVE  Highest(S) \in 0 .. n /\ (S # {} => Highest(S) \in S)
<1>1. CASE S = {}
  BY <1>1 DEF Highest
<1>2. CASE S # {}
  <2> DEFINE less == {ss \in Nat \X Nat : ss[1] < ss[2]}
             T    == {n - i : i \in S}
  <2>1. IsWellFoundedOn(less, Nat)
    BY NatLessThanWellFounded DEF OpToRel
  <2>2. T \subseteq Nat /\ T # {}
    <3>1. ASSUME NEW i \in S PROVE n - i \in Nat
      <4>1. i \in 1 .. n /\ n \in Nat
        OBVIOUS
      <4> QED
        BY <4>1
    <3>2. PICK i : i \in S
      BY <1>2
    <3> QED
      BY <3>1, <3>2
  <2>3. PICK m \in T : \A k \in T : <<k, m>> \notin less
    <3> HIDE DEF less, T
    <3> QED
      BY <2>1, <2>2, WFMin
  <2>4. PICK i \in S : m = n - i
    BY <2>3
  <2>5. ASSUME NEW j \in S PROVE j <= i
    <3>0. n - j \in T /\ i \in 1 .. n /\ j \in 1 .. n
      OBVIOUS
    <3>1. n - j \in Nat /\ m \in Nat
      BY <2>2, <3>0
    <3>2. n - j < m => <<n - j, m>> \in less
      BY <3>1
    <3>3. ~(n - j < m)
      BY <2>3, <3>0, <3>1, <3>2
    <3> HIDE DEF T, less
    <3> QED
      BY <2>4, <3>0, <3>3
  <2>6. Highest(S) = CHOOSE k \in S : \A j \in S : j <= k
    BY <1>2 DEF Highest
  <2>7. Highest(S) \in S
    BY <2>5, <2>6
  <2>8. \A k \in S : k \in 0 .. n
    OBVIOUS
  <2> QED
    BY <2>7, <2>8
<1> QED
  BY <1>1, <1>2

\* A lexeme that is read, and the token it makes.
LEMMA LexemeTyped ==
  ASSUME Tokenized, js # <<>>
  PROVE  Lexeme \in Lexemes /\ Tail(js) \in Seq(Lexemes) /\ Token(Lexeme) \in TokenRecords
<1>1. Lexeme \in Lexemes /\ Tail(js) \in Seq(Lexemes)
  BY HeadTailProperties DEF Tokenized, Lexeme
<1>2. Token(Lexeme) \in TokenRecords
  BY <1>1 DEF Lexemes, Token, TokenRecords, TokenTypes
<1> QED
  BY <1>1, <1>2

\* An allocation adds a token that counts nothing, and counts it in the one above.
LEMMA AllocateTyped ==
  ASSUME Tokenized, NEW x, Token(x) \in TokenRecords
  PROVE  LET n == Len(tokens)
             more == Allocate(x)
         IN  /\ n \in Nat /\ more \in Seq(TokenRecords) /\ Len(more) = n + 1
             /\ \A i \in 1 .. n + 1 : more[i].size <= n + 1 - i
<1> DEFINE n == Len(tokens)
           base == IF toksuper = 0 THEN tokens ELSE [tokens EXCEPT ![toksuper].size = @ + 1]
<1>0. n \in Nat /\ tokens \in Seq(TokenRecords) /\ toksuper \in 0 .. n
      /\ \A i \in 1 .. n : tokens[i] \in TokenRecords /\ tokens[i].size <= n - i /\ tokens[i].size \in Nat
  <2>1. \A i \in 1 .. n : tokens[i] \in TokenRecords
    BY ElementOfSeq DEF Tokenized
  <2> QED
    BY <2>1, LenProperties DEF Tokenized, TokenRecords
<1>1. /\ base \in Seq(TokenRecords) /\ Len(base) = n
      /\ \A i \in 1 .. n : base[i].size <= n + 1 - i
  <2>1. CASE toksuper = 0
    BY <1>0, <2>1
  <2>2. CASE toksuper # 0
    <3> DEFINE counted == [tokens[toksuper] EXCEPT !.size = @ + 1]
    <3>1. toksuper \in 1 .. n /\ tokens[toksuper] \in TokenRecords
      BY <1>0, <2>2
    <3>2. counted \in TokenRecords /\ counted.size = tokens[toksuper].size + 1
      BY <3>1 DEF TokenRecords
    <3>3. base = [tokens EXCEPT ![toksuper] = counted]
      BY <2>2
    <3> HIDE DEF counted, base
    <3>4. /\ base \in Seq(TokenRecords) /\ Len(base) = n
          /\ \A j \in 1 .. n : base[j] = IF j = toksuper THEN counted ELSE tokens[j]
      BY <1>0, <3>1, <3>2, <3>3, ExceptSeq
    <3>5. ASSUME NEW i \in 1 .. n PROVE base[i].size <= n + 1 - i
      <4>1. CASE i = toksuper
        BY <1>0, <3>1, <3>2, <3>4, <4>1
      <4>2. CASE i # toksuper
        BY <1>0, <3>4, <4>2
      <4> QED
        BY <4>1, <4>2
    <3> QED
      BY <3>4, <3>5
  <2> QED
    BY <2>1, <2>2
<1> DEFINE more == Allocate(x)
<1>2. more = Append(base, Token(x)) /\ Token(x).size = 0
  BY DEF Allocate, Token
<1> HIDE DEF base, more, n
<1>3. /\ more \in Seq(TokenRecords) /\ Len(more) = n + 1
      /\ \A i \in 1 .. n : more[i] = base[i]
      /\ more[n + 1] = Token(x)
  BY <1>0, <1>1, <1>2, AppendProperties
<1>n. n \in Nat
  BY <1>0
<1>4. ASSUME NEW i \in 1 .. n + 1 PROVE more[i].size <= n + 1 - i
  <2>1. CASE i = n + 1
    BY <1>0, <1>2, <1>3, <2>1
  <2>2. CASE i # n + 1
    <3>1. i \in 1 .. n
      BY <1>n, <2>2
    <3> QED
      BY <1>1, <1>3, <3>1
  <2> QED
    BY <2>1, <2>2
<1> QED
  BY <1>0, <1>3, <1>4 DEF n, more

LEMMA OpenIn ==
  ASSUME Tokenized
  PROVE  /\ Len(tokens) \in Nat /\ DOMAIN tokens = 1 .. Len(tokens)
         /\ OpenTokens \in SUBSET (1 .. Len(tokens))
         /\ OpenTokens # {} => Innermost \in 1 .. Len(tokens)
<1>1. Len(tokens) \in Nat /\ DOMAIN tokens = 1 .. Len(tokens)
  BY LenProperties DEF Tokenized
<1>2. OpenTokens \in SUBSET (1 .. Len(tokens))
  BY <1>1 DEF OpenTokens
<1> QED
  BY <1>1, <1>2, HighestIn DEF Innermost

\* The pool is a whole number of tokens.
LEMMA PoolNat == Pool \in Nat
BY PoolAssumption

LEMMA ScanTokenized ==
  ASSUME Tokenized, JsmnStep PROVE Tokenized'
<1>1. CASE OpenContainer \/ Value
  <2>1. js # <<>> /\ PoolLeft /\ tokens' = Allocate(Lexeme) /\ js' = Tail(js) /\ ret' = ret
        /\ toksuper' \in {toksuper, Len(tokens) + 1}
    BY <1>1 DEF OpenContainer, Value, Scanning, Advance
  <2>2. /\ Len(tokens) \in Nat /\ tokens' \in Seq(TokenRecords) /\ Len(tokens') = Len(tokens) + 1
        /\ \A i \in 1 .. Len(tokens) + 1 : tokens'[i].size <= Len(tokens) + 1 - i
    BY <2>1, LexemeTyped, AllocateTyped
  <2>3. Len(tokens') <= Pool
    BY <2>1, <2>2, PoolNat DEF PoolLeft
  <2>4. toksuper' \in 0 .. Len(tokens')
    BY <2>1, <2>2 DEF Tokenized
  <2> QED
    BY <2>1, <2>2, <2>3, <2>4, LexemeTyped DEF Tokenized
<1>2. CASE NoMemory \/ Mismatch \/ Unreadable \/ EndOfText
  <2>1. js' = js /\ tokens' = tokens /\ toksuper' = toksuper
        /\ ret' \in {NOMEM, INVAL, PART, Len(tokens)}
    BY <1>2 DEF NoMemory, Mismatch, Unreadable, EndOfText, EndWith
  <2>2. ret' \in PART .. Pool
    BY <2>1, PoolNat, OpenIn DEF Tokenized, NOMEM, INVAL, PART
  <2> QED
    BY <2>1, <2>2 DEF Tokenized
<1>3. CASE CloseContainer
  <2>1. js # <<>> /\ js' = Tail(js) /\ ret' = ret /\ OpenTokens # {}
        /\ tokens' = [tokens EXCEPT ![Innermost].open = FALSE]
        /\ toksuper' = Highest(OpenTokens \ {Innermost})
    BY <1>3 DEF CloseContainer, Scanning, Advance, Closes
  <2> DEFINE n == Len(tokens)
             shut == [tokens[Innermost] EXCEPT !.open = FALSE]
  <2>a. n \in Nat /\ Innermost \in 1 .. n /\ OpenTokens \in SUBSET (1 .. n)
    BY <2>1, OpenIn
  <2>2. n \in Nat /\ Innermost \in 1 .. n /\ OpenTokens \ {Innermost} \in SUBSET (1 .. n)
    BY <2>a
  <2>3. \A i \in 1 .. n : tokens[i] \in TokenRecords
    BY ElementOfSeq DEF Tokenized
  <2>4. shut \in TokenRecords /\ shut.size = tokens[Innermost].size
    BY <2>2, <2>3 DEF TokenRecords
  <2>5. tokens' = [tokens EXCEPT ![Innermost] = shut]
    BY <2>1
  <2> HIDE DEF shut
  <2>6. /\ tokens' \in Seq(TokenRecords) /\ Len(tokens') = n
        /\ \A j \in 1 .. n : tokens'[j] = IF j = Innermost THEN shut ELSE tokens[j]
    BY <2>2, <2>4, <2>5, ExceptSeq DEF Tokenized
  <2>7. \A j \in 1 .. n : tokens'[j].size = tokens[j].size
    BY <2>4, <2>6
  <2>8. toksuper' \in 0 .. n
    BY <2>1, <2>2, HighestIn
  <2> QED
    BY <2>1, <2>6, <2>7, <2>8, LexemeTyped DEF Tokenized
<1>4. CASE Colon
  <2>1. js # <<>> /\ js' = Tail(js) /\ ret' = ret /\ tokens' = tokens /\ toksuper' = Len(tokens)
    BY <1>4 DEF Colon, Scanning, Advance
  <2> QED
    BY <2>1, LexemeTyped, OpenIn DEF Tokenized
<1>5. CASE Comma
  <2>1. js # <<>> /\ js' = Tail(js) /\ ret' = ret /\ tokens' = tokens
        /\ (toksuper' = toksuper \/ (OpenTokens # {} /\ toksuper' = Innermost))
    BY <1>5 DEF Comma, Scanning, Advance
  <2>2. toksuper' \in 0 .. Len(tokens)
    <3>1. OpenTokens # {} => Innermost \in 0 .. Len(tokens)
      BY OpenIn
    <3>2. toksuper \in 0 .. Len(tokens)
      BY DEF Tokenized
    <3> QED
      BY <2>1, <3>1, <3>2
  <2> QED
    BY <2>1, <2>2, LexemeTyped DEF Tokenized
<1> QED
  BY <1>1, <1>2, <1>3, <1>4, <1>5 DEF JsmnStep

-----------------------------------------------------------------------------
(* What a step of the parser can write.                                    *)

\* A field read from a token has its type.
LEMMA ReadTyped ==
  ASSUME Tokenized, NEW i \in Nat, i < Len(tokens)
  PROVE  Tok(i).size \in 0 .. Pool /\ Tok(i).text \in Texts /\ Tok(i).num \in Int
<1>1. Len(tokens) \in Nat /\ i + 1 \in 1 .. Len(tokens)
  BY OpenIn
<1>2. tokens[i + 1] \in TokenRecords /\ tokens[i + 1].size <= Len(tokens) - (i + 1)
  BY <1>1, ElementOfSeq DEF Tokenized
<1>3. tokens[i + 1].size \in 0 .. Pool
  BY <1>1, <1>2, PoolNat DEF TokenRecords, Tokenized
<1> QED
  BY <1>2, <1>3 DEF Tok, TokenRecords

\* A write to a slot, or to one of its departures, wherever its index is.
LEMMA SlotWritten ==
  ASSUME stop \in Stops, NEW i, NEW slot,
         i \in 1 .. MaxRoutes =>
           slot \in [id : Texts \cup {None}, size : 0 .. Pool,
                     dests : [1 .. MaxDepartures -> [dir : Texts, min : Int]]]
  PROVE  [stop EXCEPT !.slots = [@ EXCEPT ![i] = slot]] \in Stops
BY DEF Stops

LEMMA StopWrites ==
  ASSUME stop \in Stops, NEW i, NEW j,
         NEW text \in Texts, NEW num \in Int, NEW size \in 0 .. Pool
  PROVE  /\ [stop EXCEPT !.size = size] \in Stops
         /\ [stop EXCEPT !.slots[i].id = text] \in Stops
         /\ [stop EXCEPT !.slots[i].size = size] \in Stops
         /\ [stop EXCEPT !.slots[i].dests[j].dir = text] \in Stops
         /\ [stop EXCEPT !.slots[i].dests[j].min = num] \in Stops
<1>1. [stop EXCEPT !.size = size] \in Stops
  BY DEF Stops
<1>2. [stop EXCEPT !.slots[i].id = text] \in Stops
  BY DEF Stops
<1>3. [stop EXCEPT !.slots[i].size = size] \in Stops
  BY DEF Stops
<1>4. [stop EXCEPT !.slots[i].dests[j].dir = text] \in Stops
  <2> DEFINE dest == [stop.slots[i].dests[j] EXCEPT !.dir = text]
             slot == [stop.slots[i] EXCEPT !.dests = [@ EXCEPT ![j] = dest]]
  <2>1. ASSUME i \in 1 .. MaxRoutes
        PROVE  slot \in [id : Texts \cup {None}, size : 0 .. Pool,
                         dests : [1 .. MaxDepartures -> [dir : Texts, min : Int]]]
    <3>1. stop.slots[i] \in [id : Texts \cup {None}, size : 0 .. Pool,
                             dests : [1 .. MaxDepartures -> [dir : Texts, min : Int]]]
      BY <2>1 DEF Stops
    <3>2. j \in 1 .. MaxDepartures => dest \in [dir : Texts, min : Int]
      BY <3>1
    <3> HIDE DEF dest
    <3> QED
      BY <3>1, <3>2
  <2> HIDE DEF slot
  <2>2. [stop EXCEPT !.slots = [@ EXCEPT ![i] = slot]] \in Stops
    BY <2>1, SlotWritten
  <2>3. [stop EXCEPT !.slots[i].dests[j].dir = text] = [stop EXCEPT !.slots = [@ EXCEPT ![i] = slot]]
    BY DEF slot
  <2> QED
    BY <2>2, <2>3
<1>5. [stop EXCEPT !.slots[i].dests[j].min = num] \in Stops
  <2> DEFINE dest == [stop.slots[i].dests[j] EXCEPT !.min = num]
             slot == [stop.slots[i] EXCEPT !.dests = [@ EXCEPT ![j] = dest]]
  <2>1. ASSUME i \in 1 .. MaxRoutes
        PROVE  slot \in [id : Texts \cup {None}, size : 0 .. Pool,
                         dests : [1 .. MaxDepartures -> [dir : Texts, min : Int]]]
    <3>1. stop.slots[i] \in [id : Texts \cup {None}, size : 0 .. Pool,
                             dests : [1 .. MaxDepartures -> [dir : Texts, min : Int]]]
      BY <2>1 DEF Stops
    <3>2. j \in 1 .. MaxDepartures => dest \in [dir : Texts, min : Int]
      BY <3>1
    <3> HIDE DEF dest
    <3> QED
      BY <3>1, <3>2
  <2> HIDE DEF slot
  <2>2. [stop EXCEPT !.slots = [@ EXCEPT ![i] = slot]] \in Stops
    BY <2>1, SlotWritten
  <2>3. [stop EXCEPT !.slots[i].dests[j].min = num] = [stop EXCEPT !.slots = [@ EXCEPT ![i] = slot]]
    BY DEF slot
  <2> QED
    BY <2>2, <2>3
<1> QED
  BY <1>1, <1>2, <1>3, <1>4, <1>5

\* Which loop the ways in and out lead to, and what is around it.
LEMMA Nesting ==
  /\ \A o \in Objects \ {"pred"} :
       /\ ListIn(o) \in Lists
       /\ o \notin Around[o] /\ Around[ListIn(o)] = Around[o] \cup {o}
  /\ \A l \in Lists :
       /\ ElementOf(l) \in Objects \ {"data"}
       /\ Around[ElementOf(l)] = Around[l] \cup {l}
       /\ Owner(l) \in Objects /\ Owner(l) \in Around[l]
       /\ Around[Owner(l)] = Around[l] \ {Owner(l)}
  /\ \A o \in Objects \ {"data"} :
       /\ ListOf(o) \in Lists /\ ListOf(o) \in Around[o]
       /\ Around[ListOf(o)] = Around[o] \ {ListOf(o)}
  /\ \A l \in Loops : l \notin Around[l] /\ Around[l] \subseteq Loops
<1>1. /\ Around["data"] = {}
      /\ Around["routes"] = {"data"}
      /\ Around["route"] = {"data", "routes"}
      /\ Around["dests"] = {"data", "routes", "route"}
      /\ Around["dest"] = {"data", "routes", "route", "dests"}
      /\ Around["preds"] = {"data", "routes", "route", "dests", "dest"}
      /\ Around["pred"] = {"data", "routes", "route", "dests", "dest", "preds"}
  BY DEF Around, Loops, Objects, Lists
<1>2. /\ ListIn("data") = "routes" /\ ListIn("route") = "dests" /\ ListIn("dest") = "preds"
      /\ ElementOf("routes") = "route" /\ ElementOf("dests") = "dest"
      /\ ElementOf("preds") = "pred"
      /\ Owner("routes") = "data" /\ Owner("dests") = "route" /\ Owner("preds") = "dest"
      /\ ListOf("route") = "routes" /\ ListOf("dest") = "dests" /\ ListOf("pred") = "preds"
  BY DEF ListIn, ElementOf, Owner, ListOf
<1> QED
  BY <1>1, <1>2 DEF Objects, Lists, Loops

-----------------------------------------------------------------------------
(* The steps keep the invariant.                                           *)

LEMMA BootInStops == StopAtBoot \in Stops
BY PoolNat DEF StopAtBoot, Stops, NoDest, Texts

LEMMA InitInv == Init => Inv
<1> SUFFICES ASSUME Init PROVE Inv
  OBVIOUS
<1>1. Tokenized
  <2>1. js = <<>> /\ tokens = <<>> /\ toksuper = 0 /\ ret = 0
    BY DEF Init
  <2> QED
    BY <2>1, PoolNat DEF Tokenized, PART
<1>2. Closed /\ Ahead
  BY DEF Init, Closed, Ahead
<1>3. Nested
  <2>1. left \in [Loops -> 0 .. Pool]
    BY PoolNat DEF Init, NoRounds, Loops
  <2>2. pc = "idle" /\ pc \notin Loops
    BY DEF Init, Loops, Objects, Lists
  <2> QED
    BY <2>1, <2>2 DEF Nested
<1>4. Kinds
  <2>1. StopAtBoot \in Stops
    BY BootInStops
  <2>2. cut \in BOOLEAN
    BY DEF Init
  <2>3. result \in -1 .. 5
    BY DEF Init
  <2> QED
    BY <2>1, <2>2, <2>3 DEF Init, Kinds
<1>5. Untouched
  BY DEF Init, Untouched, FailureKeepsStop, Returned
<1> QED
  BY <1>1, <1>2, <1>3, <1>4, <1>5 DEF Inv

LEMMA CallInv ==
  ASSUME Inv, Call PROVE Inv'
<1>1. pc' = "scan" /\ js' \in Seq(Lexemes) /\ tokens' = <<>> /\ toksuper' = 0 /\ ret' = 0
  BY InputsAssumption DEF Call, Renewed
<1>2. Tokenized'
  BY <1>1, PoolNat DEF Tokenized, PART
<1>3. pc' \notin Loops
  BY <1>1 DEF Loops, Objects, Lists
<1>4. Closed' /\ Ahead' /\ Nested'
  BY <1>1, <1>3 DEF Inv, Closed, Ahead, Nested, Call
<1>5. Kinds' /\ Untouched'
  BY <1>1 DEF Inv, Kinds, Untouched, FailureKeepsStop, Returned, Call
<1> QED
  BY <1>2, <1>4, <1>5 DEF Inv

LEMMA CutInv ==
  ASSUME Inv, Cut PROVE Inv'
<1>0. pc = "scan" /\ pc' = pc /\ js # <<>> /\ UNCHANGED <<tokens, toksuper, ret>>
  BY DEF Cut, Scanning
<1>1. js' \in Seq(Lexemes)
  <2> DEFINE half == [Lexeme EXCEPT !.k = "half"]
  <2>1. Lexeme.k = "value" => half \in Lexemes
    <3>1. Lexeme \in Lexemes
      BY <1>0, LexemeTyped DEF Inv
    <3> QED
      BY <3>1 DEF Lexemes
  <2>2. js' = <<>> \/ (js' = <<half>> /\ Lexeme.k = "value")
    BY DEF Cut
  <2> HIDE DEF half
  <2>3. <<>> \in Seq(Lexemes) /\ (half \in Lexemes => <<half>> \in Seq(Lexemes))
    OBVIOUS
  <2> QED
    BY <2>1, <2>2, <2>3
<1>2. Tokenized'
  BY <1>0, <1>1 DEF Inv, Tokenized
<1>3. Closed' /\ Ahead' /\ Nested'
  BY <1>0 DEF Inv, Closed, Ahead, Nested, Cut
<1>4. Kinds' /\ Untouched'
  BY <1>0 DEF Inv, Kinds, Untouched, FailureKeepsStop, Returned, Cut
<1> QED
  BY <1>2, <1>3, <1>4 DEF Inv

LEMMA ScanInv ==
  ASSUME Inv, Scan PROVE Inv'
<1>0. Tokenized /\ JsmnStep /\ UNCHANGED <<input, cut, t, left, stop, result, old>>
  BY DEF Inv, Scan
<1>1. pc = "scan" /\ pc' \in {"scan", "parsed"}
  BY <1>0 DEF JsmnStep, OpenContainer, Value, NoMemory, CloseContainer, Mismatch, Colon,
              Comma, Unreadable, EndOfText, Scanning, Advance, EndWith
<1>2. Tokenized'
  BY <1>0, ScanTokenized
<1>3. Closed'
  <2>1. ASSUME pc' = "parsed" PROVE (ret' >= 0) => ret' = Len(tokens') /\ OpenTokens' = {} /\ js' = <<>>
    <3>1. CASE NoMemory \/ Mismatch \/ Unreadable
      BY <3>1 DEF NoMemory, Mismatch, Unreadable, EndWith, NOMEM, INVAL, PART
    <3>2. CASE EndOfText
      BY <3>2 DEF EndOfText, EndWith, PART, OpenTokens
    <3>3. CASE OpenContainer \/ Value \/ CloseContainer \/ Colon \/ Comma
      BY <1>1, <2>1, <3>3 DEF OpenContainer, Value, CloseContainer, Colon, Comma, Advance
    <3> QED
      BY <1>0, <3>1, <3>2, <3>3 DEF JsmnStep
  <2> QED
    BY <1>1, <2>1 DEF Closed
<1>4. Nested' /\ Ahead'
  <2>1. pc' \notin Loops
    BY <1>1 DEF Loops, Objects, Lists
  <2> QED
    BY <1>0, <1>1, <2>1 DEF Inv, Nested, Ahead
<1>5. Kinds' /\ Untouched'
  BY <1>0, <1>1 DEF Inv, Kinds, Untouched, FailureKeepsStop, Returned
<1> QED
  BY <1>2, <1>3, <1>4, <1>5 DEF Inv

\* What a step of the walk leaves alone.
LEMMA WalkInv ==
  ASSUME Inv, pc \in {"root"} \cup Loops, pc' \in {"root", "astray"} \cup Loops,
         UNCHANGED Scanned, stop' \in Stops
  PROVE  Tokenized' /\ Closed' /\ Kinds' /\ Untouched'
<1>0. UNCHANGED <<js, tokens, toksuper, ret, cut, result, old>>
  BY DEF Scanned
<1>1. pc \notin {"idle", "scan", "parsed"} /\ pc' \notin {"idle", "scan", "parsed"}
  BY DEF Loops, Objects, Lists
<1>2. Tokenized'
  BY <1>0 DEF Inv, Tokenized
<1>3. Closed'
  BY <1>0, <1>1 DEF Inv, Closed, OpenTokens
<1>4. Kinds' /\ Untouched'
  BY <1>0, <1>1 DEF Inv, Kinds, Untouched, FailureKeepsStop, Returned
<1> QED
  BY <1>2, <1>3, <1>4

\* A step of the walk sets the counter of the loop it goes on in, no other one.
LEMMA LoopInv ==
  ASSUME Inv, pc \in {"root"} \cup Loops, pc' \in Loops, UNCHANGED Scanned, stop' \in Stops,
         NEW l \in Loops, pc' = l, NEW n \in 0 .. Pool, left' = [left EXCEPT ![l] = n],
         \A k \in Around[l] : left[k] > 0, Ahead'
  PROVE  Inv'
<1>1. left' \in [Loops -> 0 .. Pool] /\ \A k \in Around[l] : left'[k] = left[k]
  BY Nesting DEF Inv, Nested
<1>2. Nested'
  BY <1>1 DEF Nested
<1> QED
  BY <1>2, WalkInv DEF Inv

LEMMA RootInv ==
  ASSUME Inv, pc \in {"root"} \cup Loops, pc' \in {"root", "astray"}, UNCHANGED <<left, stop, Scanned>>, t' \in Nat
  PROVE  Inv'
<1>1. pc' \notin Loops
  BY DEF Loops, Objects, Lists
<1>2. Nested' /\ Ahead'
  BY <1>1 DEF Inv, Nested, Ahead
<1>3. stop' \in Stops
  BY DEF Inv, Kinds
<1> QED
  BY <1>2, <1>3, WalkInv DEF Inv

LEMMA ReturnInv ==
  ASSUME Inv, NEW r \in 0 .. 5, Return(r), r # 0 => stop = old PROVE Inv'
<1>1. pc' = "idle" /\ result' = r /\ js' = <<>> /\ tokens' = <<>> /\ toksuper' = 0 /\ ret' = 0
      /\ t' = 0 /\ left' = NoRounds /\ UNCHANGED <<cut, stop, old>>
  BY DEF Return, Renewed
<1>2. Tokenized'
  BY <1>1, PoolNat DEF Tokenized, PART
<1>3. Nested'
  <2>1. NoRounds \in [Loops -> 0 .. Pool]
    BY PoolNat DEF NoRounds, Loops
  <2>2. pc' \notin Loops
    BY <1>1 DEF Loops, Objects, Lists
  <2> QED
    BY <1>1, <2>1, <2>2 DEF Nested
<1>4. Closed' /\ Ahead' /\ Untouched'
  BY <1>1 DEF Closed, Ahead, Untouched, FailureKeepsStop, Returned
<1>5. Kinds'
  BY <1>1 DEF Inv, Kinds
<1> QED
  BY <1>2, <1>3, <1>4, <1>5 DEF Inv

LEMMA RefuseInv ==
  ASSUME Inv, Refuse PROVE Inv'
<1>1. pc = "parsed" /\ Failure # 0 /\ Return(Failure) /\ stop = old
  BY DEF Refuse, Inv, Untouched
<1>2. Failure \in 0 .. 5
  BY PoolNat DEF Failure, Inv, Tokenized, PART
<1> QED
  BY <1>1, <1>2, ReturnInv

LEMMA StartInv ==
  ASSUME Inv, Start PROVE Inv'
<1>0. pc = "parsed" /\ pc' = "root" /\ Failure = 0 /\ t' \in Nat
      /\ UNCHANGED <<js, tokens, toksuper, ret, input, cut, left, stop, result, old>>
  BY DEF Start
<1>1. ret > 1
  <2>1. ret \in Int
    BY PoolNat DEF Inv, Tokenized, PART
  <2> QED
    BY <1>0, <2>1 DEF Failure
<1>2. Tokenized' /\ Closed'
  BY <1>0 DEF Inv, Tokenized, Closed, OpenTokens
<1>3. Nested' /\ Ahead'
  <2>1. pc' \notin Loops
    BY <1>0 DEF Loops, Objects, Lists
  <2> QED
    BY <1>0, <2>1 DEF Inv, Nested, Ahead
<1>4. Kinds' /\ Untouched'
  BY <1>0, <1>1 DEF Inv, Kinds, Untouched, FailureKeepsStop, Returned
<1> QED
  BY <1>2, <1>3, <1>4 DEF Inv

\* The index and the counters.
LEMMA AtToken ==
  ASSUME Inv
  PROVE  t \in Nat /\ stop \in Stops /\ left \in [Loops -> 0 .. Pool]
BY DEF Inv, Ahead, Kinds, Nested

\* A step that knows what it looks at finds tokens there.
LEMMA KnownTyped ==
  ASSUME Inv, Known
  PROVE  /\ pc \in {"root"} \cup Loops /\ t < Len(tokens)
         /\ Tok(t).size \in 0 .. Pool
         /\ (pc \in DOMAIN Used /\ \E key \in Used[pc] : jsoneq(t, key)) =>
              /\ t + 1 < Len(tokens)
              /\ Tok(t + 1).size \in 0 .. Pool
              /\ Tok(t + 1).text \in Texts /\ Tok(t + 1).num \in Int
<1>1. pc \in {"root"} \cup Loops /\ t < ret
  BY DEF Known, Looking, Loops
<1>2. ret = Len(tokens)
  <2>1. pc \notin {"idle", "scan", "parsed"}
    BY <1>1 DEF Loops, Objects, Lists
  <2>2. ret > 1 /\ ret \in Int
    BY <2>1, PoolNat DEF Inv, Untouched, Tokenized, PART
  <2> QED
    BY <2>1, <2>2 DEF Inv, Closed
<1>3. t \in Nat /\ t + 1 \in Nat
  BY AtToken
<1>4. Tok(t).size \in 0 .. Pool
  BY <1>1, <1>2, <1>3, ReadTyped DEF Inv
<1>5. t + 1 < ret => /\ Tok(t + 1).size \in 0 .. Pool
                     /\ Tok(t + 1).text \in Texts /\ Tok(t + 1).num \in Int
  BY <1>2, <1>3, ReadTyped DEF Inv
<1> QED
  BY <1>1, <1>2, <1>4, <1>5 DEF Known

\* The keys whose values are looked at.
LEMMA UsedKeys ==
  /\ Used["root"] = {"data"} /\ Used["data"] = {"predictionsData"}
  /\ Used["route"] = {"routeId", "destinations"}
  /\ Used["dest"] = {"directionId", "predictions"} /\ Used["pred"] = {"min"}
  /\ DOMAIN Used = Objects \cup {"root"}
  /\ \A o \in Objects \ {"pred"} : ListKey(o) \in Used[o]
<1>1. /\ Used["root"] = {"data"} /\ Used["data"] = {"predictionsData"}
      /\ Used["route"] = {"routeId", "destinations"}
      /\ Used["dest"] = {"directionId", "predictions"} /\ Used["pred"] = {"min"}
      /\ DOMAIN Used = Objects \cup {"root"}
  BY DEF Used, Objects
<1>2. /\ ListKey("data") = "predictionsData" /\ ListKey("route") = "destinations"
      /\ ListKey("dest") = "predictions"
  BY DEF ListKey
<1> QED
  BY <1>1, <1>2 DEF Objects

LEMMA RootKeyInv ==
  ASSUME Inv, RootKey PROVE Inv'
<1>0. pc = "root" /\ t' = t + 2 /\ UNCHANGED <<stop, Scanned>> /\ t \in Nat
  BY AtToken DEF RootKey
<1>1. CASE pc' = "data" /\ left' = [left EXCEPT !["data"] = Tok(t + 1).size]
  <2>1. "data" \in Loops /\ Around["data"] = {}
    BY DEF Loops, Objects, Around
  <2>2. stop' \in Stops /\ Ahead' /\ Tok(t + 1).size \in 0 .. Pool
    <3>1. Known /\ jsoneq(t, "data")
      BY <1>0, <1>1 DEF RootKey
    <3>2. Tok(t + 1).size \in 0 .. Pool
      BY <1>0, <3>1, UsedKeys, KnownTyped
    <3> QED
      BY <1>0, <1>1, <3>2, AtToken DEF Ahead
  <2> QED
    BY <1>0, <1>1, <2>1, <2>2, LoopInv
<1>2. CASE UNCHANGED <<pc, left>>
  BY <1>0, <1>2, RootInv
<1> QED
  BY <1>1, <1>2 DEF RootKey

LEMMA LeaveDataInv ==
  ASSUME Inv, LeaveData PROVE Inv'
<1>1. pc = "data" /\ pc \in Loops /\ pc' = "root" /\ t' \in Nat /\ UNCHANGED <<left, stop, Scanned>>
  BY AtToken DEF LeaveData, Loops, Objects
<1> QED
  BY <1>1, RootInv

LEMMA PlainKeyInv ==
  ASSUME Inv, NEW o \in Objects, PlainKey(o) PROVE Inv'
<1>0. pc = o /\ pc' = o /\ o \in Loops /\ Known /\ t' = t + 2 /\ stop' = Kept(o)
      /\ left' = [left EXCEPT ![o] = left[o] - 1] /\ UNCHANGED Scanned
  BY DEF PlainKey, Loops
<1>p. left[o] > 0
  BY <1>0 DEF Known, Looking, Loops, Objects, Lists
<1>1. left[o] - 1 \in 0 .. Pool
  <2>1. left[o] \in 0 .. Pool
    BY <1>0, AtToken
  <2> QED
    BY <1>p, <2>1, PoolNat
<1>2. Kept(o) \in Stops
  <2> DEFINE slot == Slot
             dest == Dest
             text == Tok(t + 1).text
             num  == Tok(t + 1).num
  <2>1. Kept(o) \in {stop, [stop EXCEPT !.slots[slot].id = text],
                     [stop EXCEPT !.slots[slot].dests[dest].dir = text],
                     [stop EXCEPT !.slots[slot].dests[dest].min = num]}
    BY DEF Kept
  <2>k. Kept(o) # stop => \E key \in Used[pc] : jsoneq(t, key)
    BY <1>0, UsedKeys DEF Kept
  <2>t. Kept(o) # stop => text \in Texts /\ num \in Int
    BY <1>0, <2>k, UsedKeys, KnownTyped
  <2>2. stop \in Stops /\ 0 \in 0 .. Pool
    BY AtToken, PoolNat
  <2> HIDE DEF slot, dest, text, num
  <2>3. text \in Texts /\ num \in Int =>
          /\ [stop EXCEPT !.slots[slot].id = text] \in Stops
          /\ [stop EXCEPT !.slots[slot].dests[dest].dir = text] \in Stops
          /\ [stop EXCEPT !.slots[slot].dests[dest].min = num] \in Stops
    BY <2>2, StopWrites
  <2> QED
    BY <2>1, <2>2, <2>3, <2>t
<1>3. Ahead'
  BY <1>0 DEF Inv, Ahead
<1>4. \A k \in Around[o] : left[k] > 0
  BY <1>0 DEF Inv, Nested
<1> QED
  BY <1>0, <1>1, <1>2, <1>3, <1>4, LoopInv

LEMMA EnterListInv ==
  ASSUME Inv, NEW o \in Objects \ {"pred"}, EnterList(o) PROVE Inv'
<1> DEFINE l == ListIn(o)
           n == Tok(t + 1).size
<1>0. pc = o /\ pc' = l /\ o \in Loops /\ left[o] > 0 /\ t' = t + 2
      /\ left' = [left EXCEPT ![l] = n] /\ UNCHANGED Scanned
  BY DEF EnterList, Loops, Known, Looking, Objects, Lists
<1>1. n \in 0 .. Pool /\ stop \in Stops /\ t \in Nat
  <2>1. pc = o /\ Known /\ jsoneq(t, ListKey(o))
    BY DEF EnterList
  <2>2. pc \in DOMAIN Used /\ \E key \in Used[pc] : jsoneq(t, key)
    BY <2>1, UsedKeys
  <2> QED
    BY <2>1, <2>2, KnownTyped, AtToken
<1>2. stop' \in Stops
  <2> DEFINE slot == Slot
  <2>1. stop' \in {stop, [stop EXCEPT !.size = n], [stop EXCEPT !.slots[slot].size = n]}
    BY DEF EnterList, Objects
  <2> HIDE DEF slot, n
  <2>2. "" \in Texts /\ 0 \in Int
    BY DEF Texts
  <2>3. /\ [stop EXCEPT !.size = n] \in Stops
        /\ [stop EXCEPT !.slots[slot].size = n] \in Stops
    BY <1>1, <2>2, StopWrites
  <2> QED
    BY <1>1, <2>1, <2>3
<1>3. Ahead'
  <2>1. CASE o = "data"
    BY <1>0, <1>1, <2>1 DEF Ahead, ListIn
  <2>2. CASE o = "route"
    BY <1>0, <1>1, <2>2 DEF Ahead, ListIn
  <2>3. CASE o = "dest"
    BY <1>0, <2>3 DEF Inv, Ahead, ListIn
  <2> QED
    BY <2>1, <2>2, <2>3 DEF Objects
<1>4. l \in Loops /\ \A k \in Around[l] : left[k] > 0
  BY <1>0, Nesting DEF Inv, Nested, Loops
<1> HIDE DEF l, n
<1> QED
  BY <1>0, <1>1, <1>2, <1>3, <1>4, LoopInv

LEMMA BreakListInv ==
  ASSUME Inv, NEW o \in Objects \ {"pred"}, BreakList(o) PROVE Inv'
<1>0. pc = o /\ pc' = o /\ o \in Loops /\ t' = t + 1 /\ left' = [left EXCEPT ![o] = 0]
      /\ UNCHANGED <<stop, Scanned>>
  BY DEF BreakList, Loops
<1>1. stop' \in Stops /\ 0 \in 0 .. Pool
  BY <1>0, AtToken, PoolNat
<1>2. Ahead'
  BY <1>0 DEF Inv, Ahead
<1>3. \A k \in Around[o] : left[k] > 0
  BY <1>0 DEF Inv, Nested
<1> QED
  BY <1>0, <1>1, <1>2, <1>3, LoopInv

LEMMA EnterObjectInv ==
  ASSUME Inv, NEW l \in Lists, EnterObject(l) PROVE Inv'
<1> DEFINE o == ElementOf(l)
           n == Tok(t).size
<1>0. pc = l /\ pc' = o /\ l \in Loops /\ left[l] > 0 /\ t' = t + 1
      /\ left' = [left EXCEPT ![o] = n] /\ UNCHANGED Scanned
  BY DEF EnterObject, Loops, Known, Looking, Objects, Lists
<1>1. n \in 0 .. Pool /\ stop \in Stops /\ t \in Nat
  BY KnownTyped, AtToken DEF EnterObject
<1>2. stop' \in Stops
  <2> DEFINE slot == Slot
             dest == Dest
  <2>1. stop' \in {stop, [stop EXCEPT !.slots[slot].dests[dest].min = -1]}
    BY DEF EnterObject
  <2> HIDE DEF slot, dest
  <2>2. -1 \in Int /\ "" \in Texts
    BY DEF Texts
  <2>3. [stop EXCEPT !.slots[slot].dests[dest].min = -1] \in Stops
    BY <1>1, <2>2, StopWrites
  <2> QED
    BY <1>1, <2>1, <2>3
<1>3. Ahead'
  <2>1. CASE l = "routes"
    BY <1>0, <1>1, <2>1 DEF Ahead, ElementOf
  <2>2. CASE l = "dests"
    BY <1>0, <2>2 DEF Inv, Ahead, ElementOf
  <2>3. CASE l = "preds"
    BY <1>0, <2>3 DEF Inv, Ahead, ElementOf
  <2> QED
    BY <2>1, <2>2, <2>3 DEF Lists
<1>4. o \in Loops /\ \A k \in Around[o] : left[k] > 0
  BY <1>0, Nesting DEF Inv, Nested, Loops
<1> HIDE DEF o, n
<1> QED
  BY <1>0, <1>1, <1>2, <1>3, <1>4, LoopInv

LEMMA LeaveObjectInv ==
  ASSUME Inv, NEW o \in Objects \ {"data"}, LeaveObject(o) PROVE Inv'
<1> DEFINE l == ListOf(o)
           n == left[l] - 1
<1>0. pc = o /\ pc' = l /\ o \in Loops /\ t' = t + 1
      /\ left' = [left EXCEPT ![l] = n] /\ UNCHANGED <<stop, Scanned>>
  BY DEF LeaveObject, Loops
<1>1. l \in Loops /\ l \in Around[o] /\ \A k \in Around[l] : left[k] > 0
  BY <1>0, Nesting DEF Inv, Nested, Loops
<1>2. n \in 0 .. Pool
  <2>1. left[l] \in 0 .. Pool /\ left[l] > 0
    BY <1>0, <1>1, AtToken DEF Inv, Nested
  <2> HIDE DEF l
  <2> QED
    BY <2>1, PoolNat
<1>3. stop' \in Stops
  BY <1>0, AtToken
<1>4. Ahead'
  <2>1. CASE o = "route"
    BY <1>0, <2>1 DEF Inv, Ahead, ListOf
  <2>2. CASE o = "dest"
    BY <1>0, <2>2 DEF Inv, Ahead, ListOf
  <2>3. CASE o = "pred"
    BY <1>0, <2>3 DEF Inv, Ahead, ListOf
  <2> QED
    BY <2>1, <2>2, <2>3 DEF Objects
<1> HIDE DEF l, n
<1> QED
  BY <1>0, <1>1, <1>2, <1>3, <1>4, LoopInv

LEMMA LeaveListInv ==
  ASSUME Inv, NEW l \in Lists, LeaveList(l) PROVE Inv'
<1> DEFINE o == Owner(l)
           n == left[o] - 1
<1>0. pc = l /\ pc' = o /\ l \in Loops /\ t' = t - Correction(l) + 1
      /\ left' = [left EXCEPT ![o] = n] /\ UNCHANGED <<stop, Scanned>>
  BY DEF LeaveList, Loops
<1>1. o \in Loops /\ o \in Around[l] /\ \A k \in Around[o] : left[k] > 0
  BY <1>0, Nesting DEF Inv, Nested, Loops
<1>2. n \in 0 .. Pool
  <2>1. left[o] \in 0 .. Pool /\ left[o] > 0
    BY <1>0, <1>1, AtToken DEF Inv, Nested
  <2> HIDE DEF o
  <2> QED
    BY <2>1, PoolNat
<1>3. stop' \in Stops
  BY <1>0, AtToken
<1>4. Ahead'
  <2>1. CASE l = "routes"
    BY <1>0, <2>1 DEF Inv, Ahead, Owner, Correction
  <2>2. CASE l = "dests"
    BY <1>0, <2>2 DEF Inv, Ahead, Owner, Correction
  <2>3. CASE l = "preds"
    BY <1>0, <2>3 DEF Inv, Ahead, Owner, Correction
  <2> QED
    BY <2>1, <2>2, <2>3 DEF Lists
<1> HIDE DEF o, n
<1> QED
  BY <1>0, <1>1, <1>2, <1>3, <1>4, LoopInv

LEMMA StrayInv ==
  ASSUME Inv, Stray PROVE Inv'
<1>1. pc \in {"root"} \cup Loops /\ pc' = "astray" /\ UNCHANGED <<t, left, stop, Scanned>>
  BY DEF Stray, Looking, Loops
<1> QED
  BY <1>1, AtToken, RootInv

LEMMA RestartInv ==
  ASSUME Inv, Restart PROVE Inv'
<1>1. pc' = "idle" /\ js' = <<>> /\ tokens' = <<>> /\ toksuper' = 0 /\ ret' = 0
      /\ cut' = FALSE /\ t' = 0 /\ left' = NoRounds /\ result' = -1
      /\ stop' = StopAtBoot /\ old' = StopAtBoot
  BY DEF Restart, Renewed
<1>2. Tokenized'
  BY <1>1, PoolNat DEF Tokenized, PART
<1>3. Nested'
  <2>1. NoRounds \in [Loops -> 0 .. Pool]
    BY PoolNat DEF NoRounds, Loops
  <2>2. pc' \notin Loops
    BY <1>1 DEF Loops, Objects, Lists
  <2> QED
    BY <1>1, <2>1, <2>2 DEF Nested
<1>4. Closed' /\ Ahead' /\ Untouched'
  BY <1>1 DEF Closed, Ahead, Untouched, FailureKeepsStop, Returned
<1>5. Kinds'
  <2>1. stop' \in Stops /\ old' \in Stops
    BY <1>1, BootInStops
  <2>2. cut' \in BOOLEAN
    BY <1>1
  <2>3. result' \in -1 .. 5
    BY <1>1
  <2> QED
    BY <2>1, <2>2, <2>3 DEF Kinds
<1> QED
  BY <1>2, <1>3, <1>4, <1>5 DEF Inv

LEMMA FinishInv ==
  ASSUME Inv, Finish PROVE Inv'
<1>1. Return(0) /\ 0 \in 0 .. 5
  BY DEF Finish
<1> QED
  BY <1>1, ReturnInv

-----------------------------------------------------------------------------
(* The theorems.                                                           *)

LEMMA StepInv == Inv /\ [Next]_vars => Inv'
<1> SUFFICES ASSUME Inv, [Next]_vars PROVE Inv'
  OBVIOUS
<1>1. CASE Call \/ Cut \/ Scan
  BY <1>1, CallInv, CutInv, ScanInv
<1>2. CASE Refuse \/ Start \/ RootKey \/ LeaveData \/ Finish \/ Stray \/ Restart
  BY <1>2, RefuseInv, StartInv, RootKeyInv, LeaveDataInv, FinishInv, StrayInv, RestartInv
<1>3. CASE \E o \in Objects : PlainKey(o)
  BY <1>3, PlainKeyInv
<1>4. CASE \E o \in Objects \ {"pred"} : EnterList(o) \/ BreakList(o)
  BY <1>4, EnterListInv, BreakListInv
<1>5. CASE \E o \in Objects \ {"data"} : LeaveObject(o)
  BY <1>5, LeaveObjectInv
<1>6. CASE \E l \in Lists : EnterObject(l) \/ LeaveList(l)
  BY <1>6, EnterObjectInv, LeaveListInv
<1>7. CASE UNCHANGED vars
  BY <1>7 DEF vars, jsmnVars, Inv, Tokenized, Closed, Nested, Ahead, Kinds, Untouched,
              FailureKeepsStop, Returned, OpenTokens
<1> QED
  BY <1>1, <1>2, <1>3, <1>4, <1>5, <1>6, <1>7 DEF Next, Parse

(* The inductive invariant: what the tokenizer has made of any text, where  *)
(* in its nested loops the walk is, and what it has written.                *)
THEOREM Invariant == Spec => []Inv
BY InitInv, StepInv, PTL DEF Spec

(* Every counter stays in its range for any text of lexemes: no loop counts *)
(* below zero and t never runs into the negative by its corrections.        *)
THEOREM TypeCorrect == Spec => []TypeOK
<1>1. Inv => TypeOK
  <2> SUFFICES ASSUME Inv PROVE TypeOK
    OBVIOUS
  <2>1. JsmnTypeOK
    <3>1. \A i \in 1 .. Len(tokens) : tokens[i] \in TokenRecords
      BY ElementOfSeq DEF Inv, Tokenized
    <3>2. Len(tokens) \in Nat /\ DOMAIN tokens = 1 .. Len(tokens)
      BY OpenIn DEF Inv
    <3>3. ASSUME NEW i \in 1 .. Len(tokens)
          PROVE  /\ tokens[i].type \in Containers \cup {"string", "primitive"}
                 /\ tokens[i].size \in 0 .. Len(tokens) - i
                 /\ tokens[i].open \in BOOLEAN
      <4>1. tokens[i].size \in Nat /\ tokens[i].size <= Len(tokens) - i
        BY <3>1 DEF TokenRecords, Inv, Tokenized
      <4>2. tokens[i].type \in TokenTypes /\ tokens[i].open \in BOOLEAN
        BY <3>1 DEF TokenRecords
      <4> QED
        BY <3>2, <4>1, <4>2 DEF TokenTypes
    <3> QED
      BY <3>2, <3>3 DEF JsmnTypeOK, Inv, Tokenized
  <2>2. pc \in {"idle", "scan", "parsed", "root", "astray"} \cup Objects \cup Lists /\ t \in Nat
    BY DEF Inv, Nested, Ahead, Loops
  <2>3. \A l \in Objects \cup Lists : left[l] \in 0 .. Pool
    BY DEF Inv, Nested, Loops
  <2> QED
    BY <2>1, <2>2, <2>3 DEF TypeOK, Inv, Kinds
<1> QED
  BY <1>1, Invariant, PTL

(* parse_swiftly_json() walks the tokens of a whole text only, whatever was *)
(* received: a text cut short or unbalanced, or one the pool cannot hold,   *)
(* is refused before its first token is read.                               *)
THEOREM WalkIsOfWhole == Spec => []WalksWhole
<1>1. Inv => WalksWhole
  BY DEF Inv, WalksWhole, Closed, Untouched, Tokenized
<1> QED
  BY <1>1, Invariant, PTL

(* A call that fails leaves the Stop as the call before it did.             *)
THEOREM FailureKeeps == Spec => []FailureKeepsStop
<1>1. Inv => FailureKeepsStop
  BY DEF Inv, Untouched
<1> QED
  BY <1>1, Invariant, PTL
=============================================================================
