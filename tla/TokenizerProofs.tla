--------------------------- MODULE TokenizerProofs ---------------------------
(***************************************************************************)
(* Proofs that the tokenizer does what JsonText says of its text, and so   *)
(* which calls of parse_swiftly_json() succeed: for texts of any length    *)
(* and depth, and every place where they may be cut.                       *)
(***************************************************************************)
EXTENDS ParseSwiftlyProofs, FiniteSetTheorems

\* The brackets of the first n lexemes match, and each level has one still open.
Sound(s, n) ==
  /\ Places(s, n, {"half", "bad"}) = {}
  /\ Matched(s, n)
  /\ \A i \in 0 .. n : Depth(s, i) >= 0
  /\ \A d \in 1 .. Depth(s, n) : \E o \in 1 .. n : StillOpen(s, o, n) /\ Depth(s, o) = d

\* Token x is that of position p.
Says(s, x, p, n) ==
  /\ x.type = s[p].type /\ x.text = s[p].text /\ x.num = s[p].num
  /\ x.open <=> StillOpen(s, p, n)

\* The tokens ts are those the first n lexemes make.
Describes(s, ts, n) ==
  /\ Len(ts) = Rank(s, n)
  /\ \A k \in 1 .. Len(ts) : \E p \in Made(s, n) : Rank(s, p) = k
  /\ \A p \in Made(s, n) : Says(s, ts[Rank(s, p)], p, n)

Opens(ts) == {i \in DOMAIN ts : ts[i].open}

\* Each counts what it should, and sup is the one that counts the next token.
Counting(s, ts, sup, n) ==
  InOrder(s) =>
    /\ \A p \in Made(s, n) : ts[Rank(s, p)].size = Cardinality(Counted(s, p, n))
    /\ \/ sup = 0 /\ Opens(ts) = {}
       \/ Opens(ts) # {} /\ sup = Highest(Opens(ts))
       \/ /\ Opens(ts) # {} /\ n > 0 /\ s[n].k \in {"colon", "value"}
          /\ sup \in DOMAIN ts /\ ts[sup].type \notin Containers
    /\ (n > 0 /\ s[n].k = "colon") => sup = Rank(s, n - 1)

Read(s, ts, sup, n) == Sound(s, n) /\ Describes(s, ts, n) /\ Counting(s, ts, sup, n)

Given == Inputs[input].text

\* What is left to read; a text that was cut has nothing more to say.
Rest(n) ==
  IF cut THEN n < Len(Given) /\ (js # <<>> => Lexeme.k = "half")
         ELSE js = SubSeq(Given, n + 1, Len(Given))

Complete ==
  ~cut /\ IsResponse(Given, Len(Given)) /\ Rank(Given, Len(Given)) <= Pool

\* How far the text has been read, and what has been made of it.
Reading ==
  /\ input \in DOMAIN Inputs
  /\ pc = "scan" => \E n \in 0 .. Len(Given) : Read(Given, tokens, toksuper, n) /\ Rest(n)
  /\ (pc = "parsed" /\ ret >= 0) =>
       \E n \in 0 .. Len(Given) :
         /\ Read(Given, tokens, toksuper, n) /\ Depth(Given, n) = 0
         /\ IF cut THEN n < Len(Given) ELSE n = Len(Given)
  /\ (pc = "parsed" /\ ret < 0) => ~Complete
  /\ pc \notin {"idle", "scan", "parsed"} => Complete
  /\ Returned => (result = 0 <=> Complete)

-----------------------------------------------------------------------------
(* Counting lexemes.                                                       *)

LEMMA PlacesNext ==
  ASSUME NEW s, NEW n \in Nat, NEW kinds
  PROVE  /\ IsFiniteSet(Places(s, n, kinds)) /\ Cardinality(Places(s, n, kinds)) \in Nat
         /\ n + 1 \notin Places(s, n, kinds)
         /\ s[n + 1].k \in kinds =>
              /\ Places(s, n + 1, kinds) = Places(s, n, kinds) \cup {n + 1}
              /\ Cardinality(Places(s, n + 1, kinds)) = Cardinality(Places(s, n, kinds)) + 1
         /\ s[n + 1].k \notin kinds => Places(s, n + 1, kinds) = Places(s, n, kinds)
<1>1. 1 .. n + 1 = (1 .. n) \cup {n + 1}
  OBVIOUS
<1>2. n + 1 \notin Places(s, n, kinds)
  BY DEF Places
<1>3. IsFiniteSet(Places(s, n, kinds)) /\ Cardinality(Places(s, n, kinds)) \in Nat
  <2>1. IsFiniteSet(1 .. n)
    BY FS_Interval
  <2>2. Places(s, n, kinds) \in SUBSET (1 .. n)
    BY DEF Places
  <2>3. IsFiniteSet(Places(s, n, kinds))
    BY <2>1, <2>2, FS_Subset
  <2> QED
    BY <2>3, FS_CardinalityType
<1>4. Cardinality(Places(s, n, kinds) \cup {n + 1}) = Cardinality(Places(s, n, kinds)) + 1
  BY <1>2, <1>3, FS_AddElement
<1>5. s[n + 1].k \in kinds => Places(s, n + 1, kinds) = Places(s, n, kinds) \cup {n + 1}
  BY <1>1 DEF Places
<1>6. s[n + 1].k \notin kinds => Places(s, n + 1, kinds) = Places(s, n, kinds)
  BY <1>1 DEF Places
<1> QED
  BY <1>2, <1>3, <1>4, <1>5, <1>6

LEMMA PlacesNone ==
  ASSUME NEW s, NEW kinds
  PROVE  Places(s, 0, kinds) = {} /\ Cardinality(Places(s, 0, kinds)) = 0
<1>1. Places(s, 0, kinds) = {}
  BY DEF Places
<1> QED
  BY <1>1, FS_EmptySet

LEMMA RankNext ==
  ASSUME NEW s, NEW n \in Nat
  PROVE  /\ Rank(s, n) \in Nat /\ n + 1 \notin Made(s, n)
         /\ s[n + 1].k \in {"open", "value"} =>
              Rank(s, n + 1) = Rank(s, n) + 1 /\ Made(s, n + 1) = Made(s, n) \cup {n + 1}
         /\ s[n + 1].k \notin {"open", "value"} =>
              Rank(s, n + 1) = Rank(s, n) /\ Made(s, n + 1) = Made(s, n)
<1> DEFINE kinds == {"open", "value"}
<1>1. \A i : Made(s, i) = Places(s, i, kinds) /\ Rank(s, i) = Cardinality(Places(s, i, kinds))
  BY DEF Rank, Made
<1> HIDE DEF kinds
<1>2. /\ Cardinality(Places(s, n, kinds)) \in Nat /\ n + 1 \notin Places(s, n, kinds)
      /\ s[n + 1].k \in kinds =>
           /\ Places(s, n + 1, kinds) = Places(s, n, kinds) \cup {n + 1}
           /\ Cardinality(Places(s, n + 1, kinds)) = Cardinality(Places(s, n, kinds)) + 1
      /\ s[n + 1].k \notin kinds => Places(s, n + 1, kinds) = Places(s, n, kinds)
  BY PlacesNext
<1> QED
  BY <1>1, <1>2 DEF kinds

LEMMA RankGrows ==
  ASSUME NEW s, NEW m \in Nat, NEW n \in Nat, m <= n
  PROVE  Rank(s, m) <= Rank(s, n)
<1>1. Made(s, m) \in SUBSET Made(s, n)
  BY DEF Made, Places
<1>2. IsFiniteSet(Made(s, n))
  BY PlacesNext DEF Made
<1> QED
  BY <1>1, <1>2, FS_Subset DEF Rank

\* The tokens come in the order of the lexemes that make them.
LEMMA RankOrder ==
  ASSUME NEW s, NEW n \in Nat, NEW p \in Made(s, n)
  PROVE  /\ p \in 1 .. n /\ Rank(s, p) \in 1 .. Rank(s, n)
         /\ \A q \in Made(s, n) : /\ p < q => Rank(s, p) < Rank(s, q)
                                  /\ Rank(s, p) = Rank(s, q) => p = q
<1>1. ASSUME NEW q \in Made(s, n)
      PROVE  q \in 1 .. n /\ q - 1 \in Nat /\ Rank(s, q) = Rank(s, q - 1) + 1
             /\ Rank(s, q - 1) \in Nat
  <2>1. q \in 1 .. n /\ q - 1 \in Nat /\ q - 1 + 1 = q /\ s[q].k \in {"open", "value"}
    BY DEF Made, Places
  <2> QED
    BY <2>1, RankNext
<1>2. ASSUME NEW q \in Made(s, n), NEW r \in Made(s, n), q < r
      PROVE  Rank(s, q) < Rank(s, r)
  <2>1. q \in Nat /\ q <= r - 1 /\ r - 1 \in Nat
    BY <1>1, <1>2
  <2>2. Rank(s, q) <= Rank(s, r - 1)
    BY <2>1, RankGrows
  <2> QED
    BY <1>1, <2>2
<1>3. Rank(s, p) \in 1 .. Rank(s, n)
  <2>1. p \in Nat /\ p <= n
    BY <1>1
  <2>2. Rank(s, p) <= Rank(s, n)
    BY <2>1, RankGrows
  <2> QED
    BY <1>1, <2>2, RankNext
<1>4. ASSUME NEW q \in Made(s, n), Rank(s, p) = Rank(s, q) PROVE p = q
  <2>1. ~(p < q) /\ ~(q < p)
    BY <1>1, <1>2, <1>4
  <2> QED
    BY <1>1, <2>1
<1> QED
  BY <1>1, <1>2, <1>3, <1>4

LEMMA DepthNext ==
  ASSUME NEW s, NEW n \in Nat
  PROVE  /\ Depth(s, n) \in Int /\ Depth(s, 0) = 0
         /\ s[n + 1].k = "open"  => Depth(s, n + 1) = Depth(s, n) + 1
         /\ s[n + 1].k = "close" => Depth(s, n + 1) = Depth(s, n) - 1
         /\ s[n + 1].k \notin {"open", "close"} => Depth(s, n + 1) = Depth(s, n)
<1> DEFINE num(i, k) == Cardinality(Places(s, i, {k}))
<1>1. ASSUME NEW k
      PROVE  /\ num(n, k) \in Nat /\ num(0, k) = 0
             /\ s[n + 1].k = k => num(n + 1, k) = num(n, k) + 1
             /\ s[n + 1].k # k => num(n + 1, k) = num(n, k)
  BY PlacesNext, PlacesNone
<1>2. \A i : Depth(s, i) = num(i, "open") - num(i, "close")
  BY DEF Depth
<1> HIDE DEF num
<1> QED
  BY <1>1, <1>2

-----------------------------------------------------------------------------
(* Brackets.                                                               *)

LEMMA StillOpenIs ==
  ASSUME NEW s, NEW n \in Nat, NEW o, StillOpen(s, o, n)
  PROVE  /\ o \in 1 .. n /\ s[o].k = "open" /\ o \in Made(s, n)
         /\ Depth(s, o) \in Int /\ Depth(s, o) <= Depth(s, n)
         /\ o - 1 \in Nat /\ Depth(s, o) = Depth(s, o - 1) + 1
<1>1. o \in 1 .. n /\ s[o].k = "open" /\ \A i \in o .. n : Depth(s, i) >= Depth(s, o)
  BY DEF StillOpen, Places
<1>2. o - 1 \in Nat /\ o - 1 + 1 = o /\ n \in o .. n
  BY <1>1
<1>3. Depth(s, o) = Depth(s, o - 1) + 1 /\ Depth(s, o - 1) \in Int /\ Depth(s, n) \in Int
  BY <1>1, <1>2, DepthNext
<1> QED
  BY <1>1, <1>2, <1>3 DEF Made, Places

LEMMA StillOpenNext ==
  ASSUME NEW s, NEW n \in Nat
  PROVE  /\ \A o \in 1 .. n :
              StillOpen(s, o, n + 1) <=> StillOpen(s, o, n) /\ Depth(s, n + 1) >= Depth(s, o)
         /\ StillOpen(s, n + 1, n + 1) <=> s[n + 1].k = "open"
<1>1. ASSUME NEW o \in 1 .. n
      PROVE  StillOpen(s, o, n + 1) <=> StillOpen(s, o, n) /\ Depth(s, n + 1) >= Depth(s, o)
  <2>1. o .. n + 1 = (o .. n) \cup {n + 1}
    OBVIOUS
  <2>2. o \in 1 .. n + 1
    OBVIOUS
  <2> QED
    BY <2>1, <2>2 DEF StillOpen, Places
<1>2. StillOpen(s, n + 1, n + 1) <=> s[n + 1].k = "open"
  <2>1. (n + 1) .. (n + 1) = {n + 1} /\ n + 1 \in 1 .. n + 1
    OBVIOUS
  <2>2. Depth(s, n + 1) \in Int
    BY DepthNext
  <2> QED
    BY <2>1, <2>2 DEF StillOpen, Places
<1> QED
  BY <1>1, <1>2

\* Of two brackets that are open the later one is the deeper one.
LEMMA OpenOrder ==
  ASSUME NEW s, NEW n \in Nat, NEW o, NEW p, StillOpen(s, o, n), StillOpen(s, p, n)
  PROVE  /\ o < p => Depth(s, o) < Depth(s, p)
         /\ Depth(s, o) = Depth(s, p) => o = p
<1>1. ASSUME NEW a, NEW b, StillOpen(s, a, n), StillOpen(s, b, n), a < b
      PROVE  Depth(s, a) < Depth(s, b)
  <2>1. a \in 1 .. n /\ b \in 1 .. n /\ Depth(s, a) \in Int /\ b - 1 \in Nat
        /\ Depth(s, b) = Depth(s, b - 1) + 1
    BY <1>1, StillOpenIs
  <2>2. b - 1 \in a .. n
    BY <1>1, <2>1
  <2>3. Depth(s, b - 1) >= Depth(s, a) /\ Depth(s, b - 1) \in Int
    BY <1>1, <2>1, <2>2, DepthNext DEF StillOpen
  <2> QED
    BY <2>1, <2>3
<1>2. o \in Int /\ p \in Int /\ Depth(s, o) \in Int /\ Depth(s, p) \in Int
  <2>1. o \in 1 .. n /\ p \in 1 .. n /\ Depth(s, o) \in Int /\ Depth(s, p) \in Int
    BY StillOpenIs
  <2> QED
    BY <2>1
<1> QED
  BY <1>1, <1>2

\* At most one bracket is the innermost.
LEMMA WithinOne ==
  ASSUME NEW s, NEW n \in Nat, NEW o, NEW p, Within(s, o, n)
  PROVE  /\ StillOpen(s, p, n) => p <= o
         /\ Within(s, p, n) => p = o
<1>1. StillOpen(s, o, n) /\ Depth(s, o) = Depth(s, n)
  BY DEF Within
<1>2. ASSUME StillOpen(s, p, n) PROVE p <= o
  <2>1. p \in Int /\ o \in Int /\ Depth(s, p) \in Int /\ Depth(s, o) \in Int /\ Depth(s, p) <= Depth(s, n)
    BY <1>1, <1>2, StillOpenIs
  <2>2. o < p => Depth(s, o) < Depth(s, p)
    BY <1>1, <1>2, OpenOrder
  <2> QED
    BY <1>1, <2>1, <2>2
<1>3. ASSUME Within(s, p, n) PROVE p = o
  <2>1. StillOpen(s, p, n) /\ Depth(s, p) = Depth(s, o)
    BY <1>1, <1>3 DEF Within
  <2> QED
    BY <1>1, <2>1, OpenOrder
<1> QED
  BY <1>2, <1>3

-----------------------------------------------------------------------------
(* Reading one more lexeme keeps the brackets in order.                    *)

Readable(s, n) == s[n + 1].k \in {"open", "value", "colon", "comma", "close"}

\* A closing bracket is one that the innermost open bracket asks for.
Fits(s, n) ==
  s[n + 1].k = "close" => \E o \in 1 .. n : s[o].type = s[n + 1].type /\ Within(s, o, n)

LEMMA SoundNext ==
  ASSUME NEW s, NEW n \in Nat, Sound(s, n), Readable(s, n), Fits(s, n)
  PROVE  Sound(s, n + 1)
<1>0. Depth(s, n) \in Int /\ Depth(s, n + 1) \in Int
  <2>1. n + 1 \in Nat
    OBVIOUS
  <2> QED
    BY <2>1, DepthNext
<1>1. Places(s, n + 1, {"half", "bad"}) = {}
  <2>1. s[n + 1].k \notin {"half", "bad"}
    BY DEF Readable
  <2> DEFINE kinds == {"half", "bad"}
  <2>2. s[n + 1].k \notin kinds /\ Places(s, n, kinds) = {}
    BY <2>1 DEF Sound
  <2> HIDE DEF kinds
  <2>3. Places(s, n + 1, kinds) = {}
    BY <2>2, PlacesNext
  <2> QED
    BY <2>3 DEF kinds
<1>2. Matched(s, n + 1)
  <2>1. Places(s, n + 1, {"close"}) =
          Places(s, n, {"close"}) \cup (IF s[n + 1].k = "close" THEN {n + 1} ELSE {})
    BY PlacesNext
  <2>2. \A c \in Places(s, n, {"close"}) :
          \E o \in 1 .. c - 1 : s[o].type = s[c].type /\ Within(s, o, c - 1)
    BY DEF Sound, Matched
  <2>3. s[n + 1].k = "close" =>
          \E o \in 1 .. (n + 1) - 1 : s[o].type = s[n + 1].type /\ Within(s, o, (n + 1) - 1)
    <3>1. (n + 1) - 1 = n
      OBVIOUS
    <3> QED
      BY <3>1 DEF Fits
  <2> QED
    BY <2>1, <2>2, <2>3 DEF Matched
<1>3. Depth(s, n + 1) >= 0
      /\ \A d \in 1 .. Depth(s, n + 1) : \E o \in 1 .. n + 1 : StillOpen(s, o, n + 1) /\ Depth(s, o) = d
  <2>0. \A i \in 0 .. n : Depth(s, i) >= 0
    BY DEF Sound
  <2>1. Depth(s, n) >= 0
    BY <2>0
  <2>2. ASSUME NEW d \in 1 .. Depth(s, n), d <= Depth(s, n + 1)
        PROVE  \E o \in 1 .. n + 1 : StillOpen(s, o, n + 1) /\ Depth(s, o) = d
    <3>1. PICK o \in 1 .. n : StillOpen(s, o, n) /\ Depth(s, o) = d
      BY DEF Sound
    <3>2. StillOpen(s, o, n + 1)
      BY <1>0, <2>2, <3>1, StillOpenNext
    <3> QED
      BY <3>1, <3>2
  <2>3. CASE s[n + 1].k = "open"
    <3>1. Depth(s, n + 1) = Depth(s, n) + 1
      BY <2>3, DepthNext
    <3>2. StillOpen(s, n + 1, n + 1) /\ n + 1 \in 1 .. n + 1
      BY <2>3, StillOpenNext
    <3>3. ASSUME NEW d \in 1 .. Depth(s, n + 1)
          PROVE  \E o \in 1 .. n + 1 : StillOpen(s, o, n + 1) /\ Depth(s, o) = d
      <4>1. d = Depth(s, n + 1) \/ (d \in 1 .. Depth(s, n) /\ d <= Depth(s, n + 1))
        BY <1>0, <3>1
      <4> QED
        BY <2>2, <3>2, <4>1
    <3> QED
      BY <1>0, <2>1, <3>1, <3>3
  <2>4. CASE s[n + 1].k = "close"
    <3>1. Depth(s, n + 1) = Depth(s, n) - 1
      BY <2>4, DepthNext
    <3>2. PICK o \in 1 .. n : Within(s, o, n)
      BY <2>4 DEF Fits
    <3>3. Depth(s, n) = Depth(s, o - 1) + 1 /\ o - 1 \in 0 .. n /\ Depth(s, o - 1) \in Int
      BY <3>2, StillOpenIs, DepthNext DEF Within
    <3>4. Depth(s, n + 1) >= 0
      BY <2>0, <3>1, <3>3
    <3>5. \A d \in 1 .. Depth(s, n + 1) : d \in 1 .. Depth(s, n) /\ d <= Depth(s, n + 1)
      BY <1>0, <3>1
    <3> QED
      BY <2>2, <3>4, <3>5
  <2>5. CASE s[n + 1].k \notin {"open", "close"}
    <3>1. Depth(s, n + 1) = Depth(s, n)
      BY <2>5, DepthNext
    <3>2. \A d \in 1 .. Depth(s, n + 1) : d \in 1 .. Depth(s, n) /\ d <= Depth(s, n + 1)
      BY <1>0, <3>1
    <3> QED
      BY <2>1, <2>2, <3>1, <3>2
  <2> QED
    BY <2>3, <2>4, <2>5
<1>4. \A i \in 0 .. n + 1 : Depth(s, i) >= 0
  <2>1. 0 .. n + 1 = (0 .. n) \cup {n + 1}
    OBVIOUS
  <2> QED
    BY <1>3, <2>1 DEF Sound
<1> QED
  BY <1>1, <1>2, <1>3, <1>4 DEF Sound

-----------------------------------------------------------------------------
(* The open tokens are those of the open brackets.                         *)

LEMMA HighestIs ==
  ASSUME NEW S \in SUBSET Int, NEW m \in S, \A j \in S : j <= m
  PROVE  Highest(S) = m
<1> DEFINE top == Highest(S)
<1>1. top = CHOOSE i \in S : \A j \in S : j <= i
  BY DEF Highest
<1> HIDE DEF top
<1>2. top \in S /\ \A j \in S : j <= top
  BY <1>1
<1>3. top <= m /\ m <= top /\ top \in Int /\ m \in Int
  BY <1>2
<1>4. top = m
  BY <1>3
<1> QED
  BY <1>4 DEF top

LEMMA TokensIn ==
  ASSUME NEW ts \in Seq(TokenRecords)
  PROVE  /\ Len(ts) \in Nat /\ DOMAIN ts = 1 .. Len(ts)
         /\ \A i \in 1 .. Len(ts) : ts[i] \in TokenRecords
         /\ Opens(ts) \in SUBSET (1 .. Len(ts)) /\ Opens(ts) \in SUBSET Int
<1>1. Len(ts) \in Nat /\ DOMAIN ts = 1 .. Len(ts) /\ \A i \in 1 .. Len(ts) : ts[i] \in TokenRecords
  BY LenProperties, ElementOfSeq
<1> QED
  BY <1>1 DEF Opens

LEMMA OpensAre ==
  ASSUME NEW s, NEW n \in Nat, NEW ts \in Seq(TokenRecords), Describes(s, ts, n)
  PROVE  /\ \A p : StillOpen(s, p, n) => p \in Made(s, n) /\ Rank(s, p) \in Opens(ts)
         /\ \A j \in Opens(ts) : \E p \in Made(s, n) : Rank(s, p) = j /\ StillOpen(s, p, n)
<1>0. Len(ts) = Rank(s, n) /\ DOMAIN ts = 1 .. Len(ts)
  BY TokensIn DEF Describes
<1>1. ASSUME NEW p, StillOpen(s, p, n) PROVE p \in Made(s, n) /\ Rank(s, p) \in Opens(ts)
  <2>1. p \in Made(s, n)
    BY <1>1, StillOpenIs
  <2>2. Rank(s, p) \in DOMAIN ts
    BY <1>0, <2>1, RankOrder
  <2>3. ts[Rank(s, p)].open
    BY <1>1, <2>1 DEF Describes, Says
  <2> QED
    BY <2>1, <2>2, <2>3 DEF Opens
<1>2. ASSUME NEW j \in Opens(ts) PROVE \E p \in Made(s, n) : Rank(s, p) = j /\ StillOpen(s, p, n)
  <2>1. j \in 1 .. Len(ts) /\ ts[j].open
    BY <1>0 DEF Opens
  <2>2. PICK p \in Made(s, n) : Rank(s, p) = j
    BY <2>1 DEF Describes
  <2>3. StillOpen(s, p, n)
    BY <2>1, <2>2 DEF Describes, Says
  <2> QED
    BY <2>2, <2>3
<1> QED
  BY <1>1, <1>2

\* The highest open token is that of the innermost open bracket.
LEMMA InnermostIs ==
  ASSUME NEW s, NEW n \in Nat, NEW ts \in Seq(TokenRecords), Sound(s, n), Describes(s, ts, n)
  PROVE  /\ Opens(ts) = {} <=> Depth(s, n) = 0
         /\ Opens(ts) # {} => \E o : Within(s, o, n)
         /\ \A o : Within(s, o, n) =>
              /\ o \in 1 .. n /\ o \in Made(s, n) /\ s[o].k = "open"
              /\ Rank(s, o) \in Opens(ts) /\ Highest(Opens(ts)) = Rank(s, o)
<1>0. Depth(s, n) \in Int /\ Depth(s, n) >= 0
  BY DepthNext DEF Sound
<1>1. ASSUME NEW o, Within(s, o, n)
      PROVE  /\ o \in 1 .. n /\ o \in Made(s, n) /\ s[o].k = "open"
             /\ Rank(s, o) \in Opens(ts) /\ Highest(Opens(ts)) = Rank(s, o)
  <2>1. StillOpen(s, o, n)
    BY <1>1 DEF Within
  <2>2. o \in 1 .. n /\ o \in Made(s, n) /\ s[o].k = "open" /\ Rank(s, o) \in Opens(ts)
    BY <2>1, StillOpenIs, OpensAre
  <2>3. ASSUME NEW j \in Opens(ts) PROVE j <= Rank(s, o)
    <3>1. PICK p \in Made(s, n) : Rank(s, p) = j /\ StillOpen(s, p, n)
      BY OpensAre
    <3>2. p <= o /\ p \in 1 .. n
      BY <1>1, <3>1, WithinOne, RankOrder
    <3>3. Rank(s, p) <= Rank(s, o)
      BY <2>2, <3>2, RankGrows
    <3> QED
      BY <3>1, <3>3
  <2>4. Opens(ts) \in SUBSET Int
    BY TokensIn
  <2>5. Highest(Opens(ts)) = Rank(s, o)
    BY <2>2, <2>3, <2>4, HighestIs
  <2> QED
    BY <2>2, <2>5
<1>2. ASSUME Depth(s, n) > 0 PROVE \E o : Within(s, o, n)
  <2>1. Depth(s, n) \in 1 .. Depth(s, n)
    BY <1>0, <1>2
  <2>2. PICK o \in 1 .. n : StillOpen(s, o, n) /\ Depth(s, o) = Depth(s, n)
    BY <2>1 DEF Sound
  <2> QED
    BY <2>2 DEF Within
<1>3. ASSUME NEW j \in Opens(ts) PROVE Depth(s, n) > 0
  <2>1. PICK p \in Made(s, n) : StillOpen(s, p, n)
    BY OpensAre
  <2>2. Depth(s, p) <= Depth(s, n) /\ Depth(s, p) = Depth(s, p - 1) + 1 /\ p - 1 \in 0 .. n
        /\ Depth(s, p) \in Int
    BY <2>1, StillOpenIs
  <2>3. Depth(s, p - 1) >= 0 /\ Depth(s, p - 1) \in Int
    BY <2>2, DepthNext DEF Sound
  <2> QED
    BY <1>0, <2>2, <2>3
<1>4. Opens(ts) # {} => Depth(s, n) > 0
  BY <1>3
<1>5. Depth(s, n) > 0 => Opens(ts) # {}
  BY <1>1, <1>2
<1>6. Opens(ts) = {} <=> Depth(s, n) = 0
  BY <1>0, <1>4, <1>5
<1> QED
  BY <1>1, <1>2, <1>4, <1>6

-----------------------------------------------------------------------------
(* The tokens after one more lexeme.                                       *)

Allocated(ts, sup, x) ==
  Append(IF sup = 0 THEN ts ELSE [ts EXCEPT ![sup].size = @ + 1], Token(x))

LEMMA CountedUp ==
  ASSUME NEW x \in TokenRecords
  PROVE  LET y == [x EXCEPT !.size = @ + 1]
         IN  /\ y \in TokenRecords /\ y.size = x.size + 1 /\ y.type = x.type
             /\ y.text = x.text /\ y.num = x.num /\ y.open = x.open
<1> DEFINE y == [x EXCEPT !.size = @ + 1]
<1>1. y \in TokenRecords /\ y.size = x.size + 1 /\ y.type = x.type
  BY DEF TokenRecords
<1>2. y.text = x.text /\ y.num = x.num
  BY DEF TokenRecords
<1>3. y.open = x.open
  BY DEF TokenRecords
<1> QED
  BY <1>1, <1>2, <1>3

LEMMA AllocatedIs ==
  ASSUME NEW ts \in Seq(TokenRecords), NEW sup \in 0 .. Len(ts), NEW x, Token(x) \in TokenRecords
  PROVE  /\ Allocated(ts, sup, x) \in Seq(TokenRecords)
         /\ Len(Allocated(ts, sup, x)) = Len(ts) + 1
         /\ Allocated(ts, sup, x)[Len(ts) + 1] = Token(x)
         /\ \A i \in 1 .. Len(ts) :
              /\ Allocated(ts, sup, x)[i].type = ts[i].type
              /\ Allocated(ts, sup, x)[i].text = ts[i].text
              /\ Allocated(ts, sup, x)[i].num  = ts[i].num
              /\ Allocated(ts, sup, x)[i].open = ts[i].open
              /\ i = sup => Allocated(ts, sup, x)[i].size = ts[i].size + 1
              /\ i # sup => Allocated(ts, sup, x)[i].size = ts[i].size
<1> DEFINE n == Len(ts)
           base == IF sup = 0 THEN ts ELSE [ts EXCEPT ![sup].size = @ + 1]
<1>0. n \in Nat /\ \A i \in 1 .. n : ts[i] \in TokenRecords
  BY TokensIn
<1>1. /\ base \in Seq(TokenRecords) /\ Len(base) = n
      /\ \A i \in 1 .. n :
           /\ base[i].type = ts[i].type /\ base[i].text = ts[i].text
           /\ base[i].num = ts[i].num /\ base[i].open = ts[i].open
           /\ i = sup => base[i].size = ts[i].size + 1
           /\ i # sup => base[i].size = ts[i].size
  <2>1. CASE sup = 0
    BY <1>0, <2>1
  <2>2. CASE sup # 0
    <3> DEFINE counted == [ts[sup] EXCEPT !.size = @ + 1]
    <3>1. sup \in 1 .. n /\ ts[sup] \in TokenRecords
      BY <1>0, <2>2
    <3>2. /\ counted \in TokenRecords /\ counted.size = ts[sup].size + 1
          /\ counted.type = ts[sup].type /\ counted.text = ts[sup].text
          /\ counted.num = ts[sup].num /\ counted.open = ts[sup].open
      BY <3>1, CountedUp
    <3>3. base = [ts EXCEPT ![sup] = counted]
      BY <2>2
    <3> HIDE DEF counted, base
    <3>4. /\ base \in Seq(TokenRecords) /\ Len(base) = n
          /\ \A j \in 1 .. n : base[j] = IF j = sup THEN counted ELSE ts[j]
      BY <3>1, <3>2, <3>3, ExceptSeq
    <3> QED
      BY <3>2, <3>4
  <2> QED
    BY <2>1, <2>2
<1> DEFINE more == Allocated(ts, sup, x)
<1>2. more = Append(base, Token(x))
  BY DEF Allocated
<1> HIDE DEF base, more, n
<1>3. /\ more \in Seq(TokenRecords) /\ Len(more) = n + 1
      /\ \A i \in 1 .. n : more[i] = base[i]
      /\ more[n + 1] = Token(x)
  BY <1>0, <1>1, <1>2, AppendProperties
<1>4. ASSUME NEW i \in 1 .. n
      PROVE  /\ more[i].type = ts[i].type /\ more[i].text = ts[i].text
             /\ more[i].num = ts[i].num /\ more[i].open = ts[i].open
             /\ i = sup => more[i].size = ts[i].size + 1
             /\ i # sup => more[i].size = ts[i].size
  BY <1>1, <1>3
<1> QED
  BY <1>3, <1>4 DEF n, more

LEMMA LexemeIs ==
  ASSUME NEW s \in Seq(Lexemes), NEW i \in 1 .. Len(s)
  PROVE  /\ s[i].k \in {"open", "close", "value", "colon", "comma", "half", "bad"}
         /\ s[i].k \in {"open", "close"} <=> s[i].type \in Containers
         /\ Token(s[i]) \in TokenRecords
         /\ Token(s[i]).type = s[i].type /\ Token(s[i]).text = s[i].text
         /\ Token(s[i]).num = s[i].num /\ Token(s[i]).size = 0
         /\ Token(s[i]).open <=> s[i].type \in Containers
<1>1. s[i] \in Lexemes
  BY ElementOfSeq
<1> DEFINE x == s[i]
<1> HIDE DEF x
<1>2. x \in Lexemes
  BY <1>1 DEF x
<1>3. /\ x.k \in {"open", "close", "value", "colon", "comma", "half", "bad"}
      /\ x.k \in {"open", "close"} <=> x.type \in Containers
  BY <1>2 DEF Lexemes
<1>4. Token(x) \in TokenRecords
  BY <1>2 DEF Lexemes, Token, TokenRecords, TokenTypes
<1>5. /\ Token(x).type = x.type /\ Token(x).text = x.text
      /\ Token(x).num = x.num /\ Token(x).size = 0
  BY DEF Token
<1>6. Token(x).open <=> x.type \in Containers
  BY DEF Token
<1> QED
  BY <1>3, <1>4, <1>5, <1>6 DEF x

\* The open brackets of before are open after any lexeme that closes none.
LEMMA StaysOpen ==
  ASSUME NEW s, NEW n \in Nat, s[n + 1].k # "close", NEW p \in Made(s, n)
  PROVE  StillOpen(s, p, n + 1) <=> StillOpen(s, p, n)
<1>1. p \in 1 .. n
  BY DEF Made, Places
<1>2. Depth(s, n) \in Int /\ Depth(s, n + 1) \in Int /\ Depth(s, n + 1) >= Depth(s, n)
  BY DepthNext
<1>3. ASSUME StillOpen(s, p, n) PROVE Depth(s, n + 1) >= Depth(s, p)
  <2>1. Depth(s, p) \in Int /\ Depth(s, p) <= Depth(s, n)
    BY <1>3, StillOpenIs
  <2> QED
    BY <1>2, <2>1
<1> QED
  BY <1>1, <1>3, StillOpenNext

LEMMA MadeDescribed ==
  ASSUME NEW s \in Seq(Lexemes), NEW n \in 0 .. Len(s) - 1, NEW ts \in Seq(TokenRecords),
         NEW sup \in 0 .. Len(ts), Describes(s, ts, n), s[n + 1].k \in {"open", "value"}
  PROVE  Describes(s, Allocated(ts, sup, s[n + 1]), n + 1)
<1> DEFINE x == s[n + 1]
           more == Allocated(ts, sup, x)
<1>0. n \in Nat /\ n + 1 \in 1 .. Len(s) /\ Len(ts) \in Nat
  BY LenProperties
<1>1. /\ Rank(s, n + 1) = Rank(s, n) + 1 /\ Made(s, n + 1) = Made(s, n) \cup {n + 1}
      /\ n + 1 \notin Made(s, n) /\ Rank(s, n) = Len(ts)
  BY <1>0, RankNext DEF Describes
<1>2. /\ Token(x) \in TokenRecords
      /\ Token(x).type = x.type /\ Token(x).text = x.text /\ Token(x).num = x.num
      /\ Token(x).open <=> x.k = "open"
  BY <1>0, LexemeIs
<1>3. /\ Len(more) = Len(ts) + 1 /\ more[Len(ts) + 1] = Token(x)
      /\ \A i \in 1 .. Len(ts) :
           more[i].type = ts[i].type /\ more[i].text = ts[i].text
           /\ more[i].num = ts[i].num /\ more[i].open = ts[i].open
  BY <1>2, AllocatedIs
<1> HIDE DEF more
<1>4. ASSUME NEW k \in 1 .. Len(more) PROVE \E p \in Made(s, n + 1) : Rank(s, p) = k
  <2>1. CASE k = Len(ts) + 1
    BY <1>1, <2>1
  <2>2. CASE k # Len(ts) + 1
    <3>1. k \in 1 .. Len(ts)
      BY <1>0, <1>3, <2>2
    <3> QED
      BY <1>1, <3>1 DEF Describes
  <2> QED
    BY <2>1, <2>2
<1>5. ASSUME NEW p \in Made(s, n + 1) PROVE Says(s, more[Rank(s, p)], p, n + 1)
  <2>1. CASE p = n + 1
    <3>1. more[Rank(s, p)] = Token(x) /\ s[p] = x
      BY <1>1, <1>3, <2>1
    <3>2. StillOpen(s, p, n + 1) <=> x.k = "open"
      BY <1>0, <2>1, StillOpenNext
    <3> QED
      BY <1>2, <3>1, <3>2 DEF Says
  <2>2. CASE p \in Made(s, n)
    <3>1. Rank(s, p) \in 1 .. Len(ts)
      BY <1>0, <1>1, <2>2, RankOrder
    <3>2. Says(s, ts[Rank(s, p)], p, n)
      BY <2>2 DEF Describes
    <3>3. StillOpen(s, p, n + 1) <=> StillOpen(s, p, n)
      BY <1>0, <2>2, StaysOpen
    <3> QED
      BY <1>3, <3>1, <3>2, <3>3 DEF Says
  <2> QED
    BY <1>1, <2>1, <2>2
<1>6. Len(more) = Rank(s, n + 1)
  BY <1>1, <1>3
<1>7. Describes(s, more, n + 1)
  BY <1>4, <1>5, <1>6 DEF Describes
<1> QED
  BY <1>7 DEF more

\* The token that is to count the next one does.
LEMMA SuperCounts ==
  ASSUME NEW s \in Seq(Lexemes), NEW n \in 0 .. Len(s) - 1, NEW ts \in Seq(TokenRecords),
         NEW sup, Read(s, ts, sup, n), InOrder(s), s[n + 1].k \in {"open", "value"},
         NEW p \in Made(s, n)
  PROVE  Counts(s, p, n + 1) <=> sup = Rank(s, p)
<1>0. n \in Nat /\ n + 1 \in DOMAIN s /\ n \in Int /\ p \in 1 .. n /\ n + 1 > 1 /\ (n + 1) - 1 = n
      /\ (n + 1) - 2 = n - 1 /\ n > 0
  <2>1. DOMAIN s = 1 .. Len(s) /\ Len(s) \in Nat
    BY LenProperties
  <2>2. p \in 1 .. n
    BY DEF Made, Places
  <2> QED
    BY <2>1, <2>2
<1>1. s[n].k \in {"open", "comma", "colon"}
  BY <1>0 DEF InOrder
<1>2. Sound(s, n) /\ Describes(s, ts, n) /\ Counting(s, ts, sup, n)
  BY DEF Read
<1>3. CASE s[n].k = "colon"
  <2>1. Counts(s, p, n + 1) <=> p = n - 1
    BY <1>0, <1>3 DEF Counts
  <2>2. sup = Rank(s, n - 1)
    BY <1>0, <1>2, <1>3 DEF Counting
  <2>3. n \in DOMAIN s
    BY <1>0, LenProperties
  <2>4. n - 1 \in 1 .. n /\ s[n - 1].k = "value"
    <3>1. n > 1 /\ s[n - 1].k = "value"
      BY <1>3, <2>3 DEF InOrder
    <3> QED
      BY <1>0, <3>1
  <2>5. n - 1 \in Made(s, n)
    BY <2>4 DEF Made, Places
  <2> QED
    BY <1>0, <2>1, <2>2, <2>5, RankOrder
<1>4. CASE s[n].k # "colon"
  <2>1. Counts(s, p, n + 1) <=> Within(s, p, n)
    BY <1>0, <1>4 DEF Counts
  <2>2. (sup = 0 /\ Opens(ts) = {}) \/ (Opens(ts) # {} /\ sup = Highest(Opens(ts)))
    BY <1>1, <1>2, <1>4 DEF Counting
  <2>3. ASSUME Within(s, p, n) PROVE sup = Rank(s, p)
    BY <1>0, <1>2, <2>2, <2>3, InnermostIs
  <2>4. ASSUME sup = Rank(s, p) PROVE Within(s, p, n)
    <3>1. sup # 0
      BY <1>0, <2>4, RankOrder
    <3>2. PICK o : Within(s, o, n)
      BY <1>0, <1>2, <2>2, <3>1, InnermostIs
    <3>3. o \in Made(s, n) /\ Rank(s, o) = sup
      BY <1>0, <1>2, <2>2, <3>1, <3>2, InnermostIs
    <3>4. o = p
      BY <1>0, <2>4, <3>3, RankOrder
    <3> QED
      BY <3>2, <3>4
  <2> QED
    BY <2>1, <2>3, <2>4
<1> QED
  BY <1>3, <1>4

\* One more token is counted, or none.
LEMMA CountedNext ==
  ASSUME NEW s, NEW n \in Nat, NEW p
  PROVE  /\ Cardinality(Counted(s, p, n)) \in Nat
         /\ (s[n + 1].k \in {"open", "value"} /\ Counts(s, p, n + 1)) =>
              Cardinality(Counted(s, p, n + 1)) = Cardinality(Counted(s, p, n)) + 1
         /\ ~(s[n + 1].k \in {"open", "value"} /\ Counts(s, p, n + 1)) =>
              Counted(s, p, n + 1) = Counted(s, p, n)
<1>1. Counted(s, p, n) \in SUBSET Made(s, n) /\ IsFiniteSet(Made(s, n)) /\ n + 1 \notin Counted(s, p, n)
  BY PlacesNext, RankNext DEF Counted, Made
<1>2. IsFiniteSet(Counted(s, p, n)) /\ Cardinality(Counted(s, p, n)) \in Nat
  BY <1>1, FS_Subset, FS_CardinalityType
<1>3. ASSUME s[n + 1].k \in {"open", "value"}, Counts(s, p, n + 1)
      PROVE  Counted(s, p, n + 1) = Counted(s, p, n) \cup {n + 1}
  <2>1. Made(s, n + 1) = Made(s, n) \cup {n + 1}
    BY <1>3, RankNext
  <2> QED
    BY <1>3, <2>1 DEF Counted
<1>4. ASSUME ~(s[n + 1].k \in {"open", "value"} /\ Counts(s, p, n + 1))
      PROVE  Counted(s, p, n + 1) = Counted(s, p, n)
  BY <1>4, RankNext DEF Counted
<1>5. Cardinality(Counted(s, p, n) \cup {n + 1}) = Cardinality(Counted(s, p, n)) + 1
  BY <1>1, <1>2, FS_AddElement
<1> QED
  BY <1>2, <1>3, <1>4, <1>5

LEMMA MadeSizes ==
  ASSUME NEW s \in Seq(Lexemes), NEW n \in 0 .. Len(s) - 1, NEW ts \in Seq(TokenRecords),
         NEW sup \in 0 .. Len(ts), Read(s, ts, sup, n), InOrder(s),
         s[n + 1].k \in {"open", "value"}, NEW p \in Made(s, n + 1)
  PROVE  Allocated(ts, sup, s[n + 1])[Rank(s, p)].size = Cardinality(Counted(s, p, n + 1))
<1> DEFINE x == s[n + 1]
           more == Allocated(ts, sup, x)
<1>0. n \in Nat /\ n + 1 \in Nat /\ n + 1 \in 1 .. Len(s) /\ Len(ts) \in Nat
  BY LenProperties
<1>1. /\ Rank(s, n + 1) = Rank(s, n) + 1 /\ Made(s, n + 1) = Made(s, n) \cup {n + 1}
      /\ n + 1 \notin Made(s, n) /\ Rank(s, n) = Len(ts)
  BY <1>0, RankNext DEF Read, Describes
<1>2. Token(x) \in TokenRecords /\ Token(x).size = 0
  BY <1>0, LexemeIs
<1>3. /\ Len(more) = Len(ts) + 1 /\ more[Len(ts) + 1] = Token(x)
      /\ \A i \in 1 .. Len(ts) : /\ i = sup => more[i].size = ts[i].size + 1
                                 /\ i # sup => more[i].size = ts[i].size
  BY <1>2, AllocatedIs
<1> HIDE DEF more
<1>4. CASE p = n + 1
  <2>1. ASSUME NEW q \in Made(s, n + 1), Counts(s, p, q) PROVE FALSE
    <3>1. q \in 1 .. n + 1 /\ q > 1
      BY <2>1 DEF Made, Places, Counts
    <3>2. CASE s[q - 1].k = "colon"
      BY <1>0, <1>4, <2>1, <3>1, <3>2 DEF Counts
    <3>3. CASE s[q - 1].k # "colon"
      <4>1. StillOpen(s, p, q - 1)
        BY <2>1, <3>3 DEF Counts, Within
      <4>2. q - 1 \in Nat
        BY <3>1
      <4>3. p \in 1 .. q - 1
        BY <4>1, <4>2, StillOpenIs
      <4> QED
        BY <1>0, <1>4, <3>1, <4>3
    <3> QED
      BY <3>2, <3>3
  <2>2. Counted(s, p, n + 1) = {}
    BY <2>1 DEF Counted
  <2>3. more[Rank(s, p)].size = 0
    BY <1>1, <1>2, <1>3, <1>4
  <2>4. more[Rank(s, p)].size = Cardinality(Counted(s, p, n + 1))
    BY <2>2, <2>3, FS_EmptySet
  <2> QED
    BY <2>4 DEF more
<1>5. CASE p \in Made(s, n)
  <2>1. Rank(s, p) \in 1 .. Len(ts)
    BY <1>0, <1>1, <1>5, RankOrder
  <2>2. ts[Rank(s, p)].size = Cardinality(Counted(s, p, n))
    BY <1>5 DEF Read, Counting
  <2>3. Counts(s, p, n + 1) <=> sup = Rank(s, p)
    BY <1>5, SuperCounts
  <2>4. CASE sup = Rank(s, p)
    <3>1. Cardinality(Counted(s, p, n + 1)) = Cardinality(Counted(s, p, n)) + 1
      BY <1>0, <2>3, <2>4, CountedNext
    <3>2. more[Rank(s, p)].size = ts[Rank(s, p)].size + 1
      BY <1>3, <2>1, <2>4
    <3> QED
      BY <2>2, <3>1, <3>2 DEF more
  <2>5. CASE sup # Rank(s, p)
    <3>1. Counted(s, p, n + 1) = Counted(s, p, n)
      BY <1>0, <2>3, <2>5, CountedNext
    <3>2. more[Rank(s, p)].size = ts[Rank(s, p)].size
      BY <1>3, <2>1, <2>5
    <3> QED
      BY <2>2, <3>1, <3>2 DEF more
  <2> QED
    BY <2>4, <2>5
<1> QED
  BY <1>1, <1>4, <1>5

-----------------------------------------------------------------------------
(* One lexeme read, in the tokenizer as in the text.                       *)

LEMMA OpenStep ==
  ASSUME NEW s \in Seq(Lexemes), NEW n \in 0 .. Len(s) - 1, NEW ts \in Seq(TokenRecords),
         NEW sup \in 0 .. Len(ts), Read(s, ts, sup, n), s[n + 1].k = "open"
  PROVE  Read(s, Allocated(ts, sup, s[n + 1]), Len(ts) + 1, n + 1)
<1> DEFINE more == Allocated(ts, sup, s[n + 1])
<1>0. n \in Nat /\ n + 1 \in Nat /\ n + 1 \in 1 .. Len(s)
  BY LenProperties
<1>1. Sound(s, n + 1)
  BY <1>0, SoundNext DEF Read, Readable, Fits
<1>2. Describes(s, more, n + 1)
  BY MadeDescribed DEF Read
<1>3. more \in Seq(TokenRecords)
  BY <1>0, LexemeIs, AllocatedIs
<1>4. InOrder(s) => \A p \in Made(s, n + 1) : more[Rank(s, p)].size = Cardinality(Counted(s, p, n + 1))
  BY MadeSizes
<1>5. Within(s, n + 1, n + 1) /\ Rank(s, n + 1) = Len(ts) + 1
  <2>1. StillOpen(s, n + 1, n + 1)
    BY <1>0, StillOpenNext
  <2>2. Rank(s, n + 1) = Rank(s, n) + 1
    BY <1>0, RankNext
  <2> QED
    BY <2>1, <2>2 DEF Within, Read, Describes
<1> HIDE DEF more
<1>6. Opens(more) # {} /\ Len(ts) + 1 = Highest(Opens(more))
  BY <1>0, <1>1, <1>2, <1>3, <1>5, InnermostIs
<1>7. Counting(s, more, Len(ts) + 1, n + 1)
  BY <1>4, <1>6 DEF Counting
<1>8. Read(s, more, Len(ts) + 1, n + 1)
  BY <1>1, <1>2, <1>7 DEF Read
<1> QED
  BY <1>8 DEF more

LEMMA ValueStep ==
  ASSUME NEW s \in Seq(Lexemes), NEW n \in 0 .. Len(s) - 1, NEW ts \in Seq(TokenRecords),
         NEW sup \in 0 .. Len(ts), Read(s, ts, sup, n), s[n + 1].k = "value"
  PROVE  Read(s, Allocated(ts, sup, s[n + 1]), sup, n + 1)
<1> DEFINE x == s[n + 1]
           more == Allocated(ts, sup, x)
<1>0. n \in Nat /\ n + 1 \in Nat /\ n + 1 \in 1 .. Len(s) /\ n + 1 > 0 /\ Len(ts) \in Nat
  BY LenProperties
<1>1. Sound(s, n + 1)
  BY <1>0, SoundNext DEF Read, Readable, Fits
<1>2. Describes(s, more, n + 1)
  BY MadeDescribed DEF Read
<1>3. Token(x) \in TokenRecords /\ ~Token(x).open
  BY <1>0, LexemeIs
<1>4. InOrder(s) => \A p \in Made(s, n + 1) : more[Rank(s, p)].size = Cardinality(Counted(s, p, n + 1))
  BY MadeSizes
<1>5. /\ more \in Seq(TokenRecords) /\ Len(more) = Len(ts) + 1 /\ more[Len(ts) + 1] = Token(x)
      /\ \A i \in 1 .. Len(ts) : more[i].type = ts[i].type /\ more[i].open = ts[i].open
  BY <1>3, AllocatedIs
<1> HIDE DEF more
<1>6. Opens(more) = Opens(ts)
  <2>1. DOMAIN more = (DOMAIN ts) \cup {Len(ts) + 1} /\ DOMAIN ts = 1 .. Len(ts)
    BY <1>0, <1>5, TokensIn
  <2> QED
    BY <1>3, <1>5, <2>1 DEF Opens
<1>7. ASSUME InOrder(s) PROVE Counting(s, more, sup, n + 1)
  <2>1. \/ sup = 0 /\ Opens(more) = {}
        \/ Opens(more) # {} /\ sup = Highest(Opens(more))
        \/ Opens(more) # {} /\ sup \in DOMAIN more /\ more[sup].type \notin Containers
    <3>1. \/ sup = 0 /\ Opens(ts) = {}
          \/ Opens(ts) # {} /\ sup = Highest(Opens(ts))
          \/ Opens(ts) # {} /\ sup \in DOMAIN ts /\ ts[sup].type \notin Containers
      BY <1>7 DEF Read, Counting
    <3>2. DOMAIN ts = 1 .. Len(ts) /\ DOMAIN more = 1 .. Len(ts) + 1
      BY <1>5, TokensIn
    <3>3. \A i \in DOMAIN ts : i \in DOMAIN more /\ more[i].type = ts[i].type
      BY <1>0, <1>5, <3>2
    <3> QED
      BY <1>6, <3>1, <3>3
  <2> QED
    BY <1>0, <1>4, <1>7, <2>1 DEF Counting
<1>8. Counting(s, more, sup, n + 1)
  BY <1>7 DEF Counting
<1>9. Read(s, more, sup, n + 1)
  BY <1>1, <1>2, <1>8 DEF Read
<1> QED
  BY <1>9 DEF more

\* What a closing bracket finds: the innermost open bracket is of its type.
ClosesOne(ts, x) == Opens(ts) # {} /\ ts[Highest(Opens(ts))].type = x.type

LEMMA ClosesWhatFits ==
  ASSUME NEW s, NEW n \in Nat, NEW ts \in Seq(TokenRecords), NEW sup, Read(s, ts, sup, n)
  PROVE  ClosesOne(ts, s[n + 1]) <=> \E o \in 1 .. n : s[o].type = s[n + 1].type /\ Within(s, o, n)
<1>1. Sound(s, n) /\ Describes(s, ts, n)
  BY DEF Read
<1>2. \A o : Within(s, o, n) =>
        /\ Opens(ts) # {} /\ o \in 1 .. n
        /\ ts[Highest(Opens(ts))].type = s[o].type
  <2>1. ASSUME NEW o, Within(s, o, n)
        PROVE  Opens(ts) # {} /\ o \in 1 .. n /\ ts[Highest(Opens(ts))].type = s[o].type
    <3>1. /\ o \in 1 .. n /\ o \in Made(s, n)
          /\ Rank(s, o) \in Opens(ts) /\ Highest(Opens(ts)) = Rank(s, o)
      BY <1>1, <2>1, InnermostIs
    <3>2. ts[Rank(s, o)].type = s[o].type
      BY <1>1, <3>1 DEF Describes, Says
    <3> QED
      BY <3>1, <3>2
  <2> QED
    BY <2>1
<1>3. Opens(ts) # {} => \E o : Within(s, o, n)
  BY <1>1, InnermostIs
<1> QED
  BY <1>2, <1>3 DEF ClosesOne

LEMMA ShutIs ==
  ASSUME NEW ts \in Seq(TokenRecords), NEW top \in 1 .. Len(ts)
  PROVE  LET more == [ts EXCEPT ![top].open = FALSE]
         IN  /\ more \in Seq(TokenRecords) /\ Len(more) = Len(ts) /\ ~more[top].open
             /\ \A i \in 1 .. Len(ts) :
                  /\ more[i].type = ts[i].type /\ more[i].text = ts[i].text
                  /\ more[i].num = ts[i].num /\ more[i].size = ts[i].size
                  /\ i # top => more[i].open = ts[i].open
             /\ Opens(more) = Opens(ts) \ {top}
<1> DEFINE more == [ts EXCEPT ![top].open = FALSE]
           shut == [ts[top] EXCEPT !.open = FALSE]
<1>1. ts[top] \in TokenRecords
  BY TokensIn
<1>2. shut \in TokenRecords /\ shut.size = ts[top].size /\ shut.type = ts[top].type
  BY <1>1 DEF TokenRecords
<1>3. shut.text = ts[top].text /\ shut.num = ts[top].num
  BY <1>1 DEF TokenRecords
<1>4. ~shut.open
  BY <1>1 DEF TokenRecords
<1>5. more = [ts EXCEPT ![top] = shut]
  OBVIOUS
<1> HIDE DEF more, shut
<1>6. /\ more \in Seq(TokenRecords) /\ Len(more) = Len(ts)
      /\ \A j \in 1 .. Len(ts) : more[j] = IF j = top THEN shut ELSE ts[j]
  BY <1>2, <1>5, ExceptSeq
<1>7. more[top] = shut /\ \A j \in 1 .. Len(ts) : j # top => more[j] = ts[j]
  BY <1>6
<1>8. \A i \in 1 .. Len(ts) :
        /\ more[i].type = ts[i].type /\ more[i].text = ts[i].text
        /\ more[i].num = ts[i].num /\ more[i].size = ts[i].size
        /\ i # top => more[i].open = ts[i].open
  BY <1>2, <1>3, <1>7
<1>9. Opens(more) = Opens(ts) \ {top}
  <2>1. DOMAIN more = 1 .. Len(ts) /\ DOMAIN ts = 1 .. Len(ts)
    BY <1>6, TokensIn
  <2> QED
    BY <1>4, <1>7, <2>1 DEF Opens
<1> QED
  BY <1>4, <1>6, <1>7, <1>8, <1>9 DEF more

\* No lexeme but a bracket or a value makes a token.
LEMMA SameCount ==
  ASSUME NEW s, NEW n \in Nat, s[n + 1].k \notin {"open", "value"}
  PROVE  /\ Made(s, n + 1) = Made(s, n) /\ Rank(s, n + 1) = Rank(s, n)
         /\ \A p : Counted(s, p, n + 1) = Counted(s, p, n)
BY RankNext, CountedNext

LEMMA CloseStep ==
  ASSUME NEW s \in Seq(Lexemes), NEW n \in 0 .. Len(s) - 1, NEW ts \in Seq(TokenRecords),
         NEW sup, Read(s, ts, sup, n), s[n + 1].k = "close", ClosesOne(ts, s[n + 1])
  PROVE  LET top == Highest(Opens(ts))
         IN  Read(s, [ts EXCEPT ![top].open = FALSE], Highest(Opens(ts) \ {top}), n + 1)
<1> DEFINE top  == Highest(Opens(ts))
           more == [ts EXCEPT ![top].open = FALSE]
           sup2 == Highest(Opens(ts) \ {top})
<1>0. n \in Nat /\ Sound(s, n) /\ Describes(s, ts, n)
  BY DEF Read
<1>1. PICK o \in 1 .. n : s[o].type = s[n + 1].type /\ Within(s, o, n)
  BY <1>0, ClosesWhatFits
<1>2. o \in Made(s, n) /\ top = Rank(s, o)
  BY <1>0, <1>1, InnermostIs
<1>3. Sound(s, n + 1)
  BY <1>0, <1>1, SoundNext DEF Readable, Fits
<1>4. top \in 1 .. Len(ts)
  BY <1>0, <1>2, RankOrder DEF Describes
<1>5. /\ more \in Seq(TokenRecords) /\ Len(more) = Len(ts) /\ ~more[top].open
      /\ \A i \in 1 .. Len(ts) :
           /\ more[i].type = ts[i].type /\ more[i].text = ts[i].text
           /\ more[i].num = ts[i].num /\ more[i].size = ts[i].size
           /\ i # top => more[i].open = ts[i].open
      /\ Opens(more) = Opens(ts) \ {top}
  BY <1>4, ShutIs
<1> HIDE DEF top, more
<1>6. /\ Made(s, n + 1) = Made(s, n) /\ Rank(s, n + 1) = Rank(s, n)
      /\ \A p : Counted(s, p, n + 1) = Counted(s, p, n)
  BY <1>0, SameCount
<1>7. Depth(s, n + 1) = Depth(s, n) - 1 /\ Depth(s, n) \in Int /\ Depth(s, o) = Depth(s, n)
      /\ StillOpen(s, o, n)
  BY <1>0, <1>1, DepthNext DEF Within
<1>8. ASSUME NEW p \in Made(s, n)
      PROVE  Says(s, more[Rank(s, p)], p, n + 1) /\ Rank(s, p) \in 1 .. Len(ts)
  <2>1. Rank(s, p) \in 1 .. Len(ts) /\ Says(s, ts[Rank(s, p)], p, n) /\ p \in 1 .. n
    BY <1>0, RankOrder DEF Describes
  <2>2. StillOpen(s, p, n + 1) <=> StillOpen(s, p, n) /\ Depth(s, n + 1) >= Depth(s, p)
    BY <1>0, <2>1, StillOpenNext
  <2>3. CASE p = o
    <3>1. ~StillOpen(s, p, n + 1)
      BY <1>7, <2>2, <2>3
    <3>2. ~more[Rank(s, p)].open
      BY <1>2, <1>5, <2>3
    <3> QED
      BY <1>5, <2>1, <3>1, <3>2 DEF Says
  <2>4. CASE p # o
    <3>1. Rank(s, p) # top
      BY <1>0, <1>2, <2>4, RankOrder
    <3>2. StillOpen(s, p, n + 1) <=> StillOpen(s, p, n)
      <4>1. ASSUME StillOpen(s, p, n) PROVE Depth(s, n + 1) >= Depth(s, p)
        <5>1. Depth(s, p) \in Int /\ Depth(s, p) <= Depth(s, n)
          BY <1>0, <4>1, StillOpenIs
        <5>2. Depth(s, p) # Depth(s, n)
          BY <1>0, <1>7, <2>4, <4>1, OpenOrder
        <5> QED
          BY <1>7, <5>1, <5>2
      <4> QED
        BY <2>2, <4>1
    <3> QED
      BY <1>5, <2>1, <3>1, <3>2 DEF Says
  <2> QED
    BY <2>1, <2>3, <2>4
<1>9. Describes(s, more, n + 1)
  BY <1>0, <1>5, <1>6, <1>8 DEF Describes
<1>10. Counting(s, more, sup2, n + 1)
  <2>1. InOrder(s) => \A p \in Made(s, n + 1) : more[Rank(s, p)].size = Cardinality(Counted(s, p, n + 1))
    <3>1. InOrder(s) => \A p \in Made(s, n) : ts[Rank(s, p)].size = Cardinality(Counted(s, p, n))
      BY DEF Read, Counting
    <3> QED
      BY <1>5, <1>6, <1>8, <3>1
  <2>2. (sup2 = 0 /\ Opens(more) = {}) \/ (Opens(more) # {} /\ sup2 = Highest(Opens(more)))
    BY <1>5 DEF Highest
  <2> QED
    BY <2>1, <2>2 DEF Counting
<1>11. Read(s, more, sup2, n + 1)
  BY <1>3, <1>9, <1>10 DEF Read
<1> QED
  BY <1>11 DEF more, top

\* A colon or a comma changes no token.
LEMMA MarkDescribed ==
  ASSUME NEW s, NEW n \in Nat, NEW ts, Sound(s, n), Describes(s, ts, n),
         s[n + 1].k \in {"colon", "comma"}
  PROVE  Sound(s, n + 1) /\ Describes(s, ts, n + 1)
<1>1. Sound(s, n + 1)
  BY SoundNext DEF Readable, Fits
<1>2. Made(s, n + 1) = Made(s, n) /\ Rank(s, n + 1) = Rank(s, n)
  BY SameCount
<1>3. \A p \in Made(s, n) : Says(s, ts[Rank(s, p)], p, n + 1)
  BY StaysOpen DEF Describes, Says
<1> QED
  BY <1>1, <1>2, <1>3 DEF Describes

LEMMA ColonStep ==
  ASSUME NEW s \in Seq(Lexemes), NEW n \in 0 .. Len(s) - 1, NEW ts \in Seq(TokenRecords),
         NEW sup, Read(s, ts, sup, n), s[n + 1].k = "colon"
  PROVE  Read(s, ts, Len(ts), n + 1)
<1>0. n \in Nat /\ n + 1 \in 1 .. Len(s) /\ n + 1 \in DOMAIN s /\ (n + 1) - 1 = n /\ n + 1 > 0
  BY LenProperties
<1>1. Sound(s, n) /\ Describes(s, ts, n)
  BY DEF Read
<1>2. Sound(s, n + 1) /\ Describes(s, ts, n + 1)
  BY <1>0, <1>1, MarkDescribed
<1>3. /\ Made(s, n + 1) = Made(s, n) /\ Rank(s, n + 1) = Rank(s, n)
      /\ \A p : Counted(s, p, n + 1) = Counted(s, p, n)
  BY <1>0, SameCount
<1>4. ASSUME InOrder(s) PROVE Counting(s, ts, Len(ts), n + 1)
  <2>1. \A p \in Made(s, n + 1) : ts[Rank(s, p)].size = Cardinality(Counted(s, p, n + 1))
    BY <1>3, <1>4 DEF Read, Counting
  <2>2. n + 1 > 1 /\ s[n].k = "value" /\ Depth(s, n + 1) > 0
    BY <1>0, <1>4 DEF InOrder
  <2>3. Depth(s, n + 1) = Depth(s, n)
    BY <1>0, DepthNext
  <2>4. Opens(ts) # {}
    BY <1>0, <1>1, <2>2, <2>3, InnermostIs
  <2>5. n \in Made(s, n) /\ n \in 1 .. Len(s)
    BY <1>0, <2>2 DEF Made, Places
  <2>6. Rank(s, n) = Len(ts) /\ Len(ts) \in DOMAIN ts
    BY <1>0, <1>1, <2>5, RankOrder, TokensIn DEF Describes
  <2>7. ts[Len(ts)].type \notin Containers
    BY <1>1, <2>2, <2>5, <2>6, LexemeIs DEF Describes, Says
  <2> QED
    BY <1>0, <2>1, <2>4, <2>6, <2>7 DEF Counting
<1>5. Counting(s, ts, Len(ts), n + 1)
  BY <1>4 DEF Counting
<1> QED
  BY <1>2, <1>5 DEF Read

LEMMA CommaStep ==
  ASSUME NEW s \in Seq(Lexemes), NEW n \in 0 .. Len(s) - 1, NEW ts \in Seq(TokenRecords),
         NEW sup, Read(s, ts, sup, n), s[n + 1].k = "comma",
         NEW sup2,
         (sup # 0 /\ ts[sup].type \notin Containers /\ Opens(ts) # {}) => sup2 = Highest(Opens(ts)),
         ~(sup # 0 /\ ts[sup].type \notin Containers /\ Opens(ts) # {}) => sup2 = sup
  PROVE  Read(s, ts, sup2, n + 1)
<1>0. n \in Nat
  OBVIOUS
<1>1. Sound(s, n + 1) /\ Describes(s, ts, n + 1)
  BY <1>0, MarkDescribed DEF Read
<1>2. /\ Made(s, n + 1) = Made(s, n) /\ Rank(s, n + 1) = Rank(s, n)
      /\ \A p : Counted(s, p, n + 1) = Counted(s, p, n)
  BY <1>0, SameCount
<1>3. ASSUME InOrder(s) PROVE Counting(s, ts, sup2, n + 1)
  <2>1. \A p \in Made(s, n + 1) : ts[Rank(s, p)].size = Cardinality(Counted(s, p, n + 1))
    BY <1>2, <1>3 DEF Read, Counting
  <2>2. \/ sup = 0 /\ Opens(ts) = {}
        \/ Opens(ts) # {} /\ sup = Highest(Opens(ts))
        \/ Opens(ts) # {} /\ sup \in DOMAIN ts /\ ts[sup].type \notin Containers
    BY <1>3 DEF Read, Counting
  <2>3. sup \in DOMAIN ts => sup # 0
    BY TokensIn
  <2>4. (sup2 = 0 /\ Opens(ts) = {}) \/ (Opens(ts) # {} /\ sup2 = Highest(Opens(ts)))
    BY <2>2, <2>3
  <2> QED
    BY <2>1, <2>4 DEF Counting
<1>4. Counting(s, ts, sup2, n + 1)
  BY <1>3 DEF Counting
<1> QED
  BY <1>1, <1>4 DEF Read

-----------------------------------------------------------------------------
(* The parser reads its text.                                              *)

LEMMA GivenIs ==
  ASSUME Reading
  PROVE  Given \in Seq(Lexemes) /\ Len(Given) \in Nat
<1>1. Given \in Seq(Lexemes)
  BY InputsAssumption DEF Reading, Given
<1> QED
  BY <1>1, LenProperties

LEMMA RestOf ==
  ASSUME NEW s \in Seq(Lexemes), NEW n \in 0 .. Len(s)
  PROVE  LET js0 == SubSeq(s, n + 1, Len(s))
         IN  /\ js0 = <<>> <=> n = Len(s)
             /\ n < Len(s) => Head(js0) = s[n + 1] /\ Tail(js0) = SubSeq(s, n + 2, Len(s))
<1> DEFINE m == Len(s)
           js0 == SubSeq(s, n + 1, m)
           js1 == SubSeq(s, n + 2, m)
<1>0. m \in Nat /\ n \in Int /\ n + 1 \in Int /\ n + 2 \in Int /\ \A i \in 1 .. m : s[i] \in Lexemes
  BY LenProperties, ElementOfSeq
<1>a. /\ \A i \in n + 1 .. m : s[i] \in Lexemes
      /\ \A i \in n + 2 .. m : s[i] \in Lexemes
  BY <1>0
<1> HIDE DEF m
<1>1. /\ js0 \in Seq(Lexemes) /\ Len(js0) = IF n + 1 <= m THEN m - (n + 1) + 1 ELSE 0
      /\ \A i \in 1 .. m - (n + 1) + 1 : js0[i] = s[(n + 1) + i - 1]
  BY <1>0, <1>a, SubSeqProperties
<1>2. /\ js1 \in Seq(Lexemes) /\ Len(js1) = IF n + 2 <= m THEN m - (n + 2) + 1 ELSE 0
      /\ \A i \in 1 .. m - (n + 2) + 1 : js1[i] = s[(n + 2) + i - 1]
  BY <1>0, <1>a, SubSeqProperties
<1>b. n \in 0 .. m
  BY DEF m
<1>3. Len(js0) = m - n
  BY <1>0, <1>1, <1>b
<1> HIDE DEF js0, js1
<1>4. js0 = <<>> <=> n = m
  BY <1>0, <1>1, <1>3, EmptySeq
<1>5. ASSUME n < m PROVE Head(js0) = s[n + 1] /\ Tail(js0) = js1
  <2>1. js0 # <<>>
    BY <1>4, <1>5, <1>0
  <2>2. Head(js0) = js0[1] /\ 1 \in 1 .. m - (n + 1) + 1
    BY <1>0, <1>1, <1>5, <2>1
  <2>3. Head(js0) = s[n + 1]
    <3>1. js0[1] = s[(n + 1) + 1 - 1] /\ (n + 1) + 1 - 1 = n + 1
      BY <1>0, <1>1, <2>2
    <3> QED
      BY <2>2, <3>1
  <2>4. /\ Tail(js0) \in Seq(Lexemes) /\ Len(Tail(js0)) = m - n - 1
        /\ \A i \in 1 .. m - n - 1 : Tail(js0)[i] = js0[i + 1]
    BY <1>1, <1>3, <2>1, HeadTailProperties
  <2>5. Len(js1) = m - n - 1
    BY <1>0, <1>2, <1>5
  <2>6. ASSUME NEW i \in 1 .. m - n - 1 PROVE Tail(js0)[i] = js1[i]
    <3>1. i + 1 \in 1 .. m - (n + 1) + 1 /\ i \in 1 .. m - (n + 2) + 1
      BY <1>0
    <3>2. (n + 1) + (i + 1) - 1 = (n + 2) + i - 1
      BY <1>0
    <3>3. js0[i + 1] = s[(n + 1) + (i + 1) - 1] /\ js1[i] = s[(n + 2) + i - 1]
      BY <1>1, <1>2, <3>1
    <3> QED
      BY <2>4, <3>2, <3>3
  <2>7. Tail(js0) = js1
    BY <1>2, <2>4, <2>5, <2>6, SeqEqual
  <2> QED
    BY <2>3, <2>7
<1> QED
  BY <1>4, <1>5 DEF js0, js1, m

\* A lexeme that is not half a string is one of a text not cut so far.
LEMMA AtLexeme ==
  ASSUME Reading, Scanning, Lexeme.k # "half" \/ ~cut
  PROVE  /\ ~cut
         /\ \E n \in 0 .. Len(Given) - 1 :
              /\ Read(Given, tokens, toksuper, n) /\ Lexeme = Given[n + 1]
              /\ Tail(js) = SubSeq(Given, n + 2, Len(Given))
<1>1. pc = "scan" /\ js # <<>>
  BY DEF Scanning
<1>2. PICK n \in 0 .. Len(Given) : Read(Given, tokens, toksuper, n) /\ Rest(n)
  BY <1>1 DEF Reading
<1>3. ~cut /\ js = SubSeq(Given, n + 1, Len(Given))
  BY <1>1, <1>2 DEF Rest
<1>4. n # Len(Given)
  BY <1>1, <1>3, GivenIs, RestOf
<1>5. n < Len(Given) /\ n \in 0 .. Len(Given) - 1
  BY <1>4, GivenIs
<1>6. Lexeme = Given[n + 1] /\ Tail(js) = SubSeq(Given, n + 2, Len(Given))
  BY <1>3, <1>5, GivenIs, RestOf DEF Lexeme
<1> QED
  BY <1>2, <1>3, <1>5, <1>6

LEMMA ReadOn ==
  ASSUME Reading, NEW n \in 0 .. Len(Given) - 1, Read(Given, tokens', toksuper', n + 1),
         ~cut, UNCHANGED <<input, cut>>, pc' = "scan", js' = SubSeq(Given, n + 2, Len(Given))
  PROVE  Reading'
<1>1. Given' = Given
  BY DEF Given
<1>2. n + 1 \in 0 .. Len(Given) /\ (n + 1) + 1 = n + 2
  BY GivenIs
<1>3. Rest(n + 1)'
  BY <1>1, <1>2 DEF Rest
<1>4. Read(Given, tokens, toksuper, n + 1)' /\ (n + 1 \in 0 .. Len(Given))'
  BY <1>1, <1>2
<1>5. (\E k \in 0 .. Len(Given) : Read(Given, tokens, toksuper, k) /\ Rest(k))'
  BY <1>3, <1>4
<1>6. (input \in DOMAIN Inputs)'
  BY DEF Reading
<1> QED
  BY <1>5, <1>6 DEF Reading, Returned

LEMMA Fails ==
  ASSUME Reading, ~Complete, UNCHANGED <<input, cut>>, pc' = "parsed", ret' \in Int, ret' < 0
  PROVE  Reading'
<1>1. Given' = Given /\ ~Complete'
  BY DEF Given, Complete
<1>2. ~(ret' >= 0)
  OBVIOUS
<1> QED
  BY <1>1, <1>2 DEF Reading, Returned

LEMMA CallReading ==
  ASSUME Reading, Call PROVE Reading'
<1> DEFINE s == Inputs[input'].text
<1>1. /\ pc' = "scan" /\ input' \in DOMAIN Inputs /\ js' = s /\ tokens' = <<>> /\ toksuper' = 0
      /\ cut' = FALSE
  BY DEF Call, Renewed
<1>2. s \in Seq(Lexemes) /\ Len(s) \in Nat
  BY <1>1, InputsAssumption, LenProperties
<1>3. Given' = s
  BY DEF Given
<1> HIDE DEF s
<1>4. SubSeq(s, 0 + 1, Len(s)) = s
  <2> DEFINE m == Len(s)
             whole == SubSeq(s, 1, m)
  <2>1. m \in Nat /\ \A i \in 1 .. m : s[i] \in Lexemes
    BY <1>2, ElementOfSeq
  <2> HIDE DEF m
  <2>2. /\ whole \in Seq(Lexemes) /\ Len(whole) = IF 1 <= m THEN m - 1 + 1 ELSE 0
        /\ \A i \in 1 .. m - 1 + 1 : whole[i] = s[1 + i - 1]
    BY <2>1, SubSeqProperties
  <2> HIDE DEF whole
  <2>3. Len(whole) = m
    BY <2>1, <2>2
  <2>4. \A i \in 1 .. m : whole[i] = s[i]
    <3>1. \A i \in 1 .. m : 1 + i - 1 = i /\ i \in 1 .. m - 1 + 1
      BY <2>1
    <3> QED
      BY <2>2, <3>1
  <2>5. whole = s
    BY <1>2, <2>2, <2>3, <2>4, SeqEqual DEF m
  <2> QED
    BY <2>5 DEF whole, m
<1>5. Read(s, <<>>, 0, 0)
  <2>1. \A kinds : Places(s, 0, kinds) = {}
    BY PlacesNone
  <2>2. Made(s, 0) = {} /\ Rank(s, 0) = 0
    BY PlacesNone DEF Made, Rank
  <2>3. Depth(s, 0) = 0
    BY DepthNext
  <2>4. Sound(s, 0)
    BY <2>1, <2>3 DEF Sound, Matched
  <2>5. Describes(s, <<>>, 0) /\ Opens(<<>>) = {}
    BY <2>2 DEF Describes, Opens
  <2>6. Counting(s, <<>>, 0, 0)
    BY <2>2, <2>5 DEF Counting
  <2> QED
    BY <2>4, <2>5, <2>6 DEF Read
<1>6. (\E n \in 0 .. Len(Given) : Read(Given, tokens, toksuper, n) /\ Rest(n))'
  <2>1. 0 \in 0 .. Len(s)
    BY <1>2
  <2>2. Rest(0)'
    BY <1>1, <1>3, <1>4 DEF Rest
  <2>3. Read(Given, tokens, toksuper, 0)'
    BY <1>1, <1>3, <1>5
  <2> QED
    BY <1>3, <2>1, <2>2, <2>3
<1> QED
  BY <1>1, <1>6 DEF Reading, Returned

LEMMA CutReading ==
  ASSUME Reading, Cut PROVE Reading'
<1>1. pc = "scan" /\ pc' = "scan" /\ js # <<>> /\ ~cut /\ cut'
      /\ UNCHANGED <<tokens, toksuper, input>>
  BY DEF Cut, Scanning
<1>2. PICK n \in 0 .. Len(Given) : Read(Given, tokens, toksuper, n) /\ Rest(n)
  BY <1>1 DEF Reading
<1>3. n < Len(Given)
  <2>1. js = SubSeq(Given, n + 1, Len(Given))
    BY <1>1, <1>2 DEF Rest
  <2>2. n # Len(Given)
    BY <1>1, <2>1, GivenIs, RestOf
  <2> QED
    BY <2>2, GivenIs
<1>4. (js' # <<>>) => Lexeme'.k = "half"
  <2>1. CASE js' = <<>>
    BY <2>1
  <2>2. CASE js' = <<[Lexeme EXCEPT !.k = "half"]>> /\ Lexeme.k = "value"
    <3> DEFINE half == [Lexeme EXCEPT !.k = "half"]
    <3>1. js' = <<half>>
      BY <2>2
    <3> HIDE DEF half
    <3>2. Lexeme' = half
      BY <3>1 DEF Lexeme
    <3> QED
      BY <3>2 DEF half
  <2> QED
    BY <2>1, <2>2 DEF Cut
<1>5. Given' = Given
  BY <1>1 DEF Given
<1>6. (\E k \in 0 .. Len(Given) : Read(Given, tokens, toksuper, k) /\ Rest(k))'
  <2>1. Rest(n)'
    BY <1>1, <1>3, <1>4, <1>5 DEF Rest
  <2>2. Read(Given, tokens, toksuper, n)'
    BY <1>1, <1>2, <1>5
  <2> QED
    BY <1>5, <2>1, <2>2
<1>7. (input \in DOMAIN Inputs)'
  BY <1>1 DEF Reading
<1> QED
  BY <1>1, <1>6, <1>7 DEF Reading, Returned

\* The steps that read a lexeme.
LEMMA AdvanceReading ==
  ASSUME Inv, Reading, UNCHANGED <<input, cut>>,
         OpenContainer \/ Value \/ CloseContainer \/ Colon \/ Comma
  PROVE  Reading'
<1>1. Scanning /\ Lexeme.k # "half" /\ Advance
  BY DEF OpenContainer, Value, CloseContainer, Colon, Comma
<1>2. PICK n \in 0 .. Len(Given) - 1 :
        /\ Read(Given, tokens, toksuper, n) /\ Lexeme = Given[n + 1]
        /\ Tail(js) = SubSeq(Given, n + 2, Len(Given))
  BY <1>1, AtLexeme
<1>3. /\ ~cut /\ pc' = "scan" /\ js' = SubSeq(Given, n + 2, Len(Given))
      /\ Given \in Seq(Lexemes) /\ tokens \in Seq(TokenRecords) /\ toksuper \in 0 .. Len(tokens)
  BY <1>1, <1>2, AtLexeme, GivenIs DEF Advance, Scanning, Inv, Tokenized
<1>4. OpenTokens = Opens(tokens)
  BY DEF OpenTokens, Opens
<1>5. \A x : Allocate(x) = Allocated(tokens, toksuper, x)
  BY DEF Allocate, Allocated
<1>6. Read(Given, tokens', toksuper', n + 1)
  <2>1. CASE OpenContainer
    <3>1. /\ Given[n + 1].k = "open" /\ tokens' = Allocated(tokens, toksuper, Given[n + 1])
          /\ toksuper' = Len(tokens) + 1
      BY <1>2, <1>5, <2>1 DEF OpenContainer
    <3>2. Read(Given, Allocated(tokens, toksuper, Given[n + 1]), Len(tokens) + 1, n + 1)
      BY <1>2, <1>3, <3>1, OpenStep
    <3> QED
      BY <3>1, <3>2
  <2>2. CASE Value
    <3>1. /\ Given[n + 1].k = "value" /\ tokens' = Allocated(tokens, toksuper, Given[n + 1])
          /\ toksuper' = toksuper
      BY <1>2, <1>5, <2>2 DEF Value
    <3>2. Read(Given, Allocated(tokens, toksuper, Given[n + 1]), toksuper, n + 1)
      BY <1>2, <1>3, <3>1, ValueStep
    <3> QED
      BY <3>1, <3>2
  <2>3. CASE CloseContainer
    <3> DEFINE top == Highest(Opens(tokens))
    <3>1. /\ Given[n + 1].k = "close" /\ ClosesOne(tokens, Given[n + 1])
          /\ tokens' = [tokens EXCEPT ![top].open = FALSE]
          /\ toksuper' = Highest(Opens(tokens) \ {top})
      BY <1>2, <1>4, <2>3 DEF CloseContainer, Closes, ClosesOne, Innermost
    <3>2. Read(Given, [tokens EXCEPT ![top].open = FALSE], Highest(Opens(tokens) \ {top}), n + 1)
      BY <1>2, <1>3, <3>1, CloseStep
    <3> QED
      BY <3>1, <3>2
  <2>4. CASE Colon
    <3>1. Given[n + 1].k = "colon" /\ tokens' = tokens /\ toksuper' = Len(tokens)
      BY <1>2, <2>4 DEF Colon
    <3>2. Read(Given, tokens, Len(tokens), n + 1)
      BY <1>2, <1>3, <3>1, ColonStep
    <3> QED
      BY <3>1, <3>2
  <2>5. CASE Comma
    <3> DEFINE back == toksuper # 0 /\ tokens[toksuper].type \notin Containers /\ Opens(tokens) # {}
    <3>1. /\ Given[n + 1].k = "comma" /\ tokens' = tokens
          /\ back => toksuper' = Highest(Opens(tokens))
          /\ ~back => toksuper' = toksuper
      BY <1>2, <1>4, <2>5 DEF Comma, Innermost
    <3>2. Read(Given, tokens, toksuper', n + 1)
      BY <1>2, <1>3, <3>1, CommaStep
    <3> QED
      BY <3>1, <3>2
  <2> QED
    BY <2>1, <2>2, <2>3, <2>4, <2>5
<1> QED
  BY <1>2, <1>3, <1>6, ReadOn

\* The steps that give up: what was read is no response, whatever follows.
LEMMA GiveUpReading ==
  ASSUME Inv, Reading, UNCHANGED <<input, cut>>, NoMemory \/ Mismatch \/ Unreadable
  PROVE  Reading'
<1>1. Scanning /\ pc' = "parsed" /\ ret' \in Int /\ ret' < 0
  BY DEF NoMemory, Mismatch, Unreadable, EndWith, NOMEM, INVAL, PART
<1>2. ASSUME Complete PROVE FALSE
  <2>1. ~cut /\ IsResponse(Given, Len(Given)) /\ Rank(Given, Len(Given)) <= Pool
    BY <1>2 DEF Complete
  <2>2. PICK n \in 0 .. Len(Given) - 1 :
          Read(Given, tokens, toksuper, n) /\ Lexeme = Given[n + 1]
    BY <1>1, <2>1, AtLexeme
  <2>3. /\ Given \in Seq(Lexemes) /\ Len(Given) \in Nat /\ tokens \in Seq(TokenRecords)
        /\ n \in Nat /\ n + 1 \in Nat /\ n + 1 \in 1 .. Len(Given) /\ n + 1 <= Len(Given)
    BY GivenIs DEF Inv, Tokenized
  <2>4. CASE NoMemory
    <3>1. Given[n + 1].k \in {"open", "value"} /\ ~(Len(tokens) < Pool)
      BY <2>2, <2>4 DEF NoMemory, PoolLeft
    <3>2. Len(tokens) = Rank(Given, n) /\ Rank(Given, n + 1) = Rank(Given, n) + 1
          /\ Rank(Given, n) \in Nat
      BY <2>2, <2>3, <3>1, RankNext DEF Read, Describes
    <3>3. Rank(Given, n + 1) <= Rank(Given, Len(Given)) /\ Rank(Given, Len(Given)) \in Nat
      BY <2>3, RankGrows, RankNext
    <3>4. Rank(Given, Len(Given)) <= Pool
      BY <2>1
    <3> QED
      BY <3>1, <3>2, <3>3, <3>4, PoolNat
  <2>5. CASE Mismatch
    <3>1. Given[n + 1].k = "close" /\ ~ClosesOne(tokens, Given[n + 1])
      BY <2>2, <2>5 DEF Mismatch, Closes, ClosesOne, Innermost, OpenTokens, Opens
    <3>2. n + 1 \in Places(Given, Len(Given), {"close"}) /\ (n + 1) - 1 = n
      BY <2>3, <3>1 DEF Places
    <3>3. \E o \in 1 .. n : Given[o].type = Given[n + 1].type /\ Within(Given, o, n)
      BY <2>1, <3>2 DEF IsResponse, Balanced, Matched
    <3>4. ClosesOne(tokens, Given[n + 1])
      BY <2>2, <2>3, <3>3, ClosesWhatFits
    <3> QED
      BY <3>1, <3>4
  <2>6. CASE Unreadable
    <3>1. n + 1 \in Places(Given, Len(Given), {"half", "bad"})
      BY <2>2, <2>3, <2>6 DEF Unreadable, Places
    <3> QED
      BY <2>1, <3>1 DEF IsResponse, Balanced
  <2> QED
    BY <2>4, <2>5, <2>6
<1> QED
  BY <1>1, <1>2, Fails

LEMMA EndReading ==
  ASSUME Inv, Reading, UNCHANGED <<input, cut>>, EndOfText PROVE Reading'
<1>1. /\ pc = "scan" /\ js = <<>> /\ pc' = "parsed" /\ UNCHANGED <<tokens, toksuper>>
      /\ OpenTokens = {} => ret' = Len(tokens)
      /\ OpenTokens # {} => ret' = PART
  BY DEF EndOfText, EndWith
<1>2. PICK n \in 0 .. Len(Given) : Read(Given, tokens, toksuper, n) /\ Rest(n)
  BY <1>1 DEF Reading
<1>3. Given \in Seq(Lexemes) /\ tokens \in Seq(TokenRecords) /\ n \in Nat /\ Len(Given) \in Nat
  BY GivenIs DEF Inv, Tokenized
<1>4. IF cut THEN n < Len(Given) ELSE n = Len(Given)
  BY <1>1, <1>2, <1>3, RestOf DEF Rest
<1>5. OpenTokens = {} <=> Depth(Given, n) = 0
  BY <1>2, <1>3, InnermostIs DEF OpenTokens, Opens, Read
<1>6. CASE OpenTokens = {}
  <2>1. Given' = Given /\ cut' = cut
    BY DEF Given
  <2>2. (/\ Read(Given, tokens, toksuper, n) /\ Depth(Given, n) = 0
         /\ IF cut THEN n < Len(Given) ELSE n = Len(Given))'
    BY <1>1, <1>2, <1>4, <1>5, <1>6, <2>1
  <2>3. (\E k \in 0 .. Len(Given) :
           /\ Read(Given, tokens, toksuper, k) /\ Depth(Given, k) = 0
           /\ IF cut THEN k < Len(Given) ELSE k = Len(Given))'
    BY <2>1, <2>2
  <2>4. ~(ret' < 0)
    BY <1>1, <1>3, <1>6, TokensIn
  <2>5. (input \in DOMAIN Inputs)'
    BY DEF Reading
  <2> QED
    BY <1>1, <2>3, <2>4, <2>5 DEF Reading, Returned
<1>7. CASE OpenTokens # {}
  <2>1. ASSUME Complete PROVE FALSE
    BY <1>4, <1>5, <1>7, <2>1 DEF Complete, IsResponse, Balanced
  <2>2. ret' \in Int /\ ret' < 0
    BY <1>1, <1>7 DEF PART
  <2> QED
    BY <1>1, <2>1, <2>2, Fails
<1> QED
  BY <1>6, <1>7

-----------------------------------------------------------------------------
(* The verdict.                                                            *)

LEMMA FirstIs ==
  ASSUME NEW s \in Seq(Lexemes), NEW n \in 0 .. Len(s), NEW ts, Describes(s, ts, n),
         1 \in 1 .. Len(ts)
  PROVE  ts[1].type \in Containers <=> \E p \in Made(s, n) : Rank(s, p) = 1 /\ s[p].k = "open"
<1>1. ASSUME NEW p \in Made(s, n), Rank(s, p) = 1
      PROVE  ts[1].type \in Containers <=> s[p].k = "open"
  <2>1. ts[1].type = s[p].type
    BY <1>1 DEF Describes, Says
  <2>2. p \in 1 .. Len(s) /\ s[p].k \in {"open", "value"}
    BY LenProperties DEF Made, Places
  <2>3. s[p].k \in {"open", "close"} <=> s[p].type \in Containers
    BY <2>2, LexemeIs
  <2> QED
    BY <2>1, <2>2, <2>3
<1>2. \E p \in Made(s, n) : Rank(s, p) = 1
  BY DEF Describes
<1> QED
  BY <1>1, <1>2

\* A text is taken when it is a complete response.
LEMMA Verdict ==
  ASSUME Inv, Reading, pc = "parsed" PROVE Failure = 0 <=> Complete
<1>0. ret \in Int /\ Pool \in Nat
  BY PoolNat DEF Inv, Tokenized, PART
<1>1. CASE ret < 0
  <2>1. Failure # 0
    BY <1>0, <1>1 DEF Failure
  <2> QED
    BY <1>1, <2>1 DEF Reading
<1>2. CASE ret >= 0
  <2>1. PICK n \in 0 .. Len(Given) :
          /\ Read(Given, tokens, toksuper, n) /\ Depth(Given, n) = 0
          /\ IF cut THEN n < Len(Given) ELSE n = Len(Given)
    BY <1>2 DEF Reading
  <2>2. ret = Len(tokens) /\ Len(tokens) = Rank(Given, n) /\ ret <= Pool
    BY <1>2, <2>1 DEF Inv, Closed, Tokenized, Read, Describes
  <2>3. Given \in Seq(Lexemes) /\ Len(Given) \in Nat
    BY GivenIs
  <2>4. Balanced(Given, n)
    BY <2>1 DEF Read, Sound, Balanced
  <2>5. IsResponse(Given, n) <=> ret > 1 /\ Tok(0).type \in Containers
    <3>1. CASE ret > 1
      <4>1. 1 \in 1 .. Len(tokens) /\ Rank(Given, n) >= 2
        BY <1>0, <2>2, <3>1
      <4>2. Tok(0) = tokens[1]
        BY DEF Tok
      <4>3. tokens[1].type \in Containers
              <=> \E p \in Made(Given, n) : Rank(Given, p) = 1 /\ Given[p].k = "open"
        BY <2>1, <2>3, <4>1, FirstIs DEF Read
      <4> QED
        BY <2>4, <3>1, <4>1, <4>2, <4>3 DEF IsResponse
    <3>2. CASE ~(ret > 1)
      <4>1. ~(Rank(Given, n) >= 2)
        BY <1>0, <2>2, <3>2
      <4> QED
        BY <3>2, <4>1 DEF IsResponse
    <3> QED
      BY <3>1, <3>2
  <2>6. Failure = 0 <=> ret > 1 /\ Tok(0).type \in Containers
    <3>1. CASE ret = 0
      BY <3>1 DEF Failure
    <3>2. CASE ret = 1
      BY <3>2 DEF Failure
    <3>3. CASE ret > 1
      <4>1. ~(ret < 0) /\ ret # 0 /\ ret # 1
        BY <1>0, <3>3
      <4>2. Failure = IF Tok(0).type \in Containers THEN 0 ELSE 1
        BY <3>3, <4>1 DEF Failure
      <4> QED
        BY <3>3, <4>2
    <3> QED
      BY <1>0, <1>2, <3>1, <3>2, <3>3
  <2>7. CASE cut
    <3>1. n \in 0 .. Len(Inputs[input].text) - 1 /\ input \in DOMAIN Inputs
      BY <2>1, <2>3, <2>7 DEF Reading, Given
    <3>2. ~IsResponse(Given, n)
      BY <3>1, BodiesAssumption DEF Given
    <3> QED
      BY <2>5, <2>6, <2>7, <3>2 DEF Complete
  <2>8. CASE ~cut
    BY <2>1, <2>2, <2>5, <2>6, <2>8 DEF Complete
  <2> QED
    BY <2>7, <2>8
<1> QED
  BY <1>0, <1>1, <1>2

LEMMA ParseReading ==
  ASSUME Inv, Reading, Parse PROVE Reading'
<1>1. CASE Refuse
  <2>1. pc = "parsed" /\ Failure # 0 /\ pc' = "idle" /\ result' = Failure /\ UNCHANGED <<input, cut>>
    BY <1>1 DEF Refuse, Return
  <2>2. ~Complete
    BY <2>1, Verdict
  <2>3. Complete' = Complete /\ (input \in DOMAIN Inputs)'
    BY <2>1 DEF Complete, Given, Reading
  <2>4. ~Complete' /\ result' # 0
    BY <2>1, <2>2, <2>3
  <2> QED
    BY <2>1, <2>3, <2>4 DEF Reading
<1>2. CASE Start
  <2>1. pc = "parsed" /\ Failure = 0 /\ pc' = "root" /\ UNCHANGED <<input, cut>>
    BY <1>2 DEF Start
  <2>2. Complete
    BY <2>1, Verdict
  <2>3. Complete' = Complete /\ (input \in DOMAIN Inputs)'
    BY <2>1 DEF Complete, Given, Reading
  <2>4. Complete'
    BY <2>2, <2>3
  <2> QED
    BY <2>1, <2>3, <2>4 DEF Reading, Returned
<1>3. CASE Finish
  <2>1. pc = "root" /\ pc' = "idle" /\ result' = 0 /\ UNCHANGED <<input, cut>>
    BY <1>3 DEF Finish, Return
  <2>2. Complete
    BY <2>1 DEF Reading
  <2>3. Complete' = Complete /\ (input \in DOMAIN Inputs)'
    BY <2>1 DEF Complete, Given, Reading
  <2>4. Complete'
    BY <2>2, <2>3
  <2> QED
    BY <2>1, <2>3, <2>4 DEF Reading
<1>4. ASSUME pc \in {"root"} \cup Objects \cup Lists,
             pc' \in {"root", "astray"} \cup Objects \cup Lists,
             UNCHANGED <<input, cut>>
      PROVE  Reading'
  <2>1. pc \notin {"idle", "scan", "parsed"} /\ pc' \notin {"idle", "scan", "parsed"}
    BY <1>4 DEF Objects, Lists
  <2>2. Complete
    BY <2>1 DEF Reading
  <2>3. Complete' = Complete /\ (input \in DOMAIN Inputs)'
    BY <1>4 DEF Complete, Given, Reading
  <2>4. Complete'
    BY <2>2, <2>3
  <2> QED
    BY <2>1, <2>3, <2>4 DEF Reading, Returned
<1>5. CASE RootKey \/ LeaveData
  <2>1. pc \in {"root", "data"} /\ pc' \in {"root", "data"} /\ UNCHANGED <<input, cut>>
    BY <1>5 DEF RootKey, LeaveData, Scanned
  <2> QED
    BY <1>4, <2>1 DEF Objects
<1>s. CASE Stray
  BY <1>4, <1>s DEF Stray, Looking, Scanned
<1>6. CASE \E o \in Objects : PlainKey(o)
  BY <1>4, <1>6 DEF PlainKey, Scanned
<1>7. CASE \E o \in Objects \ {"pred"} : EnterList(o) \/ BreakList(o)
  <2>1. PICK o \in {"data", "route", "dest"} : EnterList(o) \/ BreakList(o)
    BY <1>7 DEF Objects
  <2>2. pc = o /\ pc' \in {o, ListIn(o)} /\ UNCHANGED <<input, cut>>
    BY <2>1 DEF EnterList, BreakList, Scanned
  <2>3. ListIn(o) \in Lists
    BY <2>1 DEF ListIn, Lists
  <2> QED
    BY <1>4, <2>2, <2>3 DEF Objects
<1>8. CASE \E o \in Objects \ {"data"} : LeaveObject(o)
  <2>1. PICK o \in {"route", "dest", "pred"} : LeaveObject(o)
    BY <1>8 DEF Objects
  <2>2. pc = o /\ pc' = ListOf(o) /\ UNCHANGED <<input, cut>>
    BY <2>1 DEF LeaveObject, Scanned
  <2>3. ListOf(o) \in Lists
    BY <2>1 DEF ListOf, Lists
  <2> QED
    BY <1>4, <2>2, <2>3 DEF Objects
<1>9. CASE \E l \in Lists : EnterObject(l) \/ LeaveList(l)
  <2>1. PICK l \in {"routes", "dests", "preds"} : EnterObject(l) \/ LeaveList(l)
    BY <1>9 DEF Lists
  <2>2. pc = l /\ pc' \in {ElementOf(l), Owner(l)} /\ UNCHANGED <<input, cut>>
    BY <2>1 DEF EnterObject, LeaveList, Scanned
  <2>3. ElementOf(l) \in Objects /\ Owner(l) \in Objects
    BY <2>1 DEF ElementOf, Owner, Objects
  <2> QED
    BY <1>4, <2>2, <2>3 DEF Lists
<1> QED
  BY <1>1, <1>2, <1>3, <1>5, <1>6, <1>7, <1>8, <1>9, <1>s DEF Parse

LEMMA StepReading == Inv /\ Reading /\ [Next]_vars => Reading'
<1> SUFFICES ASSUME Inv, Reading, [Next]_vars PROVE Reading'
  OBVIOUS
<1>1. CASE Call \/ Cut
  BY <1>1, CallReading, CutReading
<1>2. CASE Scan
  BY <1>2, AdvanceReading, GiveUpReading, EndReading DEF Scan, JsmnStep
<1>3. CASE Parse
  BY <1>3, ParseReading
<1>4. CASE UNCHANGED vars
  <2>1. UNCHANGED <<pc, js, tokens, toksuper, ret, input, cut, result>>
    BY <1>4 DEF vars, jsmnVars
  <2> QED
    BY <2>1 DEF Reading, Rest, Lexeme, Complete, Returned, Given
<1>5. CASE Restart
  BY <1>5 DEF Restart, Reading, Returned
<1> QED
  BY <1>1, <1>2, <1>3, <1>4, <1>5 DEF Next

(* What the tokenizer holds while it reads is what the lexemes read so far  *)
(* make, and what the parser walks is a complete response.                  *)
THEOREM ReadingInvariant == Spec => []Reading
<1>1. Init => Reading
  BY DEF Init, Reading, Returned
<1> QED
  BY <1>1, StepReading, Invariant, PTL DEF Spec

\* A response makes as many tokens as it is said to.
LEMMA TokensOfResponse ==
  ASSUME Reading, IsResponse(Given, Len(Given))
  PROVE  Len(Inputs[input].tokens) = Rank(Given, Len(Given))
<1>1. Inputs[input].tokens = TokensOf(Given)
  BY TokensAssumption DEF Reading, Given, IsResponse
<1>2. Rank(Given, Len(Given)) \in Nat
  BY GivenIs, RankNext
<1> QED
  BY <1>1, <1>2 DEF TokensOf

(* jsmn_parse() and the checks of parse_swiftly_json() take a text exactly  *)
(* when it is a complete response that fits the pool: its brackets match,   *)
(* it holds anything, it makes no more tokens than the pool has, and the    *)
(* connection was not closed before its end.                                *)
THEOREM Succeeds == Spec => []SucceedsOnWhole
<1>1. Reading => SucceedsOnWhole
  <2> SUFFICES ASSUME Reading, Returned
               PROVE  result = 0 <=> /\ ~cut /\ Inputs[input].body.kind \in {"no_routes", "routes"}
                                     /\ Len(Inputs[input].tokens) <= Pool
    BY DEF SucceedsOnWhole
  <2>1. Inputs[input].body.kind \in {"no_routes", "routes"} <=> IsResponse(Given, Len(Given))
    BY BodiesAssumption DEF Reading, Given
  <2>2. IsResponse(Given, Len(Given)) => Len(Inputs[input].tokens) = Rank(Given, Len(Given))
    BY TokensOfResponse
  <2>3. result = 0 <=> Complete
    BY DEF Reading
  <2> QED
    BY <2>1, <2>2, <2>3 DEF Complete
<1> QED
  BY <1>1, ReadingInvariant, PTL

LEMMA Matching ==
  ASSUME Inv, Reading PROVE TokensMatchText
<1> SUFFICES ASSUME pc = "parsed", ret > 0, ~cut PROVE tokens = Inputs[input].tokens
  BY DEF TokensMatchText
<1> DEFINE s == Given
           n == Len(Given)
<1>1. s \in Seq(Lexemes) /\ n \in Nat /\ tokens \in Seq(TokenRecords) /\ input \in DOMAIN Inputs
  BY GivenIs DEF Inv, Tokenized, Reading
<1>2. ret \in Int
  BY PoolNat DEF Inv, Tokenized, PART
<1>3. Read(s, tokens, toksuper, n) /\ Depth(s, n) = 0
  BY <1>2 DEF Reading
<1>4. Balanced(s, n)
  BY <1>3 DEF Read, Sound, Balanced
<1>5. InOrder(s) /\ Inputs[input].tokens = TokensOf(s)
  BY <1>1, <1>4, TokensAssumption DEF Given
<1>6. Len(tokens) = Rank(s, n) /\ DOMAIN tokens = 1 .. Rank(s, n)
  BY <1>1, <1>3, TokensIn DEF Read, Describes
<1> HIDE DEF s
<1>7. ASSUME NEW k \in 1 .. Rank(s, n)
      PROVE  LET p == CHOOSE p \in Made(s, n) : Rank(s, p) = k
             IN  tokens[k] = [type |-> s[p].type, text |-> s[p].text, num |-> s[p].num,
                              size |-> Cardinality(Counted(s, p, n)), open |-> FALSE]
  <2> DEFINE p == CHOOSE p \in Made(s, n) : Rank(s, p) = k
  <2>1. \E q \in Made(s, n) : Rank(s, q) = k
    BY <1>3, <1>6 DEF Read, Describes
  <2>2. p \in Made(s, n) /\ Rank(s, p) = k
    BY <2>1
  <2> HIDE DEF p
  <2>3. Says(s, tokens[k], p, n)
    BY <1>3, <2>2 DEF Read, Describes
  <2>4. tokens[k].size = Cardinality(Counted(s, p, n))
    BY <1>3, <1>5, <2>2 DEF Read, Counting
  <2>5. ~tokens[k].open
    <3>1. Opens(tokens) = {}
      BY <1>1, <1>3, InnermostIs DEF Read
    <3> QED
      BY <1>6, <3>1 DEF Opens
  <2>6. tokens[k] \in TokenRecords
    BY <1>1, <1>6, TokensIn
  <2>7. tokens[k] = [type |-> tokens[k].type, text |-> tokens[k].text, num |-> tokens[k].num,
                     size |-> tokens[k].size, open |-> tokens[k].open]
    BY <2>6 DEF TokenRecords
  <2>8. tokens[k].open = FALSE
    BY <2>5, <2>6 DEF TokenRecords
  <2> QED
    BY <2>3, <2>4, <2>7, <2>8 DEF Says, p
<1>8. tokens = [k \in 1 .. Rank(s, n) |-> tokens[k]]
  BY <1>1, <1>6
<1>9. tokens = TokensOf(s)
  BY <1>7, <1>8 DEF TokensOf, s
<1> QED
  BY <1>5, <1>9

(* jsmn_parse() makes of a whole text the tokens it is made of: each of the *)
(* type and the content of its lexeme, and with the number of tokens that   *)
(* are directly in it, whatever its length and depth.                       *)
THEOREM TokensAreText == Spec => []TokensMatchText
BY Matching, Invariant, ReadingInvariant, PTL

-----------------------------------------------------------------------------
\* The loops inside the list of routes, and those inside a list of destinations.
RouteLoops == {"routes", "route", "dests", "dest", "preds", "pred"}
DestLoops  == {"dests", "dest", "preds", "pred"}

Limit(loop, max) == IF pc = loop THEN max + 1 ELSE max

\* A list is longer than its array at most while it is read, and what is read of
\* it are elements of the array: its end is reached only if it fits.
Room ==
  /\ pc \in RouteLoops => left["routes"] <= stop.size /\ Slot <= Limit("routes", MaxRoutes)
  /\ pc \in DestLoops => Dest <= Limit("dests", MaxDepartures)
  /\ pc \notin RouteLoops \cup {"astray"} => stop.size <= MaxRoutes
  /\ pc # "astray" => \A i \in 1 .. MaxRoutes :
                        (pc \in DestLoops /\ i = Slot) \/ stop.slots[i].size <= MaxDepartures

SizesFit ==
  stop.size <= MaxRoutes /\ \A i \in 1 .. MaxRoutes : stop.slots[i].size <= MaxDepartures

\* While they are walked, the tokens are those of the text; a text that is not
\* overlong has not made any list of the stop so.
Fitting ==
  /\ pc \notin {"idle", "scan", "parsed"} => tokens = Inputs[input].tokens
  /\ Room
  /\ ~Overlong(Inputs[input].tokens) => SizesFit

\* No step but the entry into a list writes a size.
SameSizes ==
  /\ stop'.size = stop.size
  /\ \A i \in 1 .. MaxRoutes : stop'.slots[i].size = stop.slots[i].size

\* The writes of a key that is kept, and of a destination that is entered.
Writes(i, j, text, num) ==
  {stop, [stop EXCEPT !.slots[i].id = text],
   [stop EXCEPT !.slots[i].dests[j].dir = text],
   [stop EXCEPT !.slots[i].dests[j].min = num]}

LEMMA SizesStay ==
  ASSUME stop \in Stops, NEW i, NEW j, NEW text, NEW num, stop' \in Writes(i, j, text, num)
  PROVE  SameSizes
<1>1. /\ DOMAIN stop = {"size", "slots"} /\ DOMAIN stop.slots = 1 .. MaxRoutes
      /\ \A k \in 1 .. MaxRoutes : DOMAIN stop.slots[k] = {"id", "size", "dests"}
  BY DEF Stops
<1>2. CASE stop' = stop
  BY <1>2 DEF SameSizes
<1>3. CASE stop' = [stop EXCEPT !.slots[i].id = text]
  BY <1>1, <1>3 DEF SameSizes
<1>4. CASE stop' = [stop EXCEPT !.slots[i].dests[j].dir = text]
  BY <1>1, <1>4 DEF SameSizes
<1>5. CASE stop' = [stop EXCEPT !.slots[i].dests[j].min = num]
  BY <1>1, <1>5 DEF SameSizes
<1> QED
  BY <1>2, <1>3, <1>4, <1>5 DEF Writes

\* The counters and the sizes are numbers, and the slot that is read is one.
LEMMA Numbers ==
  ASSUME Inv, Room
  PROVE  /\ \A l \in Loops : left[l] \in Int /\ left[l] >= 0
         /\ stop.size \in Int /\ MaxRoutes \in Int /\ MaxDepartures \in Int
         /\ MaxRoutes > 0 /\ MaxDepartures > 0
         /\ \A i \in 1 .. MaxRoutes : stop.slots[i].size \in Int
         /\ pc \in RouteLoops \ {"routes"} => Slot \in 1 .. MaxRoutes
<1>1. stop \in Stops /\ left \in [Loops -> 0 .. Pool] /\ Pool \in Nat
  BY AtToken, PoolNat
<1>2. \A l \in Loops : left[l] \in Int /\ left[l] >= 0
  BY <1>1
<1>3. stop.size \in Int /\ \A i \in 1 .. MaxRoutes : stop.slots[i].size \in Int
  <2>1. stop.size \in 0 .. Pool
    BY <1>1 DEF Stops
  <2>2. \A i \in 1 .. MaxRoutes : stop.slots[i].size \in 0 .. Pool
    BY <1>1 DEF Stops
  <2> QED
    BY <1>1, <2>1, <2>2
<1>4. MaxRoutes \in Int /\ MaxDepartures \in Int /\ MaxRoutes > 0 /\ MaxDepartures > 0
  BY RoutesAssumption, DeparturesAssumption
<1>5. ASSUME pc \in RouteLoops \ {"routes"} PROVE Slot \in 1 .. MaxRoutes
  <2>1. left["routes"] <= stop.size /\ Slot <= MaxRoutes
    BY <1>5 DEF Room, Limit
  <2>2. left["routes"] \in Int
    BY <1>2 DEF Loops, Lists
  <2> QED
    BY <1>3, <1>4, <2>1, <2>2 DEF Slot
<1> QED
  BY <1>2, <1>3, <1>4, <1>5

\* Outside the lists, where no size is written.
LEMMA ElsewhereRoom ==
  ASSUME Inv, Room, SameSizes, pc \notin RouteLoops \cup {"astray"}, pc' \notin RouteLoops \cup {"astray"}
  PROVE  Room'
<1>1. stop.size <= MaxRoutes /\ \A i \in 1 .. MaxRoutes : stop.slots[i].size <= MaxDepartures
  BY DEF Room, RouteLoops, DestLoops
<1>2. stop'.size <= MaxRoutes /\ \A i \in 1 .. MaxRoutes : stop'.slots[i].size <= MaxDepartures
  BY <1>1 DEF SameSizes
<1> QED
  BY <1>2 DEF Room, RouteLoops, DestLoops

\* Inside them, where neither list goes on.
LEMMA WithinRoom ==
  ASSUME Inv, Room, SameSizes, pc \in RouteLoops,
         left'["routes"] = left["routes"], left'["dests"] = left["dests"],
         pc' = pc \/ {pc, pc'} \subseteq {"dest", "preds", "pred"}
  PROVE  Room'
<1>1. Slot' = Slot
  BY DEF Slot, SameSizes
<1>2. pc \in RouteLoops \ {"routes"} => Dest' = Dest
  BY <1>1, Numbers DEF Dest, SameSizes
<1>3. pc' \in RouteLoops /\ (pc' \in DestLoops <=> pc \in DestLoops)
      /\ \A max : /\ Limit("routes", max)' = Limit("routes", max)
                  /\ Limit("dests", max)' = Limit("dests", max)
  BY DEF RouteLoops, DestLoops, Limit
<1>4. pc \in DestLoops => pc \in RouteLoops \ {"routes"}
  BY DEF RouteLoops, DestLoops
<1>5. left["routes"] <= stop.size /\ Slot <= Limit("routes", MaxRoutes)
      /\ (pc \in DestLoops => Dest <= Limit("dests", MaxDepartures))
      /\ \A i \in 1 .. MaxRoutes :
           (pc \in DestLoops /\ i = Slot) \/ stop.slots[i].size <= MaxDepartures
  BY DEF Room, RouteLoops
<1>6. left'["routes"] <= stop'.size /\ Slot' <= Limit("routes", MaxRoutes)'
  BY <1>1, <1>3, <1>5 DEF SameSizes
<1>7. pc' \in DestLoops => Dest' <= Limit("dests", MaxDepartures)'
  BY <1>2, <1>3, <1>4, <1>5
<1>8. \A i \in 1 .. MaxRoutes :
        (pc' \in DestLoops /\ i = Slot') \/ stop'.slots[i].size <= MaxDepartures
  BY <1>1, <1>3, <1>5 DEF SameSizes
<1> QED
  BY <1>3, <1>6, <1>7, <1>8 DEF Room

\* The next route is begun, or one is done.
LEMMA RouteRoom ==
  ASSUME Inv, Room, SameSizes,
         \/ pc = "routes" /\ pc' = "route" /\ left'["routes"] = left["routes"] /\ Slot <= MaxRoutes
         \/ pc = "route" /\ pc' = "routes" /\ left'["routes"] = left["routes"] - 1
  PROVE  Room'
<1>1. /\ left["routes"] \in Int /\ stop.size \in Int /\ MaxRoutes \in Int
      /\ left["routes"] <= stop.size /\ stop'.size = stop.size
      /\ Slot <= Limit("routes", MaxRoutes)
      /\ \A i \in 1 .. MaxRoutes : stop'.slots[i].size <= MaxDepartures
  BY Numbers DEF Room, RouteLoops, DestLoops, SameSizes, Loops, Lists
<1>2. left'["routes"] <= stop'.size /\ Slot' <= Limit("routes", MaxRoutes)'
  BY <1>1 DEF Slot, Limit
<1>3. pc' \in RouteLoops /\ pc' \notin DestLoops /\ pc' # "astray"
  BY DEF RouteLoops, DestLoops
<1> QED
  BY <1>1, <1>2, <1>3 DEF Room

\* The next destination is begun, or one is done.
LEMMA DestRoom ==
  ASSUME Inv, Room, SameSizes, left'["routes"] = left["routes"],
         \/ pc = "dests" /\ pc' = "dest" /\ left'["dests"] = left["dests"] /\ Dest <= MaxDepartures
         \/ pc = "dest" /\ pc' = "dests" /\ left'["dests"] = left["dests"] - 1
  PROVE  Room'
<1>1. /\ Slot \in 1 .. MaxRoutes /\ Slot' = Slot
      /\ left["dests"] \in Int /\ MaxDepartures \in Int
      /\ stop.slots[Slot].size \in Int /\ stop'.slots[Slot].size = stop.slots[Slot].size
      /\ left["routes"] <= stop.size /\ stop'.size = stop.size
      /\ Dest <= Limit("dests", MaxDepartures)
  <2>1. pc \in RouteLoops \ {"routes"} /\ pc \in DestLoops /\ {"routes", "dests"} \subseteq Loops
    BY DEF RouteLoops, DestLoops, Loops, Lists
  <2>2. Slot \in 1 .. MaxRoutes /\ stop.slots[Slot].size \in Int
        /\ left["dests"] \in Int /\ MaxDepartures \in Int
    BY <2>1, Numbers
  <2>3. Slot' = Slot
    BY DEF Slot, SameSizes
  <2> QED
    BY <2>1, <2>2, <2>3 DEF Room, SameSizes
<1>2. Dest' <= Limit("dests", MaxDepartures)'
  <2> DEFINE size == stop.slots[Slot].size
  <2>1. Dest = size - left["dests"] + 1 /\ Dest' = size - left'["dests"] + 1 /\ size \in Int
    BY <1>1 DEF Dest
  <2> HIDE DEF size
  <2> QED
    BY <1>1, <2>1 DEF Limit
<1>3. pc' \in RouteLoops /\ pc' \in DestLoops /\ pc' # "astray" /\ pc' # "routes" /\ pc \in DestLoops
      /\ pc # "astray"
  BY DEF RouteLoops, DestLoops
<1>4. Slot' <= Limit("routes", MaxRoutes)' /\ left'["routes"] <= stop'.size
  BY <1>1, <1>3 DEF Limit
<1>5. \A i \in 1 .. MaxRoutes : i = Slot' \/ stop'.slots[i].size <= MaxDepartures
  BY <1>1, <1>3 DEF Room, SameSizes
<1> QED
  BY <1>2, <1>3, <1>4, <1>5 DEF Room

\* The end of a list: all of it was read, so it fits.
LEMMA LeaveListRoom ==
  ASSUME Inv, Room, NEW l \in Lists, LeaveList(l) PROVE Room'
<1>0. pc = l /\ left[l] = 0 /\ pc' = Owner(l) /\ stop' = stop
      /\ left' = [left EXCEPT ![Owner(l)] = left[Owner(l)] - 1] /\ left \in [Loops -> 0 .. Pool]
  BY AtToken DEF LeaveList
<1>s. SameSizes
  BY <1>0 DEF SameSizes
<1>1. CASE l = "routes"
  <2>1. pc' = "data" /\ left["routes"] = 0 /\ pc = "routes"
    BY <1>0, <1>1 DEF Owner
  <2>2. Slot <= MaxRoutes + 1 /\ stop.size \in Int /\ MaxRoutes \in Int
        /\ \A i \in 1 .. MaxRoutes : stop.slots[i].size <= MaxDepartures
    BY <2>1, Numbers DEF Room, RouteLoops, DestLoops, Limit
  <2>3. stop.size <= MaxRoutes
    BY <2>1, <2>2 DEF Slot
  <2>4. pc' \notin RouteLoops /\ pc' \notin DestLoops
    BY <2>1 DEF RouteLoops, DestLoops
  <2> QED
    BY <1>0, <2>2, <2>3, <2>4 DEF Room
<1>2. CASE l = "dests"
  <2>1. pc' = "route" /\ pc = "dests" /\ left["dests"] = 0 /\ left'["routes"] = left["routes"]
    BY <1>0, <1>2 DEF Owner, Loops, Lists
  <2>2. pc \in RouteLoops \ {"routes"} /\ pc \in DestLoops /\ pc # "astray"
    BY <2>1 DEF RouteLoops, DestLoops
  <2>3. Slot \in 1 .. MaxRoutes /\ stop.slots[Slot].size \in Int /\ MaxDepartures \in Int
    BY <2>2, Numbers
  <2>4. left["routes"] <= stop.size /\ Slot <= MaxRoutes /\ Dest <= MaxDepartures + 1
        /\ \A i \in 1 .. MaxRoutes : i = Slot \/ stop.slots[i].size <= MaxDepartures
    BY <2>1, <2>2 DEF Room, Limit
  <2>5. stop.slots[Slot].size <= MaxDepartures
    <3> DEFINE size == stop.slots[Slot].size
    <3>1. size \in Int /\ size - 0 + 1 <= MaxDepartures + 1
      BY <2>1, <2>3, <2>4 DEF Dest
    <3> HIDE DEF size
    <3>2. size <= MaxDepartures
      BY <2>3, <3>1
    <3> QED
      BY <3>2 DEF size
  <2>6. Slot' = Slot
    BY <1>0, <2>1 DEF Slot
  <2>7. pc' \in RouteLoops /\ pc' \notin DestLoops /\ pc' # "routes"
    BY <2>1 DEF RouteLoops, DestLoops
  <2> QED
    BY <1>0, <2>1, <2>4, <2>5, <2>6, <2>7 DEF Room, Limit
<1>3. CASE l = "preds"
  <2>1. pc = "preds" /\ pc' = "dest" /\ left'["routes"] = left["routes"]
        /\ left'["dests"] = left["dests"]
    BY <1>0, <1>3 DEF Owner, Loops, Lists
  <2>2. pc \in RouteLoops /\ {pc, pc'} \subseteq {"dest", "preds", "pred"}
    BY <2>1 DEF RouteLoops
  <2> QED
    BY <1>s, <2>1, <2>2, WithinRoom
<1> QED
  BY <1>1, <1>2, <1>3 DEF Lists

LEMMA LeaveObjectRoom ==
  ASSUME Inv, Room, NEW o \in Objects \ {"data"}, LeaveObject(o) PROVE Room'
<1>0. pc = o /\ pc' = ListOf(o) /\ stop' = stop /\ left \in [Loops -> 0 .. Pool]
      /\ left' = [left EXCEPT ![ListOf(o)] = left[ListOf(o)] - 1]
  BY AtToken DEF LeaveObject
<1>s. SameSizes
  BY <1>0 DEF SameSizes
<1>1. CASE o = "route"
  <2>1. pc = "route" /\ pc' = "routes" /\ left'["routes"] = left["routes"] - 1
    BY <1>0, <1>1 DEF ListOf, Loops, Lists
  <2> QED
    BY <1>s, <2>1, RouteRoom
<1>2. CASE o = "dest"
  <2>1. pc = "dest" /\ pc' = "dests" /\ left'["dests"] = left["dests"] - 1
        /\ left'["routes"] = left["routes"]
    BY <1>0, <1>2 DEF ListOf, Loops, Lists
  <2> QED
    BY <1>s, <2>1, DestRoom
<1>3. CASE o = "pred"
  <2>1. pc = "pred" /\ pc' = "preds" /\ left'["routes"] = left["routes"]
        /\ left'["dests"] = left["dests"]
    BY <1>0, <1>3 DEF ListOf, Loops, Lists
  <2>2. pc \in RouteLoops /\ {pc, pc'} \subseteq {"dest", "preds", "pred"}
    BY <2>1 DEF RouteLoops
  <2> QED
    BY <1>s, <2>1, <2>2, WithinRoom
<1> QED
  BY <1>1, <1>2, <1>3 DEF Objects

LEMMA EnterObjectRoom ==
  ASSUME Inv, Room, SameSizes, NEW l \in Lists, EnterObject(l) PROVE Room'
<1>0. pc = l /\ Known /\ pc' = ElementOf(l) /\ left \in [Loops -> 0 .. Pool]
      /\ left' = [left EXCEPT ![ElementOf(l)] = Tok(t).size]
  BY AtToken DEF EnterObject
<1>1. CASE l = "routes"
  <2>1. pc = "routes" /\ pc' = "route" /\ left'["routes"] = left["routes"] /\ Slot <= MaxRoutes
    BY <1>0, <1>1 DEF ElementOf, Known, Loops, Lists
  <2> QED
    BY <2>1, RouteRoom
<1>2. CASE l = "dests"
  <2>1. pc = "dests" /\ pc' = "dest" /\ left'["dests"] = left["dests"] /\ Dest <= MaxDepartures
        /\ left'["routes"] = left["routes"]
    BY <1>0, <1>2 DEF ElementOf, Known, Loops, Lists
  <2> QED
    BY <2>1, DestRoom
<1>3. CASE l = "preds"
  <2>1. pc = "preds" /\ pc' = "pred" /\ left'["routes"] = left["routes"]
        /\ left'["dests"] = left["dests"]
    BY <1>0, <1>3 DEF ElementOf, Loops, Lists
  <2>2. pc \in RouteLoops /\ {pc, pc'} \subseteq {"dest", "preds", "pred"}
    BY <2>1 DEF RouteLoops
  <2> QED
    BY <2>1, <2>2, WithinRoom
<1> QED
  BY <1>1, <1>2, <1>3 DEF Lists

LEMMA EnterListRoom ==
  ASSUME Inv, Room, NEW o \in Objects \ {"pred"}, EnterList(o) PROVE Room'
<1> DEFINE n == Tok(t + 1).size
           slot == Slot
<1>0. pc = o /\ pc' = ListIn(o) /\ left' = [left EXCEPT ![ListIn(o)] = n]
      /\ left \in [Loops -> 0 .. Pool] /\ stop \in Stops /\ n \in 0 .. Pool /\ Pool \in Nat
  <2>1. Known /\ pc = o /\ jsoneq(t, ListKey(o))
    BY DEF EnterList
  <2>2. n \in 0 .. Pool
    BY <2>1, KnownTyped, UsedKeys
  <2> QED
    BY <2>2, AtToken, PoolNat DEF EnterList
<1>d. DOMAIN stop = {"size", "slots"} /\ DOMAIN stop.slots = 1 .. MaxRoutes
      /\ \A i \in 1 .. MaxRoutes : DOMAIN stop.slots[i] = {"id", "size", "dests"}
  BY <1>0 DEF Stops
<1>1. CASE o = "data"
  <2>1. pc = "data" /\ pc' = "routes" /\ left' = [left EXCEPT !["routes"] = n]
        /\ stop' = [stop EXCEPT !.size = n]
    BY <1>0, <1>1 DEF EnterList, ListIn
  <2> HIDE DEF n
  <2>2. left'["routes"] = n /\ stop'.size = n /\ stop'.slots = stop.slots
    BY <1>0, <1>d, <2>1 DEF Loops, Lists
  <2>3. \A i \in 1 .. MaxRoutes : stop.slots[i].size <= MaxDepartures
    BY <2>1 DEF Room, DestLoops
  <2>4. Slot' = 1 /\ n <= n /\ 1 <= MaxRoutes + 1
    <3>1. n \in Int /\ Slot' = n - n + 1 /\ MaxRoutes \in Int /\ MaxRoutes > 0
      BY <1>0, <2>2, Numbers DEF Slot
    <3> QED
      BY <3>1
  <2>5. pc' \in RouteLoops /\ pc' \notin DestLoops
    BY <2>1 DEF RouteLoops, DestLoops
  <2> QED
    BY <2>1, <2>2, <2>3, <2>4, <2>5 DEF Room, Limit
<1>2. CASE o = "route"
  <2>1. pc = "route" /\ pc' = "dests" /\ left' = [left EXCEPT !["dests"] = n]
        /\ stop' = [stop EXCEPT !.slots[slot].size = n]
    BY <1>0, <1>2 DEF EnterList, ListIn
  <2>2. pc \in RouteLoops \ {"routes"} /\ pc \notin DestLoops
    BY <2>1 DEF RouteLoops, DestLoops
  <2>3. slot \in 1 .. MaxRoutes
    BY <2>2, Numbers
  <2>4. left["routes"] <= stop.size /\ slot <= MaxRoutes
        /\ \A i \in 1 .. MaxRoutes : stop.slots[i].size <= MaxDepartures
    BY <2>1, <2>2 DEF Room, Limit
  <2>5. slot = stop.size - left["routes"] + 1
    BY DEF Slot
  <2> HIDE DEF n, slot
  <2>6. left'["routes"] = left["routes"] /\ left'["dests"] = n /\ stop'.size = stop.size
    BY <1>0, <1>d, <2>1 DEF Loops, Lists
  <2>7. \A i \in 1 .. MaxRoutes : stop'.slots[i].size = IF i = slot THEN n ELSE stop.slots[i].size
    BY <1>d, <2>1
  <2>8. Slot' = slot
    BY <2>5, <2>6 DEF Slot
  <2>9. Dest' <= MaxDepartures + 1
    <3>1. Dest' = n - n + 1
      BY <2>3, <2>6, <2>7, <2>8 DEF Dest
    <3> QED
      BY <1>0, <3>1, Numbers
  <2>10. pc' \in RouteLoops /\ pc' \in DestLoops /\ pc' # "routes"
    BY <2>1 DEF RouteLoops, DestLoops
  <2> QED
    BY <2>1, <2>4, <2>6, <2>7, <2>8, <2>9, <2>10 DEF Room, Limit
<1>3. CASE o = "dest"
  <2>1. pc = "dest" /\ pc' = "preds" /\ stop' = stop /\ left' = [left EXCEPT !["preds"] = n]
    BY <1>0, <1>3 DEF EnterList, ListIn
  <2> HIDE DEF n
  <2>2. left'["routes"] = left["routes"] /\ left'["dests"] = left["dests"]
    BY <1>0, <2>1 DEF Loops, Lists
  <2>3. SameSizes /\ pc \in RouteLoops /\ {pc, pc'} \subseteq {"dest", "preds", "pred"}
    BY <2>1 DEF SameSizes, RouteLoops
  <2> QED
    BY <2>2, <2>3, WithinRoom
<1> QED
  BY <1>1, <1>2, <1>3 DEF Objects

\* A key of an object, where neither list goes on.
LEMMA KeyRoom ==
  ASSUME Inv, Room, SameSizes, NEW o \in Objects, NEW n, pc = o, pc' = o,
         left' = [left EXCEPT ![o] = n]
  PROVE  Room'
<1>1. left'["routes"] = left["routes"] /\ left'["dests"] = left["dests"]
  BY AtToken DEF Objects, Loops, Lists
<1>2. CASE o = "data"
  BY <1>2, ElsewhereRoom DEF RouteLoops
<1>3. CASE o # "data"
  <2>1. pc \in RouteLoops
    BY <1>3 DEF RouteLoops, Objects
  <2> QED
    BY <1>1, <2>1, WithinRoom
<1> QED
  BY <1>2, <1>3

\* A step that writes no size.
LEMMA SizesFitStill ==
  ASSUME Fitting, SameSizes, UNCHANGED input
  PROVE  (~Overlong(Inputs[input].tokens) => SizesFit)'
BY DEF Fitting, SizesFit, SameSizes

LEMMA WalkFits ==
  ASSUME Fitting, pc \notin {"idle", "scan", "parsed"}, UNCHANGED <<tokens, input>>, SameSizes, Room'
  PROVE  Fitting'
BY SizesFitStill DEF Fitting

\* A key with a list that is too long makes the text overlong.
LEMMA ListLimited ==
  ASSUME Inv, Reading, Fitting, pc \in Objects, Known, NEW key \in Used[pc], jsoneq(t, key),
         HasList(pc), ~Overlong(Inputs[input].tokens)
  PROVE  /\ key = "predictionsData" => Tok(t + 1).size <= MaxRoutes
         /\ key = "destinations" => Tok(t + 1).size <= MaxDepartures
<1> DEFINE ts == Inputs[input].tokens
           k == t + 1
<1>1. tokens = ts /\ tokens \in Seq(TokenRecords) /\ t \in Nat
  BY DEF Inv, Tokenized, Ahead, Fitting, Objects
<1>2. t + 1 < Len(tokens) /\ Len(tokens) \in Nat
  <2>1. pc \in DOMAIN Used /\ \E used \in Used[pc] : jsoneq(t, used)
    BY UsedKeys
  <2> QED
    BY <1>1, <2>1, KnownTyped
<1>3. ts[k].type = "string" /\ ts[k].text = key /\ ts[k + 1].type = "array"
      /\ Tok(t + 1).size = ts[k + 1].size
  BY <1>1 DEF jsoneq, HasList, Tok
<1>4. k \in 1 .. Len(ts) - 1
  BY <1>1, <1>2
<1>5. ts[k + 1].size \in Int /\ MaxRoutes \in Int /\ MaxDepartures \in Int
  <2>1. k + 1 \in 1 .. Len(tokens)
    BY <1>1, <1>2
  <2>2. tokens[k + 1] \in TokenRecords
    BY <1>1, <2>1, ElementOfSeq
  <2> QED
    BY <1>1, <2>2, RoutesAssumption, DeparturesAssumption DEF TokenRecords
<1> HIDE DEF ts, k
<1>6. ~Overlong(ts)
  BY DEF ts
<1>7. /\ ts[k].text = "predictionsData" => ~(ts[k + 1].size > MaxRoutes)
      /\ ts[k].text = "destinations" => ~(ts[k + 1].size > MaxDepartures)
  BY <1>3, <1>4, <1>6 DEF Overlong
<1> QED
  BY <1>3, <1>5, <1>7

LEMMA EnterListFits ==
  ASSUME Inv, Reading, Fitting, NEW o \in Objects \ {"pred"}, EnterList(o)
  PROVE  Fitting'
<1> DEFINE n == Tok(t + 1).size
           slot == Slot
<1>1. pc = o /\ pc \in Objects /\ jsoneq(t, ListKey(o)) /\ HasList(pc) /\ pc' = ListIn(o)
      /\ UNCHANGED <<tokens, input>> /\ Known /\ ListKey(o) \in Used[pc]
  BY UsedKeys DEF EnterList, Scanned, HasList
<1>2. stop \in Stops
  BY AtToken
<1>3. DOMAIN stop = {"size", "slots"} /\ DOMAIN stop.slots = 1 .. MaxRoutes
      /\ \A i \in 1 .. MaxRoutes : DOMAIN stop.slots[i] = {"id", "size", "dests"}
  BY <1>2 DEF Stops
<1>4. ASSUME ~Overlong(Inputs[input].tokens) PROVE SizesFit'
  <2>0. SizesFit
    BY <1>4 DEF Fitting
  <2>1. CASE o = "data"
    <3>1. n <= MaxRoutes
      BY <1>1, <1>4, <2>1, ListLimited DEF ListKey
    <3>2. stop' = [stop EXCEPT !.size = n]
      BY <2>1 DEF EnterList
    <3> QED
      BY <1>3, <2>0, <3>1, <3>2 DEF SizesFit
  <2>2. CASE o = "route"
    <3>1. n <= MaxDepartures
      BY <1>1, <1>4, <2>2, ListLimited DEF ListKey
    <3>2. stop' = [stop EXCEPT !.slots[slot].size = n]
      BY <2>2 DEF EnterList
    <3> HIDE DEF n, slot
    <3>3. stop'.size = stop.size
      BY <1>3, <3>2
    <3>4. ASSUME NEW i \in 1 .. MaxRoutes PROVE stop'.slots[i].size <= MaxDepartures
      <4>1. stop'.slots[i].size = IF i = slot THEN n ELSE stop.slots[i].size
        BY <1>3, <3>2
      <4> QED
        BY <2>0, <3>1, <4>1 DEF SizesFit
    <3> QED
      BY <2>0, <3>3, <3>4 DEF SizesFit
  <2>3. CASE o = "dest"
    <3>1. stop' = stop
      BY <2>3 DEF EnterList
    <3> QED
      BY <2>0, <3>1 DEF SizesFit
  <2> QED
    BY <2>1, <2>2, <2>3 DEF Objects
<1>5. Room'
  BY EnterListRoom DEF Fitting
<1> QED
  BY <1>1, <1>4, <1>5 DEF Fitting, Objects

LEMMA PlainKeyFits ==
  ASSUME Inv, Fitting, NEW o \in Objects, PlainKey(o) PROVE Fitting'
<1> DEFINE slot == Slot
           dest == Dest
           text == Tok(t + 1).text
           num  == Tok(t + 1).num
<1>1. stop' \in Writes(slot, dest, text, num)
  BY DEF PlainKey, Kept, Writes
<1>2. stop \in Stops
  BY AtToken
<1> HIDE DEF slot, dest, text, num
<1>3. SameSizes
  BY <1>1, <1>2, SizesStay
<1>4. Room'
  <2>1. pc = o /\ pc' = o /\ left' = [left EXCEPT ![o] = left[o] - 1]
    BY DEF PlainKey
  <2> QED
    BY <1>3, <2>1, KeyRoom DEF Fitting
<1> QED
  BY <1>3, <1>4, WalkFits DEF PlainKey, Objects, Scanned

LEMMA EnterObjectFits ==
  ASSUME Inv, Fitting, NEW l \in Lists, EnterObject(l) PROVE Fitting'
<1> DEFINE slot == Slot
           dest == Dest
<1>1. stop' \in Writes(slot, dest, "", -1)
  BY DEF EnterObject, Writes
<1>2. stop \in Stops
  BY AtToken
<1> HIDE DEF slot, dest
<1>3. SameSizes
  BY <1>1, <1>2, SizesStay
<1>4. Room'
  BY <1>3, EnterObjectRoom DEF Fitting
<1> QED
  BY <1>3, <1>4, WalkFits DEF EnterObject, Lists, Scanned

LEMMA BootFits ==
  ASSUME pc = "idle", stop = StopAtBoot PROVE Fitting
<1>1. StopAtBoot.size = 0 /\ \A i \in 1 .. MaxRoutes : StopAtBoot.slots[i].size = 0
  BY DEF StopAtBoot
<1>2. 0 <= MaxRoutes /\ 0 <= MaxDepartures
  BY RoutesAssumption, DeparturesAssumption
<1>3. SizesFit
  BY <1>1, <1>2 DEF SizesFit
<1>4. Room
  BY <1>3 DEF Room, SizesFit, RouteLoops, DestLoops
<1> QED
  BY <1>3, <1>4 DEF Fitting

LEMMA RestartFits == ASSUME Restart PROVE Fitting'
<1>1. StopAtBoot.size = 0 /\ \A i \in 1 .. MaxRoutes : StopAtBoot.slots[i].size = 0
  BY DEF StopAtBoot
<1>2. 0 <= MaxRoutes /\ 0 <= MaxDepartures
  BY RoutesAssumption, DeparturesAssumption
<1>3. SizesFit'
  BY <1>1, <1>2 DEF SizesFit, Restart
<1>4. pc' = "idle"
  BY DEF Restart
<1>5. Room'
  BY <1>3, <1>4 DEF Room, SizesFit, RouteLoops, DestLoops
<1> QED
  BY <1>3, <1>4, <1>5 DEF Fitting

LEMMA StepFitting == Inv /\ Reading /\ Fitting /\ [Next]_vars => Fitting'
<1> SUFFICES ASSUME Inv, Reading, Fitting, [Next]_vars PROVE Fitting'
  OBVIOUS
<1>e. ASSUME UNCHANGED stop, pc \notin RouteLoops \cup {"astray"}, pc' \notin RouteLoops \cup {"astray"}
      PROVE  Room' /\ SizesFit'
  <2>1. SameSizes
    BY <1>e DEF SameSizes
  <2>2. Room'
    BY <1>e, <2>1, ElsewhereRoom DEF Fitting
  <2> QED
    BY <1>e, <2>2 DEF Room, SizesFit, DestLoops, RouteLoops
<1>1. CASE Call \/ Cut \/ Refuse \/ Finish
  <2>1. pc \in {"idle", "scan", "parsed", "root"} /\ pc' \in {"idle", "scan"} /\ stop' = stop
    BY <1>1 DEF Call, Cut, Scanning, Refuse, Finish, Return
  <2> QED
    BY <1>e, <2>1 DEF Fitting, RouteLoops
<1>2. CASE Scan
  <2>1. pc = "scan" /\ pc' \in {"scan", "parsed"} /\ stop' = stop
    BY <1>2 DEF Scan, JsmnStep, OpenContainer, Value, NoMemory, CloseContainer, Mismatch,
                Colon, Comma, Unreadable, EndOfText, Advance, EndWith, Scanning
  <2> QED
    BY <1>e, <2>1 DEF Fitting, RouteLoops
<1>3. CASE Start
  <2>1. pc = "parsed" /\ pc' = "root" /\ Failure = 0 /\ UNCHANGED <<tokens, input, stop>>
    BY <1>3 DEF Start
  <2>2. ~cut
    BY <2>1, Verdict DEF Complete
  <2>3. ret > 0
    BY <2>1 DEF Failure, Inv, Tokenized, PART
  <2>4. tokens = Inputs[input].tokens
    BY <2>1, <2>2, <2>3, Matching DEF TokensMatchText
  <2> QED
    BY <1>e, <2>1, <2>4 DEF Fitting, RouteLoops
<1>4. CASE RootKey \/ LeaveData
  <2>1. pc \in {"root", "data"} /\ pc' \in {"root", "data"} /\ UNCHANGED <<tokens, input, stop>>
    BY <1>4 DEF RootKey, LeaveData, Scanned
  <2> QED
    BY <1>e, <2>1 DEF Fitting, RouteLoops
<1>5. CASE \E o \in Objects : PlainKey(o)
  BY <1>5, PlainKeyFits
<1>6. CASE \E o \in Objects \ {"pred"} : EnterList(o)
  BY <1>6, EnterListFits
<1>7. CASE \E o \in Objects \ {"pred"} : BreakList(o)
  <2>1. PICK o \in Objects : pc = o /\ pc' = o /\ left' = [left EXCEPT ![o] = 0]
                             /\ UNCHANGED <<tokens, input, stop>>
    BY <1>7 DEF BreakList, Scanned
  <2>2. SameSizes
    BY <2>1 DEF SameSizes
  <2>3. Room'
    BY <2>1, <2>2, KeyRoom DEF Fitting
  <2> QED
    BY <2>1, <2>2, <2>3, WalkFits DEF Objects
<1>8. CASE \E o \in Objects \ {"data"} : LeaveObject(o)
  <2>1. pc \in Objects /\ UNCHANGED <<tokens, input, stop>>
    BY <1>8 DEF LeaveObject, Scanned
  <2>2. SameSizes
    BY <2>1 DEF SameSizes
  <2>3. Room'
    BY <1>8, LeaveObjectRoom DEF Fitting
  <2> QED
    BY <2>1, <2>2, <2>3, WalkFits DEF Objects
<1>9. CASE \E l \in Lists : EnterObject(l)
  BY <1>9, EnterObjectFits
<1>10. CASE \E l \in Lists : LeaveList(l)
  <2>1. pc \in Lists /\ UNCHANGED <<tokens, input, stop>>
    BY <1>10 DEF LeaveList, Scanned
  <2>2. SameSizes
    BY <2>1 DEF SameSizes
  <2>3. Room'
    BY <1>10, LeaveListRoom DEF Fitting
  <2> QED
    BY <2>1, <2>2, <2>3, WalkFits DEF Lists
<1>11. CASE UNCHANGED vars
  <2>1. UNCHANGED <<pc, tokens, input, stop, left>>
    BY <1>11 DEF vars, jsmnVars
  <2> QED
    BY <2>1 DEF Fitting, Room, SizesFit, Slot, Dest, Limit
<1>12. CASE Stray
  <2>1. pc \notin {"idle", "scan", "parsed"} /\ pc' = "astray" /\ UNCHANGED <<tokens, input, stop>>
    BY <1>12 DEF Stray, Looking, Scanned, Objects, Lists
  <2>2. SameSizes
    BY <2>1 DEF SameSizes
  <2>3. Room'
    BY <2>1 DEF Room, RouteLoops, DestLoops
  <2> QED
    BY <2>1, <2>2, <2>3, WalkFits
<1>13. CASE Restart
  BY <1>13, RestartFits
<1> QED
  BY <1>1, <1>2, <1>3, <1>4, <1>5, <1>6, <1>7, <1>8, <1>9, <1>10, <1>11, <1>12, <1>13 DEF Next, Parse

(* However often the stop is read anew, a text that lists no more routes    *)
(* and destinations than there is room for fills no more than that, even    *)
(* after longer texts: a call that returned has made no list too long.      *)
(* That none is sent, nothing in the code sees to.                          *)
THEOREM ListsFit == Spec => []FitsArrays
<1>1. Inv /\ Fitting => FitsArrays
  <2> SUFFICES ASSUME Inv, Fitting, ~Overlong(Inputs[input].tokens)
               PROVE  /\ SizesFit
                      /\ pc = "routes" /\ left[pc] > 0 => Slot <= MaxRoutes
                      /\ pc = "dests" /\ left[pc] > 0 => Dest <= MaxDepartures
    BY DEF FitsArrays, SizesFit
  <2>1. SizesFit /\ Room
    BY DEF Fitting
  <2>2. ASSUME pc = "routes", left[pc] > 0 PROVE Slot <= MaxRoutes
    <3>1. left["routes"] \in Int /\ stop.size \in Int /\ stop.size <= MaxRoutes /\ MaxRoutes \in Int
      BY <2>1, Numbers DEF SizesFit, Loops, Lists
    <3> QED
      BY <2>2, <3>1 DEF Slot
  <2>3. ASSUME pc = "dests", left[pc] > 0 PROVE Dest <= MaxDepartures
    <3> DEFINE size == stop.slots[Slot].size
    <3>1. pc \in RouteLoops \ {"routes"} /\ "dests" \in Loops
      BY <2>3 DEF RouteLoops, Loops, Lists
    <3>2. Slot \in 1 .. MaxRoutes /\ left["dests"] \in Int /\ MaxDepartures \in Int
      BY <2>1, <3>1, Numbers
    <3>3. size \in Int /\ size <= MaxDepartures /\ Dest = size - left["dests"] + 1
      BY <2>1, <3>2, Numbers DEF SizesFit, Dest
    <3> HIDE DEF size
    <3> QED
      BY <2>3, <3>2, <3>3
  <2> QED
    BY <2>1, <2>2, <2>3
<1>2. Init => Fitting
  BY BootFits DEF Init
<1> QED
  BY <1>1, <1>2, StepFitting, Invariant, ReadingInvariant, PTL DEF Spec
=============================================================================
