-------------------------- MODULE HeaderScanProofs --------------------------
(* Machine-checked proofs about HeaderScan, for streams of every length.   *)
EXTENDS HeaderScan, SequenceTheorems, TLAPS

Types ==
  /\ pc \in {"scan", "done"}
  /\ state \in 0 .. 4
  /\ result \in Outcomes \cup {"none"}
  /\ eof \in BOOLEAN
  /\ seen \in Seq(Bytes)
  /\ pc = "scan" => state \in 0 .. 3 /\ result = "none" /\ ~eof

\* The last byte, and the ones before it.
Last(k) == seen[Len(seen) - k]

(* Each state of the automaton has seen that much of a blank line.         *)
HasSeen ==
  pc = "scan" =>
    /\ state = 1 => Len(seen) >= 1 /\ Last(0) = "CR"
    /\ state = 2 => Len(seen) >= 2 /\ Last(0) = "LF" /\ Last(1) = "CR"
    /\ state = 3 => /\ Len(seen) >= 3 /\ Last(0) = "CR" /\ Last(1) = "LF"
                    /\ Last(2) = "CR"

(* In a well formed response it overlooks none: after a CR it is waiting   *)
(* for an LF, and if that CR began a line for the last one.                *)
MissesNone ==
  (pc = "scan" /\ WellFormed) =>
    /\ (Len(seen) >= 1 /\ Last(0) = "CR") => state \in {1, 3}
    /\ (Len(seen) >= 1 /\ Last(0) = "LF") => state = 2
    /\ (Len(seen) >= 2 /\ Last(0) = "CR" /\ Last(1) = "LF") => state = 3

(* While there is no answer no blank line has gone by.                     *)
NoneGoneBy ==
  (WellFormed /\ ~eof /\ ~Answered) => \A i \in 1 .. Len(seen) - 3 : ~At(BlankLine, i)

Inv == Types /\ HasSeen /\ MissesNone /\ NoneGoneBy /\ StopsAtBlankLine /\ NoAnswerWithoutEnd

-----------------------------------------------------------------------------
(* Finding a blank line, byte by byte.                                     *)
LEMMA BlankLineAt ==
  ASSUME NEW s \in Seq(Bytes), NEW i \in 1 .. Len(s) - 3
  PROVE  SubSeq(s, i, i + 3) = BlankLine <=>
           s[i] = "CR" /\ s[i + 1] = "LF" /\ s[i + 2] = "CR" /\ s[i + 3] = "LF"
<1> DEFINE w == SubSeq(s, i, i + 3)
<1>1. /\ BlankLine \in Seq(Bytes) /\ Len(BlankLine) = 4
      /\ BlankLine[1] = "CR" /\ BlankLine[2] = "LF" /\ BlankLine[3] = "CR" /\ BlankLine[4] = "LF"
  BY DEF BlankLine, Bytes
<1>2. \A j \in i .. i + 3 : s[j] \in Bytes
  BY ElementOfSeq, LenProperties
<1>3. w \in Seq(Bytes) /\ Len(w) = 4 /\ \A k \in 1 .. 4 : w[k] = s[i + k - 1]
  BY <1>2, SubSeqProperties
<1>4. w[1] = s[i] /\ w[2] = s[i + 1] /\ w[3] = s[i + 2] /\ w[4] = s[i + 3]
  BY <1>3
<1>5. (\A k \in 1 .. 4 : w[k] = BlankLine[k]) => w = BlankLine
  BY <1>1, <1>3, SeqEqual
<1>6. (w[1] = "CR" /\ w[2] = "LF" /\ w[3] = "CR" /\ w[4] = "LF") => w = BlankLine
  <2>1. \A k \in 1 .. 4 : k = 1 \/ k = 2 \/ k = 3 \/ k = 4
    OBVIOUS
  <2> QED
    BY <1>1, <1>5, <2>1
<1> QED
  BY <1>1, <1>4, <1>6

LEMMA AlmostBlankLineAt ==
  ASSUME NEW s \in Seq(Bytes), NEW i \in 1 .. Len(s) - 2
  PROVE  SubSeq(s, i, i + 2) = AlmostBlankLine <=>
           s[i] = "CR" /\ s[i + 1] = "LF" /\ s[i + 2] = "CR"
<1> DEFINE w == SubSeq(s, i, i + 2)
<1>1. /\ AlmostBlankLine \in Seq(Bytes) /\ Len(AlmostBlankLine) = 3
      /\ AlmostBlankLine[1] = "CR" /\ AlmostBlankLine[2] = "LF" /\ AlmostBlankLine[3] = "CR"
  BY DEF AlmostBlankLine, Bytes
<1>2. \A j \in i .. i + 2 : s[j] \in Bytes
  BY ElementOfSeq, LenProperties
<1>3. w \in Seq(Bytes) /\ Len(w) = 3 /\ \A k \in 1 .. 3 : w[k] = s[i + k - 1]
  BY <1>2, SubSeqProperties
<1>4. w[1] = s[i] /\ w[2] = s[i + 1] /\ w[3] = s[i + 2]
  BY <1>3
<1>5. (\A k \in 1 .. 3 : w[k] = AlmostBlankLine[k]) => w = AlmostBlankLine
  BY <1>1, <1>3, SeqEqual
<1>6. (w[1] = "CR" /\ w[2] = "LF" /\ w[3] = "CR") => w = AlmostBlankLine
  <2>1. \A k \in 1 .. 3 : k = 1 \/ k = 2 \/ k = 3
    OBVIOUS
  <2> QED
    BY <1>1, <1>5, <2>1
<1> QED
  BY <1>1, <1>4, <1>6

(* A byte more leaves those before it where they are.                      *)
LEMMA Grown ==
  ASSUME NEW s \in Seq(Bytes), NEW byte \in Bytes
  PROVE  /\ Append(s, byte) \in Seq(Bytes)
         /\ Len(Append(s, byte)) = Len(s) + 1
         /\ Append(s, byte)[Len(s) + 1] = byte
         /\ \A i \in 1 .. Len(s) : Append(s, byte)[i] = s[i]
  OBVIOUS

\* A blank line begins at byte i of s.
BlankIn(s, i) == /\ i \in 1 .. Len(s) - 3
                 /\ s[i] = "CR" /\ s[i + 1] = "LF" /\ s[i + 2] = "CR" /\ s[i + 3] = "LF"

LEMMA AtBlankLine ==
  Types => \A i \in Int : At(BlankLine, i) <=> BlankIn(seen, i)
<1> SUFFICES ASSUME Types, NEW i \in Int PROVE At(BlankLine, i) <=> BlankIn(seen, i)
  OBVIOUS
<1>1. seen \in Seq(Bytes) /\ Len(seen) \in Nat
  BY LenProperties DEF Types
<1>2. Len(BlankLine) = 4 /\ Len(seen) - Len(BlankLine) + 1 = Len(seen) - 3
      /\ i + Len(BlankLine) - 1 = i + 3
  BY <1>1 DEF BlankLine
<1>3. At(BlankLine, i) <=> i \in 1 .. Len(seen) - 3 /\ SubSeq(seen, i, i + 3) = BlankLine
  BY <1>2 DEF At
<1> QED
  BY <1>1, <1>3, BlankLineAt DEF BlankIn

LEMMA AtAlmostBlankLine ==
  Types => \A i \in Int : At(AlmostBlankLine, i) <=>
             /\ i \in 1 .. Len(seen) - 2
             /\ seen[i] = "CR" /\ seen[i + 1] = "LF" /\ seen[i + 2] = "CR"
<1>1. Len(AlmostBlankLine) = 3
  BY DEF AlmostBlankLine
<1> QED
  BY <1>1, AlmostBlankLineAt DEF At, Types

LEMMA AtPrimed ==
  /\ (Types => \A i \in Int : At(BlankLine, i) <=> BlankIn(seen, i))'
  /\ (Types => \A i \in Int : At(AlmostBlankLine, i) <=>
             /\ i \in 1 .. Len(seen) - 2
             /\ seen[i] = "CR" /\ seen[i + 1] = "LF" /\ seen[i + 2] = "CR")'
BY AtBlankLine, AtAlmostBlankLine, PTL

(* The initial state satisfies the invariant.                              *)
LEMMA InitInv == Init => Inv
<1> SUFFICES ASSUME Init PROVE Inv
  OBVIOUS
<1>1. Types /\ Len(seen) = 0 /\ pc = "scan" /\ result = "none" /\ state = 0
  <2>1. Len(seen) = 0 /\ seen \in Seq(Bytes)
    BY EmptySeq DEF Init
  <2>2. eof = FALSE /\ eof \in BOOLEAN /\ ~eof
    BY DEF Init
  <2>3. result \in Outcomes \cup {"none"}
    BY DEF Init
  <2>4. state \in 0 .. 4 /\ state \in 0 .. 3
    BY DEF Init
  <2> QED
    BY <2>1, <2>2, <2>3, <2>4 DEF Init, Types
<1>2. HasSeen /\ MissesNone /\ NoneGoneBy
  BY <1>1 DEF HasSeen, MissesNone, NoneGoneBy
<1>3. StopsAtBlankLine /\ NoAnswerWithoutEnd
  BY <1>1, AtBlankLine DEF StopsAtBlankLine, NoAnswerWithoutEnd, Answered, Types
<1> QED
  BY <1>1, <1>2, <1>3 DEF Inv

-----------------------------------------------------------------------------
(* A byte arrives.                                                         *)
LEMMA ReceiveStep == Inv /\ Receive => Inv'
<1> SUFFICES ASSUME Inv, Receive PROVE Inv'
  OBVIOUS
<1> DEFINE n == Len(seen)
<1>0. PICK byte \in Bytes : seen' = Append(seen, byte) /\ state' = StepAfter(state, byte)
  BY DEF Receive
<1>1. /\ pc = "scan" /\ eof = FALSE /\ eof' = FALSE /\ result = "none" /\ state \in 0 .. 3
      /\ seen \in Seq(Bytes) /\ n \in Nat
  BY LenProperties DEF Receive, Inv, Types
<1>2. /\ seen' \in Seq(Bytes) /\ Len(seen') = n + 1 /\ seen'[n + 1] = byte
      /\ \A i \in 1 .. n : seen'[i] = seen[i]
  BY <1>0, <1>1, Grown
<1>3. /\ state' \in 0 .. 4
      /\ state' = 1 <=> state = 0 /\ byte = "CR"
      /\ state' = 2 <=> state = 1 /\ byte = "LF"
      /\ state' = 3 <=> state = 2 /\ byte = "CR"
      /\ state' = 4 <=> state = 3
  BY <1>0, <1>1 DEF StepAfter
<1>4. /\ state' = 4 => pc' = "done" /\ result' \in Outcomes
      /\ state' # 4 => pc' = "scan" /\ result' = "none"
  BY <1>1 DEF Receive, Ended
<1>5. Types'
  <2>1. pc' \in {"scan", "done"} /\ result' \in Outcomes \cup {"none"}
    BY <1>3, <1>4
  <2>2. eof' \in BOOLEAN /\ ~eof'
    BY <1>1
  <2> QED
    BY <1>2, <1>3, <1>4, <2>1, <2>2 DEF Types
<1>6. /\ state = 1 => n >= 1 /\ seen[n] = "CR"
      /\ state = 2 => n >= 2 /\ seen[n] = "LF" /\ seen[n - 1] = "CR"
      /\ state = 3 => n >= 3 /\ seen[n] = "CR" /\ seen[n - 1] = "LF" /\ seen[n - 2] = "CR"
  BY <1>1 DEF Inv, HasSeen, Last
<1>7. HasSeen'
  BY <1>1, <1>2, <1>3, <1>4, <1>6 DEF HasSeen, Last
<1>8. WellFormed' => WellFormed
  BY <1>1, <1>2 DEF WellFormed
<1>9. WellFormed' => (byte = "LF" <=> n >= 1 /\ seen[n] = "CR")
  <2> SUFFICES ASSUME WellFormed' PROVE byte = "LF" <=> n >= 1 /\ seen[n] = "CR"
    OBVIOUS
  <2>1. n + 1 \in DOMAIN seen' /\ \A i \in 1 .. n : i \in DOMAIN seen'
    BY <1>1, <1>2
  <2>2. seen'[n + 1] = "LF" => n + 1 > 1 /\ seen'[n] = "CR"
    BY <2>1, <1>1, (n + 1) - 1 = n DEF WellFormed
  <2>3. (n >= 1 /\ seen'[n] = "CR") => seen'[n + 1] = "LF"
    BY <2>1, <1>1, <1>2 DEF WellFormed
  <2> QED
    BY <2>2, <2>3, <1>1, <1>2
<1>10. WellFormed => /\ (n >= 1 /\ seen[n] = "CR") => state \in {1, 3}
                     /\ (n >= 1 /\ seen[n] = "LF") => state = 2
                     /\ (n >= 2 /\ seen[n] = "CR" /\ seen[n - 1] = "LF") => state = 3
  BY <1>1 DEF Inv, MissesNone, Last
<1>11. MissesNone'
  <2> SUFFICES ASSUME pc' = "scan", WellFormed'
               PROVE  /\ byte = "CR" => state' \in {1, 3}
                      /\ byte = "LF" => state' = 2
                      /\ (n >= 1 /\ byte = "CR" /\ seen[n] = "LF") => state' = 3
    BY <1>1, <1>2 DEF MissesNone, Last
  <2>1. state # 3
    BY <1>3, <1>4
  <2> QED
    BY <2>1, <1>1, <1>3, <1>6, <1>8, <1>9, <1>10
<1>12. \A i \in Int : At(BlankLine, i)' <=> BlankIn(seen', i)
  BY <1>5, AtPrimed
<1>13. \A i \in Int : i < n - 2 => (BlankIn(seen', i) <=> BlankIn(seen, i))
  BY <1>1, <1>2 DEF BlankIn
<1>14. WellFormed => \A i \in Int : ~BlankIn(seen, i)
  BY <1>1, AtBlankLine DEF Inv, NoneGoneBy, Answered, BlankIn
<1>15. WellFormed' => (state = 3 <=> BlankIn(seen', n - 2))
  BY <1>1, <1>2, <1>6, <1>8, <1>9, <1>10 DEF BlankIn
<1>16. WellFormed' => \A i \in Int : BlankIn(seen', i) <=> i = n - 2 /\ state' = 4
  <2> SUFFICES ASSUME WellFormed', NEW i \in Int
               PROVE  BlankIn(seen', i) <=> i = n - 2 /\ state' = 4
    OBVIOUS
  <2>1. CASE i < n - 2
    BY <2>1, <1>1, <1>8, <1>13, <1>14
  <2>2. CASE i = n - 2
    BY <2>2, <1>3, <1>15
  <2>3. CASE i > n - 2
    BY <2>3, <1>1, <1>2 DEF BlankIn
  <2> QED
    BY <2>1, <2>2, <2>3, <1>1
<1>17. Answered' <=> state' = 4
  BY <1>4 DEF Answered, Outcomes
<1>18. NoneGoneBy' /\ StopsAtBlankLine'
  BY <1>1, <1>2, <1>12, <1>16, <1>17 DEF NoneGoneBy, StopsAtBlankLine
<1>19. NoAnswerWithoutEnd'
  <2> SUFFICES ASSUME state' = 4
               PROVE  \E i \in 1 .. n + 1 : At(AlmostBlankLine, i)' /\ i + 2 >= n
    BY <1>1, <1>2, <1>17 DEF NoAnswerWithoutEnd
  <2>1. /\ n >= 3 /\ n - 2 \in 1 .. n - 1
        /\ seen'[n - 2] = "CR" /\ seen'[n - 1] = "LF" /\ seen'[n] = "CR"
    BY <1>1, <1>2, <1>3, <1>6
  <2>2. PICK i \in Int : i = n - 2
    BY <1>1
  <2>3. /\ i + 1 = n - 1 /\ i + 2 = n /\ i \in 1 .. Len(seen') - 2
        /\ i \in 1 .. n + 1 /\ i + 2 >= n
    BY <2>1, <2>2, <1>1, <1>2
  <2>4. At(AlmostBlankLine, i)'
    BY <2>1, <2>2, <2>3, <1>5, AtPrimed
  <2> QED
    BY <2>3, <2>4
<1> QED
  BY <1>5, <1>7, <1>11, <1>18, <1>19 DEF Inv

(* The stream ends, or fails: no byte is added, and the automaton reaches   *)
(* its end only from its last state.                                       *)
LEMMA EndStep == Inv /\ (EndOfStream \/ ReceiveFails) => Inv'
<1> SUFFICES ASSUME Inv, EndOfStream \/ ReceiveFails PROVE Inv'
  OBVIOUS
<1>1. /\ pc = "scan" /\ eof = FALSE /\ result = "none" /\ state \in 0 .. 3
      /\ seen \in Seq(Bytes) /\ Len(seen) \in Nat /\ seen' = seen
  BY LenProperties DEF EndOfStream, ReceiveFails, Inv, Types
<1>2. /\ pc' = "done" /\ state' \in 0 .. 4 /\ result' \in Outcomes \cup {"none"}
      /\ eof' \in BOOLEAN
      /\ result' # "none" => state = 3 /\ eof' = TRUE
  <2>1. CASE ReceiveFails
    <3>1. eof' \in BOOLEAN
      BY <2>1, <1>1 DEF ReceiveFails
    <3> QED
      BY <2>1, <3>1, <1>1 DEF ReceiveFails
  <2>2. CASE EndOfStream
    <3>1. PICK stale \in Bytes : state' = StepAfter(state, stale)
      BY <2>2 DEF EndOfStream
    <3>2. state' \in 0 .. 4 /\ (state' = 4 <=> state = 3)
      BY <3>1, <1>1 DEF StepAfter
    <3>3. eof' = TRUE /\ eof' \in BOOLEAN
      BY <2>2 DEF EndOfStream
    <3> QED
      BY <2>2, <3>2, <3>3 DEF EndOfStream, Ended
  <2> QED
    BY <2>1, <2>2
<1>3. Types' /\ HasSeen' /\ MissesNone'
  BY <1>1, <1>2 DEF Types, HasSeen, MissesNone
<1>4. (WellFormed' <=> WellFormed) /\ \A i \in Int : At(BlankLine, i)' <=> At(BlankLine, i)
  BY <1>1 DEF WellFormed, At
<1>5. WellFormed => \A i \in 1 .. Len(seen) - 3 : ~At(BlankLine, i)
  BY <1>1 DEF Inv, NoneGoneBy, Answered
<1>6. NoneGoneBy' /\ StopsAtBlankLine'
  BY <1>1, <1>2, <1>4, <1>5 DEF NoneGoneBy, StopsAtBlankLine, Answered
<1>7. NoAnswerWithoutEnd'
  <2> SUFFICES ASSUME state = 3
               PROVE  \E i \in 1 .. Len(seen) : At(AlmostBlankLine, i) /\ i + 2 = Len(seen)
    BY <1>1, <1>2 DEF NoAnswerWithoutEnd, Answered, At
  <2>1. /\ Len(seen) >= 3 /\ Last(0) = "CR" /\ Last(1) = "LF" /\ Last(2) = "CR"
    BY <1>1 DEF Inv, HasSeen
  <2>2. At(AlmostBlankLine, Len(seen) - 2)
    BY <2>1, <1>1, AtAlmostBlankLine DEF Inv, Last
  <2> QED
    BY <2>1, <2>2, <1>1
<1> QED
  BY <1>3, <1>6, <1>7 DEF Inv

(* The next response starts from nothing.                                  *)
LEMMA AgainStep == Again => Inv'
<1> SUFFICES ASSUME Again PROVE Inv'
  OBVIOUS
<1>1. Types' /\ Len(seen') = 0 /\ pc' = "scan" /\ result' = "none" /\ state' = 0
  <2>1. Len(seen') = 0 /\ seen' \in Seq(Bytes)
    BY EmptySeq DEF Again
  <2>2. eof' \in BOOLEAN /\ ~eof'
    BY DEF Again
  <2>3. result' \in Outcomes \cup {"none"} /\ state' \in 0 .. 4 /\ state' \in 0 .. 3
    BY DEF Again
  <2> QED
    BY <2>1, <2>2, <2>3 DEF Again, Types
<1>2. HasSeen' /\ MissesNone' /\ NoneGoneBy'
  BY <1>1 DEF HasSeen, MissesNone, NoneGoneBy
<1>3. StopsAtBlankLine' /\ NoAnswerWithoutEnd'
  BY <1>1, AtPrimed DEF StopsAtBlankLine, NoAnswerWithoutEnd, Answered, Types
<1> QED
  BY <1>1, <1>2, <1>3 DEF Inv

-----------------------------------------------------------------------------
(* The inductive invariant holds in every behaviour.                       *)
THEOREM Invariant == Spec => []Inv
<1>1. Inv /\ UNCHANGED vars => Inv'
  BY DEF vars, Inv, Types, HasSeen, MissesNone, NoneGoneBy, StopsAtBlankLine,
         NoAnswerWithoutEnd, WellFormed, Answered, At, Last
<1>2. Inv /\ [Next]_vars => Inv'
  BY <1>1, ReceiveStep, EndStep, AgainStep DEF Next
<1> QED
  BY InitInv, <1>2, PTL DEF Spec

(* Of a well formed response exactly the headers and their blank line are  *)
(* taken, however long they are.                                           *)
THEOREM HeadersEndAtBlankLine == Spec => []StopsAtBlankLine
<1>1. Inv => StopsAtBlankLine
  BY DEF Inv
<1> QED
  BY Invariant, <1>1, PTL

(* No stream makes an answer of headers that lack more of their blank line  *)
(* than its last byte.                                                     *)
THEOREM AnswersHaveEnd == Spec => []NoAnswerWithoutEnd
<1>1. Inv => NoAnswerWithoutEnd
  BY DEF Inv
<1> QED
  BY Invariant, <1>1, PTL
=============================================================================
