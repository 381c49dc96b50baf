----------------------------- MODULE HeaderScan -----------------------------
(***************************************************************************)
(* parse_headers() and the head of parse_response() in                     *)
(* app/src/net/custom_http_client.c: the response is received byte by byte *)
(* over the request it answers, and an automaton of four states looks for  *)
(* the blank line that ends the headers.  A byte is "CR", "LF" or "other". *)
(***************************************************************************)
EXTENDS Integers, Sequences

CONSTANT MaxBytes  \* a bound on the bytes of a response's headers

ASSUME BytesAssumption == MaxBytes \in Nat

VARIABLES
  pc,      \* "scan", or "done" with a result
  state,   \* state of parse_headers()
  result,  \* headers_size > 0 as "headers", -2 to -5 by name, or -1 as "none"
  eof,     \* history: the stream has ended
  seen     \* history: the bytes received

vars == <<pc, state, result, eof, seen>>

Bytes == {"CR", "LF", "other"}

\* parse_status(): what the class of the status makes of the answer.  One that
\* is informational counts as a success.
Outcomes == {"headers", "redirect", "client_error", "server_error", "no_status"}

Init == pc = "scan" /\ state = 0 /\ result = "none" /\ eof = FALSE /\ seen = <<>>

\* Seeded fault: any other byte leaves the automaton where it was.
StepAfterSticky(s, byte) ==
  CASE s \in {0, 2} /\ byte = "CR" -> s + 1
    [] s = 1 /\ byte = "LF" -> 2
    [] s = 3 -> 4
    [] OTHER -> s

\* The automaton; 4 stands for the break out of the loop.
StepAfter(s, byte) ==
  CASE s \in {0, 2} /\ byte = "CR" -> s + 1
    [] s = 1 /\ byte = "LF" -> 2
    [] s = 3 -> 4
    [] OTHER -> 0

Ended == pc' = "done" /\ result' \in Outcomes

\* A byte arrives, for which there is room: the code compares nothing with
\* headers_buf_size, and headers longer than the buffer are not modelled.
Receive ==
  /\ pc = "scan" /\ Len(seen) < MaxBytes
  /\ \E byte \in Bytes :
       /\ seen' = Append(seen, byte)
       /\ state' = StepAfter(state, byte)
  /\ IF state' = 4 THEN Ended ELSE UNCHANGED <<pc, result>>
  /\ UNCHANGED eof

\* zsock_recv() returns 0: the automaton looks at a byte of the request.
EndOfStream ==
  /\ pc = "scan"
  /\ eof' = TRUE
  /\ \E stale \in Bytes : state' = StepAfter(state, stale)
  /\ IF state' = 4 THEN Ended ELSE pc' = "done" /\ result' = "none"
  /\ UNCHANGED seen

ReceiveFails ==
  /\ pc = "scan"
  /\ pc' = "done" /\ result' = "none"
  /\ UNCHANGED <<state, eof, seen>>

\* The next response.
Again ==
  /\ pc = "done"
  /\ pc' = "scan" /\ state' = 0 /\ result' = "none" /\ eof' = FALSE /\ seen' = <<>>

Next == Receive \/ EndOfStream \/ ReceiveFails \/ Again

Spec == Init /\ [][Next]_vars

-----------------------------------------------------------------------------
\* Every line of what was received ends in CR LF, and only lines do.
WellFormed ==
  /\ \A i \in DOMAIN seen : seen[i] = "CR" /\ i < Len(seen) => seen[i + 1] = "LF"
  /\ \A i \in DOMAIN seen : seen[i] = "LF" => i > 1 /\ seen[i - 1] = "CR"

At(bytes, i) == /\ i \in 1 .. Len(seen) - Len(bytes) + 1
                /\ SubSeq(seen, i, i + Len(bytes) - 1) = bytes

BlankLine == <<"CR", "LF", "CR", "LF">>
AlmostBlankLine == <<"CR", "LF", "CR">>

Answered == result # "none"

(* Of a well formed response the headers are read to the last byte of the   *)
(* first blank line and not a byte further: none of the body is lost, none  *)
(* of the headers taken for it - unless the stream ends within that line.   *)
StopsAtBlankLine ==
  (WellFormed /\ ~eof) =>
    /\ Answered => At(BlankLine, Len(seen) - 3)
    /\ \A i \in 1 .. Len(seen) - 3 : At(BlankLine, i) => Answered /\ i = Len(seen) - 3

(* No stream, however it ends, makes an answer of headers without their     *)
(* blank line: at most its last byte is missing or is another.  The byte of *)
(* the request the automaton looks at when the stream ends never completes  *)
(* more than that.                                                          *)
NoAnswerWithoutEnd ==
  Answered => \E i \in 1 .. Len(seen) : /\ At(AlmostBlankLine, i)
                                        /\ i + 2 >= Len(seen) - 1
                                        /\ eof => i + 2 = Len(seen)
=============================================================================
