----------------------------- MODULE StopFetch -----------------------------
(***************************************************************************)
(* What http_request_stop_json() is worth to its caller, update_stop():    *)
(* between a call and its return the body buffer is not to be read; a      *)
(* failure says nothing of it; a success leaves in it the body of an       *)
(* answer or, when no server answered, what was there before the call.     *)
(***************************************************************************)
VARIABLES
  busy,    \* between the call and the return
  result,  \* what the last call returned: "none" since power-on, "ok", "failure"
  body,    \* what the buffer holds, seen from the current or last call
  lteSem   \* lte_connected_sem

fetchVars == <<busy, result, body, lteSem>>

\* Received in this call, whole or cut short; left by an earlier one; written
\* over in part; zeroed at power-on.
Bodies == {"fresh", "cut", "old", "torn", "empty"}

\* The buffer's content as a new call finds it.
Aged(b) == IF b = "empty" THEN "empty" ELSE "old"

Init == busy = FALSE /\ result = "none" /\ body = "empty" /\ lteSem = 1

Call ==
  /\ ~busy /\ lteSem = 1
  /\ busy' = TRUE /\ lteSem' = 0
  /\ body' = Aged(body)
  /\ UNCHANGED result

Receive ==
  /\ busy
  /\ body' \in Bodies
  /\ UNCHANGED <<busy, result, lteSem>>

Return ==
  /\ busy
  /\ busy' = FALSE /\ lteSem' = 1
  /\ \/ result' = "ok" /\ body \in Bodies \ {"torn"}
     \/ result' = "failure"
  /\ UNCHANGED body

\* A reset of the board: statics and semaphores are initialised again.
Restart ==
  /\ busy' = FALSE /\ result' = "none" /\ body' = "empty" /\ lteSem' = 1

Next == Call \/ Receive \/ Return \/ Restart

Spec == Init /\ [][Next]_fetchVars
=============================================================================
