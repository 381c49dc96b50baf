---------------------------- MODULE ParseSwiftly ----------------------------
(***************************************************************************)
(* parse_swiftly_json() of app/src/json/parse_swiftly.c on the tokens of   *)
(* jsmn: one index t that five nested loops move over the token list.      *)
(* The loops alternate: the keys of an object, and the objects of the list *)
(* that one of those keys holds.  t points at a key in the loops over keys *)
(* and at an object in the loops over lists; on the way out of a list it   *)
(* is set back by a constant, on the way out of an object it moves on.     *)
(* No loop but the outermost compares t with the number of tokens, and     *)
(* none its element with its array: a walk that leaves either goes astray, *)
(* and what it does from there is not modelled.                            *)
(***************************************************************************)
EXTENDS Jsmn, JsonText, Response, Stop

CONSTANTS
  MaxDepartures,  \* CONFIG_ROUTE_MAX_DEPARTURES
  Inputs          \* a sequence of texts and what they say: [text, tokens, body, laidOut]

\* The token counts of the comments, and the pool they make.
PredictionsTokCount == 18
DestinationTokCount == 8
StopTokCount ==
  6 + MaxRoutes * (14 + MaxDepartures * (DestinationTokCount + PredictionsTokCount))

ASSUME DeparturesAssumption == MaxDepartures \in Nat \ {0}
ASSUME PoolIsStopTokCount   == Pool = StopTokCount
ASSUME InputsAssumption     == \A i \in DOMAIN Inputs : Inputs[i].text \in Seq(Lexemes)

\* A body that is readable and holds anything is a response; nothing less than
\* the whole of a text is one.
ASSUME BodiesAssumption ==
  \A i \in DOMAIN Inputs :
    /\ Inputs[i].body.kind \in {"no_routes", "routes"}
         <=> IsResponse(Inputs[i].text, Len(Inputs[i].text))
    /\ \A n \in 0 .. Len(Inputs[i].text) - 1 : ~IsResponse(Inputs[i].text, n)

\* What a text that can be tokenized is said to make are its tokens.
ASSUME TokensAssumption ==
  \A i \in DOMAIN Inputs :
    Balanced(Inputs[i].text, Len(Inputs[i].text)) =>
      InOrder(Inputs[i].text) /\ Inputs[i].tokens = TokensOf(Inputs[i].text)

\* More routes, or more destinations of a route, than the Stop has room for.
Overlong(ts) ==
  \E k \in 1 .. Len(ts) - 1 :
    /\ ts[k].type = "string" /\ ts[k + 1].type = "array"
    /\ \/ ts[k].text = "predictionsData" /\ ts[k + 1].size > MaxRoutes
       \/ ts[k].text = "destinations" /\ ts[k + 1].size > MaxDepartures

\* A text that is said to be laid out as expected is, has room in the Stop, and
\* says what it is said to.
ASSUME LayoutAssumption ==
  \A i \in DOMAIN Inputs :
    Inputs[i].laidOut =>
      IsAnswer(Inputs[i].tokens, Inputs[i].body) /\ ~Overlong(Inputs[i].tokens)

VARIABLES
  input,   \* history: which of the texts this is
  cut,     \* history: the text ends before its end
  t,       \* the token index, from 0
  left,    \* for each loop, how many rounds it has left
  stop,    \* the Stop: as in module Stop, with the destinations array apart
  result,  \* what the last call returned
  old      \* history: the stop at the call

vars == <<jsmnVars, input, cut, t, left, stop, result, old>>

-----------------------------------------------------------------------------
(* The loops: which list the key of an object leads to, and back.          *)

Objects == {"data", "route", "dest", "pred"}
Lists   == {"routes", "dests", "preds"}

ListKey(o)  == CASE o = "data"  -> "predictionsData"
                 [] o = "route" -> "destinations"
                 [] o = "dest"  -> "predictions"
ListIn(o)   == CASE o = "data" -> "routes" [] o = "route" -> "dests" [] o = "dest" -> "preds"
ElementOf(l) == CASE l = "routes" -> "route" [] l = "dests" -> "dest" [] l = "preds" -> "pred"
Owner(l)     == CASE l = "routes" -> "data" [] l = "dests" -> "route" [] l = "preds" -> "dest"
ListOf(o)    == CASE o = "route" -> "routes" [] o = "dest" -> "dests" [] o = "pred" -> "preds"

\* Seeded fault: the way out of the predictions is corrected as that of the
\* destinations is.
CorrectionShort(l) == IF l = "routes" THEN 0 ELSE 2

\* return t, return t - 2, return t - 3.
Correction(l) == CASE l = "routes" -> 0 [] l = "dests" -> 2 [] l = "preds" -> 3

Tok(i) == tokens[i + 1]

jsoneq(i, key) == Tok(i).type = "string" /\ Tok(i).text = key

-----------------------------------------------------------------------------
Slot == stop.size - left["routes"] + 1
Dest == stop.slots[Slot].size - left["dests"] + 1

NoDest    == [dir |-> "", min |-> 0]
StopAtBoot == [size  |-> 0,
               slots |-> [i \in 1 .. MaxRoutes |->
                            [id |-> None, size |-> 0,
                             dests |-> [j \in 1 .. MaxDepartures |-> NoDest]]]]

\* The stop as update_stop() reads it.
Seen(s) == [size  |-> s.size,
            slots |-> [i \in 1 .. MaxRoutes |->
                         [id |-> s.slots[i].id,
                          dests |-> SubSeq(s.slots[i].dests, 1, s.slots[i].size)]]]

NoRounds == [l \in Objects \cup Lists |-> 0]

Init ==
  /\ pc = "idle" /\ js = <<>> /\ tokens = <<>> /\ toksuper = 0 /\ ret = 0
  /\ input \in DOMAIN Inputs /\ cut = FALSE
  /\ t = 0 /\ left = NoRounds
  /\ stop = StopAtBoot /\ result = -1 /\ old = StopAtBoot

Call ==
  /\ pc = "idle" /\ pc' = "scan"
  /\ input' \in DOMAIN Inputs
  /\ Renewed(Inputs[input'].text)
  /\ cut' = FALSE /\ old' = stop
  /\ UNCHANGED <<t, left, stop, result>>

\* The connection was closed early: the text ends here, or inside this string.
Cut ==
  /\ Scanning /\ ~cut
  /\ cut' = TRUE
  /\ \/ js' = <<>>
     \/ /\ Lexeme.k = "value" /\ Lexeme.type = "string"
        /\ js' = <<[Lexeme EXCEPT !.k = "half"]>>
  /\ UNCHANGED <<pc, tokens, toksuper, ret, input, t, left, stop, result, old>>

Scan == JsmnStep /\ UNCHANGED <<input, cut, t, left, stop, result, old>>

\* eval_jsmn_return(), and the errors of parse_swiftly_json() before its loop.
Failure == CASE ret < 0 -> -ret
             [] ret = 0 -> 4
             [] ret = 1 -> 5
             [] ret > 1 -> IF Tok(0).type \in Containers THEN 0 ELSE 1

\* The locals go.
Return(r) ==
  /\ pc' = "idle" /\ result' = r
  /\ Renewed(<<>>) /\ t' = 0 /\ left' = NoRounds
  /\ UNCHANGED <<input, cut, stop, old>>

Refuse == pc = "parsed" /\ Failure # 0 /\ Return(Failure)

Start ==
  /\ pc = "parsed" /\ Failure = 0
  /\ pc' = "root"
  /\ t' = IF Tok(0).type = "array" THEN 2 ELSE 1
  /\ UNCHANGED <<js, tokens, toksuper, ret, input, cut, left, stop, result, old>>

\* The variables the loops leave alone.
Scanned == <<js, tokens, toksuper, ret, input, cut, result, old>>

\* A loop that is not done looks at the token at t: a key, or an object.
Looking == \/ pc = "root" /\ t < ret
           \/ pc \in Objects \cup Lists /\ left[pc] > 0

\* The keys whose values the code uses; those of others are at most logged.
Used == [o \in Objects \cup {"root"} |->
           CASE o = "root"  -> {"data"}
             [] o = "data"  -> {"predictionsData"}
             [] o = "route" -> {"routeId", "destinations"}
             [] o = "dest"  -> {"directionId", "predictions"}
             [] o = "pred"  -> {"min"}]

\* What this step looks at was allocated, and the element it begins is one of
\* its array.
Known ==
  /\ Looking /\ t < ret
  /\ pc \in DOMAIN Used /\ (\E key \in Used[pc] : jsoneq(t, key)) => t + 1 < ret
  /\ pc = "routes" => Slot <= MaxRoutes
  /\ pc = "dests"  => Dest <= MaxDepartures

\* Otherwise what the stack held decides, or the bytes behind the array are
\* written: the call may return or never return, with anything in the Stop.
Stray ==
  /\ Looking /\ ~Known
  /\ pc' = "astray"
  /\ UNCHANGED <<t, left, stop, Scanned>>

\* The only way back that is sure to lead here is a reset.
Restart ==
  /\ pc = "astray" /\ pc' = "idle"
  /\ Renewed(<<>>) /\ cut' = FALSE /\ t' = 0 /\ left' = NoRounds
  /\ stop' = StopAtBoot /\ result' = -1 /\ old' = StopAtBoot
  /\ UNCHANGED input

\* Seeded fault: an unknown key is not skipped.
RootKeyStuck ==
  /\ pc = "root" /\ Known
  /\ \/ /\ jsoneq(t, "data")
        /\ pc' = "data" /\ t' = t + 2
        /\ left' = [left EXCEPT !["data"] = Tok(t + 1).size]
     \/ ~jsoneq(t, "data") /\ UNCHANGED <<pc, left, t>>
  /\ UNCHANGED <<stop, Scanned>>

RootKey ==
  /\ pc = "root" /\ Known
  /\ \/ /\ jsoneq(t, "data")
        /\ pc' = "data"
        /\ left' = [left EXCEPT !["data"] = Tok(t + 1).size]
     \/ ~jsoneq(t, "data") /\ UNCHANGED <<pc, left>>
  /\ t' = t + 2
  /\ UNCHANGED <<stop, Scanned>>

LeaveData ==
  /\ pc = "data" /\ left["data"] = 0
  /\ pc' = "root" /\ t' = t + 1
  /\ UNCHANGED <<left, stop, Scanned>>

\* A key with a plain value; three of them are kept.
Kept(o) ==
  CASE o = "route" /\ jsoneq(t, "routeId") ->
         [stop EXCEPT !.slots[Slot].id = Tok(t + 1).text]
    [] o = "dest" /\ jsoneq(t, "directionId") ->
         [stop EXCEPT !.slots[Slot].dests[Dest].dir = Tok(t + 1).text]
    [] o = "pred" /\ jsoneq(t, "min") ->
         [stop EXCEPT !.slots[Slot].dests[Dest].min = Tok(t + 1).num]
    [] OTHER -> stop

PlainKey(o) ==
  /\ pc = o /\ Known
  /\ o # "pred" => ~jsoneq(t, ListKey(o))
  /\ stop' = Kept(o)
  /\ left' = [left EXCEPT ![o] = @ - 1]
  /\ t' = t + 2
  /\ UNCHANGED <<pc, Scanned>>

HasList(o) == Tok(t + 1).type = "array" /\ Tok(t + 1).size > 0

\* Seeded fault: the departures of a route are counted on top of those it had.
EnterListAdding(o) ==
  /\ pc = o /\ Known
  /\ jsoneq(t, ListKey(o)) /\ HasList(o)
  /\ pc' = ListIn(o)
  /\ left' = [left EXCEPT ![ListIn(o)] = Tok(t + 1).size]
  /\ stop' = CASE o = "data"  -> [stop EXCEPT !.size = Tok(t + 1).size]
               [] o = "route" -> [stop EXCEPT !.slots[Slot].size = @ + Tok(t + 1).size]
               [] o = "dest"  -> stop
  /\ t' = t + 2
  /\ UNCHANGED Scanned

\* The sizes are written before the elements are read.
EnterList(o) ==
  /\ pc = o /\ Known
  /\ jsoneq(t, ListKey(o)) /\ HasList(o)
  /\ pc' = ListIn(o)
  /\ left' = [left EXCEPT ![ListIn(o)] = Tok(t + 1).size]
  /\ stop' = CASE o = "data"  -> [stop EXCEPT !.size = Tok(t + 1).size]
               [] o = "route" -> [stop EXCEPT !.slots[Slot].size = Tok(t + 1).size]
               [] o = "dest"  -> stop
  /\ t' = t + 2
  /\ UNCHANGED Scanned

\* An empty list, or none: the loop breaks with t on the value.
BreakList(o) ==
  /\ pc = o /\ Known
  /\ jsoneq(t, ListKey(o)) /\ ~HasList(o)
  /\ left' = [left EXCEPT ![o] = 0]
  /\ t' = t + 1
  /\ UNCHANGED <<pc, stop, Scanned>>

EnterObject(l) ==
  /\ pc = l /\ Known
  /\ pc' = ElementOf(l)
  /\ left' = [left EXCEPT ![ElementOf(l)] = Tok(t).size]
  /\ stop' = IF l = "dests" THEN [stop EXCEPT !.slots[Slot].dests[Dest].min = -1] ELSE stop
  /\ t' = t + 1
  /\ UNCHANGED Scanned

LeaveObject(o) ==
  /\ pc = o /\ left[o] = 0
  /\ pc' = ListOf(o)
  /\ left' = [left EXCEPT ![ListOf(o)] = @ - 1]
  /\ t' = t + 1
  /\ UNCHANGED <<stop, Scanned>>

LeaveList(l) ==
  /\ pc = l /\ left[l] = 0
  /\ pc' = Owner(l)
  /\ left' = [left EXCEPT ![Owner(l)] = @ - 1]
  /\ t' = t - Correction(l) + 1
  /\ UNCHANGED <<stop, Scanned>>

Finish == pc = "root" /\ t >= ret /\ Return(0)

Parse == \/ Refuse \/ Start \/ RootKey \/ LeaveData \/ Finish \/ Stray
         \/ \E o \in Objects : PlainKey(o)
         \/ \E o \in Objects \ {"pred"} : EnterList(o) \/ BreakList(o)
         \/ \E o \in Objects \ {"data"} : LeaveObject(o)
         \/ \E l \in Lists : EnterObject(l) \/ LeaveList(l)

Next == Call \/ Cut \/ Scan \/ Parse \/ Restart

Spec == Init /\ [][Next]_vars

FairSpec == Spec /\ WF_vars(Scan) /\ WF_vars(Parse)

-----------------------------------------------------------------------------
Stops ==
  [size  : 0 .. Pool,
   slots : [1 .. MaxRoutes ->
              [id : Texts \cup {None}, size : 0 .. Pool,
               dests : [1 .. MaxDepartures -> [dir : Texts, min : Int]]]]]

TypeOK ==
  /\ pc \in {"idle", "scan", "parsed", "root", "astray"} \cup Objects \cup Lists
  /\ JsmnTypeOK
  /\ cut \in BOOLEAN
  /\ t \in Nat
  /\ \A l \in Objects \cup Lists : left[l] \in 0 .. Pool
  /\ stop \in Stops /\ old \in Stops
  /\ result \in -1 .. 5

Returned == pc = "idle" /\ result # -1

(* When the text is a whole, every token stands for the bracket or value it *)
(* came from and counts what is directly in it: the keys of an object, the  *)
(* elements of an array, the value of a key.                                *)
TokensMatchText == pc = "parsed" /\ ret > 0 /\ ~cut => tokens = Inputs[input].tokens

(* A text fills no more of the Stop than there is, whatever the calls       *)
(* before it have left there, unless it lists more routes or destinations   *)
(* itself.  The request limits neither, and nothing here checks them.       *)
FitsArrays ==
  ~Overlong(Inputs[input].tokens) =>
    /\ stop.size <= MaxRoutes
    /\ \A i \in 1 .. MaxRoutes : stop.slots[i].size <= MaxDepartures
    /\ pc = "routes" /\ left[pc] > 0 => Slot <= MaxRoutes
    /\ pc = "dests" /\ left[pc] > 0 => Dest <= MaxDepartures

(* A text that ends early is never taken for a whole: the call succeeds     *)
(* exactly on a complete text that is JSON, holds anything, and makes no    *)
(* more tokens than the pool has.                                           *)
SucceedsOnWhole ==
  Returned =>
    (result = 0 <=> /\ ~cut /\ Inputs[input].body.kind \in {"no_routes", "routes"}
                    /\ Len(Inputs[input].tokens) <= Pool)

\* The keys that the code names; it calls any other unexpected.
NamedKeys ==
  {"success", "route", "data", "agencyKey", "predictionsData",
   "routeShortName", "routeName", "routeId", "stopId", "stopName", "stopCode",
   "destinations", "directionId", "headsign", "predictions",
   "time", "sec", "min", "departure", "blockId", "delayed", "scheduleBased",
   "occupancyStatus", "vehicleId", "tripId"}

KeysOf(ts) == {k \in DOMAIN ts : ts[k].type = "string" /\ ts[k].size = 1}

\* No key but those, and in one object none twice.
NamedOnce(ts) ==
  \A k \in KeysOf(ts) :
    /\ ts[k].text \in NamedKeys
    /\ \A j \in KeysOf(ts) : (j < k /\ ts[j].text = ts[k].text) =>
                               \E m \in j .. k : ts[m].type = "object"

(* The pool holds every response within the two maxima whose keys are the   *)
(* ones the code names: "the number of maximum possible tokens we expect".  *)
PoolHoldsExpected ==
  (Returned /\ ~cut /\ Inputs[input].laidOut /\ NamedOnce(Inputs[input].tokens)) => result = 0

\* A call that fails leaves the stop as it was.
FailureKeepsStop == (Returned /\ result # 0) => stop = old

(* So does ReadsStop say; and one that succeeds leaves exactly what the     *)
(* body says - if its lists come last in their objects and a destination    *)
(* has at most one prediction, as t - 2 and t - 3 assume.                   *)
ReadsStop ==
  /\ FailureKeepsStop
  /\ (Returned /\ result = 0 /\ Inputs[input].laidOut) =>
       Seen(stop) = ParsedStop(Seen(old), Inputs[input].body)

(* The walk of a text that is laid out so never goes astray: what it looks   *)
(* at are tokens of this text, where the rest of the array on the stack      *)
(* holds what was there before, and what it writes to are elements.          *)
ReadsAllocated == Inputs[input].laidOut => pc # "astray"

(* The parser returns, whatever the text, or goes astray.                   *)
ParserReturns == pc # "idle" ~> pc \in {"idle", "astray"}
=============================================================================
