----------------------------- MODULE UpdateStop -----------------------------
(***************************************************************************)
(* update_stop() of app/src/update_stop.c and what it drives: the parsed   *)
(* stop that outlives a call, the power switch of each display box, the    *)
(* multiplexer and the LED memory behind it.  A response is what the        *)
(* parser makes of it (ParseSwiftly), at one prediction a destination.     *)
(***************************************************************************)
EXTENDS Stop, LedDisplay

CONSTANTS
  Ids, Dirs,  \* route ids and direction codes
  Boxes,      \* DISPLAY_BOXES, a sequence of [id, dir]: a box's position is its index
  Responses,  \* the bodies a request may bring
  Faults,     \* peripherals that may fail on a broken sign
  UintMax     \* the largest unsigned int

ASSUME BoxesAssumption  == Boxes \in Seq([id : Ids, dir : Dirs])
ASSUME FaultsAssumption == Faults \subseteq {"switch", "mux", "strip"}
ASSUME UintAssumption   == UintMax \in Nat /\ UintMax > 999

\* The minutes of a prediction: every int is among them; -1 stands for none.
Minute == -UintMax .. UintMax

\* Taken on trust of the server: neither the request nor the code limits its
\* lists, and the parser writes past the Stop when they are longer than it has
\* room for (ParseSwiftly).  Lists of destinations are taken to have room here.
ASSUME ResponsesAssumption ==
  \A body \in Responses :
    /\ body.kind \in {"unreadable", "no_data", "no_routes", "routes"}
    /\ body.kind = "routes" =>
         /\ body.routes \in Seq([id : Ids, dests : Seq([dir : Dirs, min : Minute])])
         /\ Len(body.routes) <= MaxRoutes

VARIABLES
  pc,        \* "wait" in main(), "parse", "pick" a departure, "write" it
  result,    \* what the last call returned; -1 since power-on
  response,  \* history: the body the current or last call got
  stop,      \* the static Stop: routes_size and predictions_data
  route,     \* route_num and departure_num of update_routes(), from 1
  dep,
  times,     \* times[6] of update_routes()
  lit,       \* the box's switch is on
  shown,     \* the picture its LEDs show when it is on
  port,      \* the multiplexer's active port
  broken     \* the peripherals that may fail: none, or Faults

vars == <<pc, result, response, stop, route, dep, times, lit, shown, port, broken>>

Positions == DOMAIN Boxes

\* (unsigned int)min
Unsigned(min) == IF min < 0 THEN UintMax + 1 + min ELSE min

\* What the LEDs held at power-on is not known.
Unwritten == {-1}

\* The first box of that route and direction; 0 stands for NULL.
get_display_address(id, dir) ==
  LET match == {p \in Positions : Boxes[p].id = id /\ Boxes[p].dir = dir}
  IN  IF match = {} THEN 0 ELSE CHOOSE p \in match : \A q \in match : p <= q

NoBody    == [kind |-> "unreadable"]

\* The departure update_routes() has reached, and the box it belongs to.
Departure == stop.slots[route].dests[dep]
Display   == get_display_address(stop.slots[route].id, Departure.dir)

RoutesLeft     == route <= stop.size
DeparturesLeft == RoutesLeft /\ dep <= Len(stop.slots[route].dests)

-----------------------------------------------------------------------------
Init ==
  /\ pc = "wait" /\ result = -1 /\ response = NoBody
  /\ stop = EmptyStop /\ route = 1 /\ dep = 1
  /\ times = [p \in Positions |-> 0]
  /\ lit = [p \in Positions |-> FALSE]
  /\ shown = [p \in Positions |-> Unwritten]
  /\ port \in Positions
  /\ broken \in {{}, Faults}

\* main() resets after a 1, the watchdog whenever it waits: statics start again,
\* every switch is configured inactive, the LEDs keep what they hold.
Restart ==
  /\ pc = "wait"
  /\ result' = -1 /\ response' = NoBody
  /\ stop' = EmptyStop
  /\ lit' = [p \in Positions |-> FALSE]
  /\ UNCHANGED <<pc, route, dep, times, shown, port, broken>>

Return(r) == pc' = "wait" /\ result' = r

\* http_request_stop_json(): a body, that of an earlier call included, or none.
Fetch ==
  /\ pc = "wait" /\ result # 1
  /\ \/ pc' = "parse" /\ response' \in Responses \cup {response} /\ UNCHANGED result
     \/ Return(1) /\ response' = NoBody
  /\ UNCHANGED <<stop, route, dep, times, lit, shown, port, broken>>

\* Seeded fault: the boxes are not switched off before the new numbers.
SweptNot == {lit}

\* display_off() of every box; its errors are ignored.
Swept == IF "switch" \in broken THEN {off \in [Positions -> BOOLEAN] :
                                         \A p \in Positions : off[p] => lit[p]}
                                ELSE {[p \in Positions |-> FALSE]}

\* An unreadable body and one without departures alike make update_stop() return 1.
ParseFails ==
  /\ pc = "parse"
  /\ response.kind \in {"unreadable", "no_data"}
  /\ Return(1)
  /\ UNCHANGED <<response, stop, route, dep, times, lit, shown, port, broken>>

\* parse_swiftly_json(), and update_routes() up to its loops.
Parse ==
  /\ pc = "parse"
  /\ response.kind \in {"no_routes", "routes"}
  /\ stop' = ParsedStop(stop, response)
  /\ route' = 1 /\ dep' = 1
  /\ times' = [p \in Positions |-> 0]
  /\ lit' \in Swept
  /\ pc' = "pick"
  /\ UNCHANGED <<result, response, shown, port, broken>>

NextRoute ==
  /\ pc = "pick" /\ RoutesLeft /\ ~DeparturesLeft
  /\ route' = route + 1 /\ dep' = 1
  /\ UNCHANGED <<pc, result, response, stop, times, lit, shown, port, broken>>

\* Seeded fault: the comparison is the wrong way round.
LowerInverted == times[Display] = 0 \/ Unsigned(Departure.min) > times[Display]

\* destination.min < times[...] compares an int with an unsigned int.
Lower == times[Display] = 0 \/ Unsigned(Departure.min) < times[Display]

\* A departure that is written: it has a prediction, a box, and a lower time.
Written == Departure.min # -1 /\ Display # 0 /\ Lower

Skip ==
  /\ pc = "pick" /\ DeparturesLeft /\ ~Written
  /\ dep' = dep + 1
  /\ UNCHANGED <<pc, result, response, stop, route, times, lit, shown, port, broken>>

\* Seeded fault: the error of display_on() is only logged.
SwitchOnLenient ==
  /\ pc = "pick" /\ DeparturesLeft /\ Written
  /\ times' = [times EXCEPT ![Display] = Unsigned(Departure.min)]
  /\ pc' = "write"
  /\ \/ lit' = [lit EXCEPT ![Display] = TRUE]
     \/ "switch" \in broken /\ UNCHANGED lit
  /\ UNCHANGED <<result, response, stop, route, dep, shown, port, broken>>

\* The box is lit, showing what its LEDs hold, and 10 ms pass.
SwitchOn ==
  /\ pc = "pick" /\ DeparturesLeft /\ Written
  /\ times' = [times EXCEPT ![Display] = Unsigned(Departure.min)]
  /\ \/ pc' = "write" /\ lit' = [lit EXCEPT ![Display] = TRUE] /\ UNCHANGED result
     \/ "switch" \in broken /\ Return(1) /\ UNCHANGED lit
  /\ UNCHANGED <<response, stop, route, dep, shown, port, broken>>

\* What the LEDs of a box may show after a number was sent: some transfers may
\* fail, which goes unnoticed.
Sent(num, before) ==
  IF "strip" \in broken
  THEN {before} \cup {Transfers(num)[i] : i \in DOMAIN Transfers(num)}
  ELSE {Picture(num)}

\* Seeded fault: a multiplexer that could not be set is only logged.
WriteNumberMisdirected ==
  /\ pc = "write" /\ pc' = "pick" /\ dep' = dep + 1
  /\ port' \in {Display} \cup (IF "mux" \in broken THEN {port} ELSE {})
  /\ \E seen \in Sent(times[Display], shown[port']) :
       shown' = [shown EXCEPT ![port'] = seen]
  /\ UNCHANGED <<result, response, stop, route, times, lit, broken>>

\* The rest of write_num_to_display(): port selected, then the digits.
WriteNumber ==
  /\ pc = "write"
  /\ \/ /\ pc' = "pick" /\ dep' = dep + 1
        /\ port' = Display
        /\ \E seen \in Sent(times[Display], shown[Display]) :
             shown' = [shown EXCEPT ![Display] = seen]
        /\ UNCHANGED result
     \/ /\ "mux" \in broken /\ Return(1)
        /\ UNCHANGED <<dep, shown, port>>
  /\ UNCHANGED <<response, stop, route, times, lit, broken>>

Finish ==
  /\ pc = "pick" /\ ~RoutesLeft
  /\ Return(0)
  /\ UNCHANGED <<response, stop, route, dep, times, lit, shown, port, broken>>

Next == \/ Restart \/ Fetch \/ ParseFails \/ Parse \/ NextRoute \/ Skip
        \/ SwitchOn \/ WriteNumber \/ Finish

Spec == Init /\ [][Next]_vars

-----------------------------------------------------------------------------
TypeOK ==
  /\ pc \in {"wait", "parse", "pick", "write"}
  /\ result \in {-1, 0, 1}
  /\ response \in Responses \cup {NoBody}
  /\ stop.size \in 0 .. MaxRoutes
  /\ \A i \in 1 .. MaxRoutes : stop.slots[i].id \in Ids \cup {None}
  /\ route \in 1 .. MaxRoutes + 1
  /\ dep \in Nat \ {0}
  /\ times \in [Positions -> 0 .. UintMax]
  /\ lit \in [Positions -> BOOLEAN]
  /\ \A p \in Positions : shown[p] = Unwritten \/ shown[p] \subseteq 0 .. StripNumPixels - 1
  /\ port \in Positions
  /\ broken \in {{}, Faults}

\* The minutes a list of slots has for a box.
MinutesFor(p, slots) ==
  UNION {{slots[i].dests[j].min :
            j \in {k \in DOMAIN slots[i].dests :
                     /\ slots[i].dests[k].min # -1
                     /\ get_display_address(slots[i].id, slots[i].dests[k].dir) = p}}
         : i \in DOMAIN slots}

Minutes(p) == MinutesFor(p, SubSeq(stop.slots, 1, stop.size))

Updated == pc = "wait" /\ result = 0

Healthy == broken = {}

(* A successful update of a sign in order leaves lit exactly the boxes the  *)
(* parsed stop has a prediction for, each showing in readable digits the    *)
(* lowest of its minutes, a negative one counting as the huge unsigned      *)
(* number it is - unless one of them is 0.                                  *)
ShowsLowest ==
  (Healthy /\ Updated) => \A p \in Positions :
    /\ lit[p] <=> Minutes(p) # {}
    /\ (lit[p] /\ 0 \notin Minutes(p)) =>
         \E m \in Minutes(p) : /\ shown[p] = Expected(Unsigned(m))
                               /\ \A n \in Minutes(p) : Unsigned(m) <= Unsigned(n)

(* While the boxes are rewritten a lit one shows the number this update     *)
(* chose for it, never what its LEDs remember - except the single box that  *)
(* was switched on and is about to be written.                              *)
LitIsCurrent ==
  (Healthy /\ pc \in {"pick", "write"}) =>
    \A p \in Positions : lit[p] =>
      \/ shown[p] = Expected(times[p])
      \/ pc = "write" /\ p = Display

(* Numbers of an earlier response are shown again only when the new one has *)
(* an empty list in it: of routes, or of a route's destinations.            *)
HasEmptyList(body) ==
  \/ body.kind = "no_routes"
  \/ \E i \in DOMAIN body.routes : body.routes[i].dests = <<>>

FromThisResponse ==
  (Healthy /\ Updated /\ ~HasEmptyList(response)) =>
    \A p \in Positions : lit[p] =>
      shown[p] \in {Expected(Unsigned(m)) : m \in MinutesFor(p, response.routes)}

(* Whichever peripherals fail, an update that reports success has switched  *)
(* on every box the parsed stop has a prediction for.                       *)
NamedAreLit == Updated => \A p \in Positions : Minutes(p) # {} => lit[p]

(* Whichever peripherals fail, the LEDs of a box change only while it is    *)
(* switched on, to the number this update chose for that box and no other's *)
(* - or to its lowest digits, when the transfer of the others failed.       *)
OnlyItsOwnDigits ==
  [][\A p \in Positions : shown'[p] # shown[p] =>
       lit[p] /\ shown'[p] \in ExpectedParts(times[p])]_vars

(* Whichever peripherals fail, the switches do what Board allows: dark      *)
(* before an update lights anything, on until the next one, off at restart. *)
Switches == INSTANCE Board WITH updating <- pc \in {"pick", "write"},
                                stuck    <- "switch" \in broken
ImplementsBoard == Switches!BoardSpec

-----------------------------------------------------------------------------
(* What a message says and the code does not do.                           *)

(* update_stop.c:66: a departure is passed over because the display "has    *)
(* lower time displayed"; so a lit box only ever changes to a lower time.   *)
LowerTimeStays ==
  [][SwitchOn => \A p \in Positions : lit[p] => times'[p] <= times[p]]_vars
=============================================================================
