-------------------------------- MODULE Stop --------------------------------
(***************************************************************************)
(* The Stop of app/src/stop.h as the two sides of it see it: the parser of *)
(* app/src/json, which writes it, and update_stop(), which shows it.       *)
(*                                                                         *)
(* A body is known by its kind: "unreadable" is no JSON, "no_data" holds   *)
(* next to nothing, "no_routes" is readable and lists no route, "routes"   *)
(* lists routes, each with its destinations and the minutes of each one's  *)
(* prediction, -1 for none.                                                *)
(***************************************************************************)
EXTENDS Integers, Sequences

CONSTANTS
  MaxRoutes,  \* CONFIG_STOP_MAX_ROUTES
  None        \* no route id

ASSUME RoutesAssumption == MaxRoutes \in Nat \ {0}

\* The static Stop at power-on.
EmptyStop == [size  |-> 0,
              slots |-> [i \in 1 .. MaxRoutes |-> [id |-> None, dests |-> <<>>]]]

\* Seeded fault: a slot's new destinations are added to those it had.
ParsedSlotAppending(old, new) == [id |-> new.id, dests |-> new.dests \o old.dests]

\* The route id of a slot is always written, its destinations only if the list
\* has any.
ParsedSlot(old, new) ==
  [id |-> new.id, dests |-> IF new.dests = <<>> THEN old.dests ELSE new.dests]

\* What parse_swiftly_json() makes of a stop: nothing at all of a body without
\* routes, and the slots beyond the listed routes keep what they held.
ParsedStop(old, body) ==
  IF body.kind = "no_routes" THEN old
  ELSE [size  |-> Len(body.routes),
        slots |-> [i \in 1 .. MaxRoutes |->
                     IF i <= Len(body.routes)
                     THEN ParsedSlot(old.slots[i], body.routes[i])
                     ELSE old.slots[i]]]
=============================================================================
