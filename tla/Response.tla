------------------------------ MODULE Response ------------------------------
(***************************************************************************)
(* What the tokens ts of a response say when it is laid out as             *)
(* parse_swiftly_json() expects: the lists come last in their objects, a   *)
(* destination has at most one prediction, and every other value is a      *)
(* single token.  It is the reference that the walk of ParseSwiftly is     *)
(* held to, and says where each object is; tokens are counted from 0.      *)
(***************************************************************************)
EXTENDS Integers, Sequences

At(ts, k) == ts[k + 1]

\* Past the keys of the object at k and their values.
After(ts, k) == k + 2 * At(ts, k).size + 1

Keys(ts, k) == {k + 2 * j - 1 : j \in 1 .. At(ts, k).size}

Named(ts, k, key) == {q \in Keys(ts, k) : At(ts, q).text = key}

IsObject(ts, k) ==
  /\ k \in 0 .. Len(ts) - 1
  /\ At(ts, k).type = "object" /\ After(ts, k) <= Len(ts)
  /\ \A q \in Keys(ts, k) : At(ts, q).type = "string"

\* This key is the last of the object, and there is only one of it.
EndsIn(ts, k, key) == IsObject(ts, k) /\ Named(ts, k, key) = {After(ts, k) - 2}

\* The value of the last key; the first element, if it is a list.
LastValue(ts, k)    == At(ts, After(ts, k) - 1)
FirstElement(ts, k) == After(ts, k)

HasText(ts, k, key, text) ==
  \E q \in Keys(ts, k) : Named(ts, k, key) = {q} /\ At(ts, q + 1).text = text

HasNum(ts, k, key, num) ==
  \E q \in Keys(ts, k) : Named(ts, k, key) = {q} /\ At(ts, q + 1).num = num

-----------------------------------------------------------------------------
IsPrediction(ts, k, min) == IsObject(ts, k) /\ HasNum(ts, k, "min", min)

IsDestination(ts, k, d) ==
  /\ EndsIn(ts, k, "predictions")
  /\ HasText(ts, k, "directionId", d.dir)
  /\ \/ LastValue(ts, k).size = 0 /\ d.min = -1
     \/ /\ LastValue(ts, k).type = "array" /\ LastValue(ts, k).size = 1
        /\ IsPrediction(ts, FirstElement(ts, k), d.min)

\* Where the destination at k ends.
DestinationEnd(ts, k) ==
  IF LastValue(ts, k).size = 0 THEN After(ts, k) ELSE After(ts, FirstElement(ts, k))

\* Where the destinations of the route at k are, the end of the last included.
DestinationsAt(ts, k) ==
  LET at[j \in Nat \ {0}] ==
        IF j = 1 THEN FirstElement(ts, k) ELSE DestinationEnd(ts, at[j - 1])
  IN  at

IsRoute(ts, k, r) ==
  LET at == DestinationsAt(ts, k)
      n  == Len(r.dests)
  IN  /\ EndsIn(ts, k, "destinations")
      /\ HasText(ts, k, "routeId", r.id)
      /\ LastValue(ts, k).size = n
      /\ n > 0 => LastValue(ts, k).type = "array"
      /\ at[1] = FirstElement(ts, k)
      /\ \A j \in 1 .. n : /\ IsDestination(ts, at[j], r.dests[j])
                           /\ at[j + 1] = DestinationEnd(ts, at[j])

RouteEnd(ts, k) == DestinationsAt(ts, k)[LastValue(ts, k).size + 1]

RoutesAt(ts, k) ==
  LET at[i \in Nat \ {0}] ==
        IF i = 1 THEN FirstElement(ts, k) ELSE RouteEnd(ts, at[i - 1])
  IN  at

Listings == Seq([id : STRING, dests : Seq([dir : STRING, min : Int])])

\* The data object at k, with which the text ends.
IsData(ts, k, body) ==
  \/ /\ body.kind = "no_routes"
     /\ IsObject(ts, k) /\ After(ts, k) = Len(ts)
     /\ \/ Named(ts, k, "predictionsData") = {}
        \/ EndsIn(ts, k, "predictionsData") /\ LastValue(ts, k).size = 0
  \/ LET at == RoutesAt(ts, k)
         n  == Len(body.routes)
     IN  /\ body.kind = "routes" /\ body.routes \in Listings /\ n > 0
         /\ EndsIn(ts, k, "predictionsData")
         /\ LastValue(ts, k).type = "array" /\ LastValue(ts, k).size = n
         /\ at[1] = FirstElement(ts, k) /\ at[n + 1] = Len(ts)
         /\ \A i \in 1 .. n : /\ IsRoute(ts, at[i], body.routes[i])
                              /\ at[i + 1] = RouteEnd(ts, at[i])

\* The root is an object, or an array of one.
RootAt(ts) == IF At(ts, 0).type = "array" THEN 1 ELSE 0

DataAt(ts) == After(ts, RootAt(ts)) - 1

IsAnswer(ts, body) ==
  \/ /\ body.kind = "no_routes"
     /\ IsObject(ts, RootAt(ts)) /\ After(ts, RootAt(ts)) = Len(ts)
     /\ Named(ts, RootAt(ts), "data") = {}
  \/ EndsIn(ts, RootAt(ts), "data") /\ IsData(ts, DataAt(ts), body)
=============================================================================
