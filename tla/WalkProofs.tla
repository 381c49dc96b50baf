----------------------------- MODULE WalkProofs -----------------------------
(***************************************************************************)
(* Proofs about the walk of ParseSwiftly over the tokens of every response *)
(* that is laid out as module Response says, with any number of routes,    *)
(* destinations and keys: it reads each of them, and nothing else.         *)
(***************************************************************************)
EXTENDS TokenizerProofs

\* q is at one of the keys of the object at k, the last but so many.
OnKey(ts, k, rounds, q) ==
  rounds \in 1 .. At(ts, k).size /\ q = After(ts, k) - 2 * rounds

\* q is past this key of the object at k.
PastKey(ts, k, key, q) == \E p \in Named(ts, k, key) : p < q

-----------------------------------------------------------------------------
(* Objects.                                                                *)

LEMMA ObjectIs ==
  ASSUME NEW ts \in Seq(TokenRecords), NEW k, IsObject(ts, k)
  PROVE  /\ k \in Nat /\ Len(ts) \in Nat /\ k < Len(ts) /\ At(ts, k).size \in Nat
         /\ After(ts, k) = k + 2 * At(ts, k).size + 1 /\ After(ts, k) \in Nat
         /\ After(ts, k) <= Len(ts)
<1>1. Len(ts) \in Nat /\ k \in 0 .. Len(ts) - 1
  BY DEF IsObject
<1>2. k + 1 \in 1 .. Len(ts)
  BY <1>1
<1>3. ts[k + 1] \in TokenRecords
  BY <1>2, TokensIn
<1>4. At(ts, k).size \in Nat
  BY <1>3 DEF At, TokenRecords
<1> QED
  BY <1>1, <1>4 DEF IsObject, After

LEMMA EndsIs ==
  ASSUME NEW ts \in Seq(TokenRecords), NEW k, NEW key, EndsIn(ts, k, key)
  PROVE  IsObject(ts, k) /\ At(ts, k).size >= 1
<1>1. IsObject(ts, k) /\ After(ts, k) - 2 \in Keys(ts, k)
  BY DEF EndsIn, Named
<1>2. PICK j \in 1 .. At(ts, k).size : TRUE
  BY <1>1 DEF Keys
<1> QED
  BY <1>1, <1>2, ObjectIs

LEMMA OnKeyIs ==
  ASSUME NEW ts \in Seq(TokenRecords), NEW k, IsObject(ts, k),
         NEW rounds, NEW q, OnKey(ts, k, rounds, q)
  PROVE  /\ rounds \in Nat /\ rounds >= 1 /\ q \in Nat /\ q + 1 < Len(ts)
         /\ q \in Keys(ts, k) /\ At(ts, q).type = "string"
         /\ \A key : At(ts, q).text = key <=> q \in Named(ts, k, key)
<1> DEFINE n == At(ts, k).size
<1>1. k \in Nat /\ n \in Nat /\ After(ts, k) = k + 2 * n + 1 /\ After(ts, k) <= Len(ts)
      /\ Len(ts) \in Nat
  BY ObjectIs
<1>2. rounds \in 1 .. n /\ q = After(ts, k) - 2 * rounds
  BY DEF OnKey
<1>3. rounds \in Nat /\ rounds >= 1 /\ rounds <= n
  BY <1>1, <1>2
<1> HIDE DEF n
<1>4. n - rounds + 1 \in 1 .. n /\ q = k + 2 * (n - rounds + 1) - 1 /\ q \in Nat /\ q + 1 < Len(ts)
  BY <1>1, <1>2, <1>3
<1>5. q \in Keys(ts, k)
  BY <1>4 DEF Keys, n
<1> QED
  BY <1>3, <1>4, <1>5 DEF IsObject, Named

LEMMA OnNext ==
  ASSUME NEW ts \in Seq(TokenRecords), NEW k, IsObject(ts, k),
         NEW rounds, NEW q, OnKey(ts, k, rounds, q)
  PROVE  /\ rounds # 1 => OnKey(ts, k, rounds - 1, q + 2)
         /\ rounds = 1 => q + 2 = After(ts, k)
         /\ q + 2 = After(ts, k) - 2 * (rounds - 1)
         /\ q + 2 <= After(ts, k)
<1>1. rounds \in 1 .. At(ts, k).size /\ q = After(ts, k) - 2 * rounds
      /\ At(ts, k).size \in Nat /\ After(ts, k) \in Nat
  BY ObjectIs DEF OnKey
<1>2. rounds \in Nat /\ rounds >= 1
  BY <1>1
<1> QED
  BY <1>1, <1>2 DEF OnKey

LEMMA OnFirst ==
  ASSUME NEW ts \in Seq(TokenRecords), NEW k, IsObject(ts, k)
  PROVE  /\ At(ts, k).size >= 1 => OnKey(ts, k, At(ts, k).size, k + 1)
         /\ At(ts, k).size = 0 => k + 1 = After(ts, k)
         /\ \A key : ~PastKey(ts, k, key, k + 1)
<1> DEFINE n == At(ts, k).size
<1>1. k \in Nat /\ n \in Nat /\ After(ts, k) = k + 2 * n + 1
  BY ObjectIs
<1>2. \A key : \A p \in Named(ts, k, key) : ~(p < k + 1)
  <2> SUFFICES ASSUME NEW key, NEW p \in Named(ts, k, key) PROVE ~(p < k + 1)
    OBVIOUS
  <2>1. PICK j \in 1 .. n : p = k + 2 * j - 1
    BY DEF Named, Keys
  <2>2. j \in Nat /\ j >= 1
    BY <1>1, <2>1
  <2> HIDE DEF n
  <2> QED
    BY <1>1, <2>1, <2>2
<1> HIDE DEF n
<1>3. n >= 1 => OnKey(ts, k, n, k + 1)
  BY <1>1 DEF OnKey, n
<1> QED
  BY <1>1, <1>2, <1>3 DEF n, PastKey

LEMMA KeyBounds ==
  ASSUME NEW ts \in Seq(TokenRecords), NEW k, IsObject(ts, k), NEW p \in Keys(ts, k)
  PROVE  \E j \in Nat : j >= 1 /\ p = After(ts, k) - 2 * j
<1> DEFINE n == At(ts, k).size
<1>1. k \in Nat /\ n \in Nat /\ After(ts, k) = k + 2 * n + 1
  BY ObjectIs
<1>2. PICK j \in 1 .. n : p = k + 2 * j - 1
  BY DEF Keys
<1> HIDE DEF n
<1>3. j \in Nat /\ j >= 1 /\ j <= n
  BY <1>1, <1>2
<1>4. n - j + 1 \in Nat /\ n - j + 1 >= 1 /\ p = After(ts, k) - 2 * (n - j + 1)
  BY <1>1, <1>2, <1>3
<1> QED
  BY <1>4

LEMMA PastNext ==
  ASSUME NEW ts \in Seq(TokenRecords), NEW k, IsObject(ts, k),
         NEW rounds, NEW q, OnKey(ts, k, rounds, q), NEW key, PastKey(ts, k, key, q + 2)
  PROVE  q \in Named(ts, k, key) \/ PastKey(ts, k, key, q)
<1>1. PICK p \in Named(ts, k, key) : p < q + 2
  BY DEF PastKey
<1>2. PICK j \in Nat : j >= 1 /\ p = After(ts, k) - 2 * j
  BY KeyBounds DEF Named
<1>3. rounds \in Nat /\ q = After(ts, k) - 2 * rounds /\ After(ts, k) \in Nat
  BY ObjectIs, OnKeyIs DEF OnKey
<1>4. p = q \/ p < q
  BY <1>1, <1>2, <1>3
<1> QED
  BY <1>1, <1>4 DEF PastKey

LEMMA PastEnd ==
  ASSUME NEW ts \in Seq(TokenRecords), NEW k, IsObject(ts, k), NEW key, Named(ts, k, key) # {}
  PROVE  PastKey(ts, k, key, After(ts, k))
<1>1. PICK p \in Named(ts, k, key) : TRUE
  OBVIOUS
<1>2. PICK j \in Nat : j >= 1 /\ p = After(ts, k) - 2 * j
  BY KeyBounds DEF Named
<1>3. p < After(ts, k)
  BY <1>2, ObjectIs
<1> QED
  BY <1>3 DEF PastKey

LEMMA PastLast ==
  ASSUME NEW ts \in Seq(TokenRecords), NEW k, NEW last, EndsIn(ts, k, last),
         NEW key, key # last, Named(ts, k, key) # {}
  PROVE  PastKey(ts, k, key, After(ts, k) - 2)
<1>1. PICK p \in Named(ts, k, key) : TRUE
  OBVIOUS
<1>2. IsObject(ts, k) /\ After(ts, k) - 2 \in Named(ts, k, last)
  BY DEF EndsIn
<1>3. PICK j \in Nat : j >= 1 /\ p = After(ts, k) - 2 * j
  BY <1>2, KeyBounds DEF Named
<1>4. p # After(ts, k) - 2
  BY <1>2 DEF Named
<1>5. After(ts, k) \in Nat
  BY <1>2, ObjectIs
<1>6. p < After(ts, k) - 2
  BY <1>3, <1>4, <1>5
<1> QED
  BY <1>6 DEF PastKey

\* At a key of an object that ends in a list, it is that of the list in the last round.
LEMMA LastRound ==
  ASSUME NEW ts \in Seq(TokenRecords), NEW k, NEW key, EndsIn(ts, k, key),
         NEW rounds, NEW q, OnKey(ts, k, rounds, q)
  PROVE  /\ At(ts, q).text = key <=> rounds = 1
         /\ rounds = 1 => /\ q = After(ts, k) - 2 /\ q + 1 = After(ts, k) - 1
                          /\ q + 2 = FirstElement(ts, k)
                          /\ At(ts, q + 1) = LastValue(ts, k)
<1>1. IsObject(ts, k) /\ Named(ts, k, key) = {After(ts, k) - 2}
  BY DEF EndsIn
<1>2. After(ts, k) \in Nat /\ rounds \in Nat /\ q = After(ts, k) - 2 * rounds
  BY <1>1, ObjectIs, OnKeyIs DEF OnKey
<1>3. At(ts, q).text = key <=> q = After(ts, k) - 2
  BY <1>1, OnKeyIs
<1>4. q + 1 = After(ts, k) - 1 <=> rounds = 1
  BY <1>2
<1> QED
  BY <1>2, <1>3, <1>4 DEF FirstElement, LastValue

-----------------------------------------------------------------------------
(* Where the objects of the text are, and what it says.                    *)

Body   == Inputs[input].body
Routes == Body.routes

RootPos       == RootAt(tokens)
DataPos       == DataAt(tokens)
RoutePos(i)   == RoutesAt(tokens, DataPos)[i]
DestPos(i, j) == DestinationsAt(tokens, RoutePos(i))[j]
PredPos(i, j) == FirstElement(tokens, DestPos(i, j))
Dests(i)      == Routes[i].dests

AtKey(k, rounds) == OnKey(tokens, k, rounds, t)
Passed(k, key)   == PastKey(tokens, k, key, t)

(* What has become of the slots.                                           *)

SlotKept(i) == stop.slots[i] = old.slots[i]

\* The i-th route is in its slot, but for a list it does not have.
SlotRead(i) ==
  /\ stop.slots[i].id = Routes[i].id
  /\ Dests(i) = <<>> => /\ stop.slots[i].size = old.slots[i].size
                        /\ stop.slots[i].dests = old.slots[i].dests
  /\ Dests(i) # <<>> => /\ stop.slots[i].size = Len(Dests(i))
                        /\ \A j \in 1 .. Len(Dests(i)) : stop.slots[i].dests[j] = Dests(i)[j]

\* The slots around the r-th: those before it are read, those after it kept.
Beside(r) ==
  /\ stop.size = Len(Routes)
  /\ \A i \in 1 .. r - 1 : SlotRead(i)
  /\ \A i \in r + 1 .. MaxRoutes : SlotKept(i)

\* The routes before the r-th have been read.
ReadUpTo(r) == Beside(r) /\ (r \in 1 .. MaxRoutes => SlotKept(r))

WholeRead ==
  /\ Body.kind = "no_routes" => stop = old
  /\ Body.kind = "routes" => ReadUpTo(Len(Routes) + 1)

\* The destinations of the r-th route before the j-th have been read.
DestsRead(r, j) ==
  /\ stop.slots[r].id = Routes[r].id
  /\ Dests(r) # <<>> /\ stop.slots[r].size = Len(Dests(r))
  /\ \A i \in 1 .. j - 1 : stop.slots[r].dests[i] = Dests(r)[i]

-----------------------------------------------------------------------------
(* In each loop: where t is, and what has been read.                       *)

HasData == EndsIn(tokens, RootPos, "data") /\ IsData(tokens, DataPos, Body)

Listed == HasData /\ Body.kind = "routes" /\ left["data"] = 1

AtRoute(r) == Listed /\ r \in 1 .. Len(Routes) /\ Slot = r /\ Beside(r)

AtDests(r, j) ==
  /\ AtRoute(r) /\ left["route"] = 1
  /\ j \in 1 .. Len(Dests(r)) + 1 /\ Dest = j /\ DestsRead(r, j)

AtDest(r, j) == AtDests(r, j) /\ j <= Len(Dests(r))

AtPreds(r, j) ==
  /\ AtDest(r, j) /\ left["dest"] = 1
  /\ LastValue(tokens, DestPos(r, j)).size = 1
  /\ stop.slots[r].dests[j].dir = Dests(r)[j].dir

InRoot ==
  \/ /\ t < ret /\ stop = old
     /\ \E rounds \in 1 .. At(tokens, RootPos).size : AtKey(RootPos, rounds)
  \/ t >= ret /\ WholeRead

InData ==
  /\ HasData
  /\ \/ AtKey(DataPos, left["data"]) /\ stop = old
     \/ left["data"] = 0 /\ t + 1 >= ret /\ WholeRead

InRoutes(r) ==
  /\ Listed /\ r \in 1 .. Len(Routes) + 1 /\ Slot = r
  /\ t = RoutePos(r) /\ ReadUpTo(r)

InRoute(r) ==
  /\ AtRoute(r)
  /\ \/ /\ AtKey(RoutePos(r), left["route"])
        /\ Passed(RoutePos(r), "routeId") => stop.slots[r].id = Routes[r].id
        /\ stop.slots[r].size = old.slots[r].size /\ stop.slots[r].dests = old.slots[r].dests
     \/ left["route"] = 0 /\ t = RoutePos(r + 1) - 1 /\ SlotRead(r)

InDests(r, j) == AtDests(r, j) /\ t = DestPos(r, j)

InDest(r, j) ==
  /\ AtDest(r, j)
  /\ \/ /\ AtKey(DestPos(r, j), left["dest"])
        /\ Passed(DestPos(r, j), "directionId") => stop.slots[r].dests[j].dir = Dests(r)[j].dir
        /\ stop.slots[r].dests[j].min = -1
     \/ left["dest"] = 0 /\ t = DestPos(r, j + 1) - 1 /\ stop.slots[r].dests[j] = Dests(r)[j]

InPreds(r, j) ==
  /\ AtPreds(r, j)
  /\ \/ left["preds"] = 1 /\ t = PredPos(r, j)
     \/ /\ left["preds"] = 0 /\ t = DestPos(r, j + 1) + 1
        /\ stop.slots[r].dests[j].min = Dests(r)[j].min

InPred(r, j) ==
  /\ AtPreds(r, j) /\ left["preds"] = 1
  /\ \/ AtKey(PredPos(r, j), left["pred"])
     \/ left["pred"] = 0 /\ t = After(tokens, PredPos(r, j))
  /\ Passed(PredPos(r, j), "min") => stop.slots[r].dests[j].min = Dests(r)[j].min

Walking ==
  /\ pc # "astray"
  /\ pc = "root" => InRoot
  /\ pc = "data" => InData
  /\ pc = "routes" => \E r \in 1 .. MaxRoutes + 1 : InRoutes(r)
  /\ pc = "route" => \E r \in 1 .. MaxRoutes : InRoute(r)
  /\ pc = "dests" => \E r \in 1 .. MaxRoutes, j \in 1 .. MaxDepartures + 1 : InDests(r, j)
  /\ pc = "dest" => \E r \in 1 .. MaxRoutes, j \in 1 .. MaxDepartures : InDest(r, j)
  /\ pc = "preds" => \E r \in 1 .. MaxRoutes, j \in 1 .. MaxDepartures : InPreds(r, j)
  /\ pc = "pred" => \E r \in 1 .. MaxRoutes, j \in 1 .. MaxDepartures : InPred(r, j)

(* A laid out response is walked as it is laid out, and when the call      *)
(* succeeds its stop has been read.                                        *)
Walked ==
  Inputs[input].laidOut =>
    /\ pc \notin {"idle", "scan", "parsed"} => Walking
    /\ (Returned /\ result = 0) => WholeRead

-----------------------------------------------------------------------------
(* What is known wherever the tokens of a laid out response are walked.    *)

Walks ==
  /\ Inv /\ Fitting /\ input \in DOMAIN Inputs /\ Inputs[input].laidOut
  /\ pc \notin {"idle", "scan", "parsed"}

LEMMA Base ==
  ASSUME Walks
  PROVE  /\ tokens \in Seq(TokenRecords) /\ ret = Len(tokens) /\ ret \in Nat
         /\ IsAnswer(tokens, Body)
         /\ t \in Nat /\ Pool \in Nat /\ left \in [Loops -> 0 .. Pool]
         /\ stop \in Stops /\ old \in Stops /\ SizesFit
         /\ MaxRoutes \in Nat /\ MaxDepartures \in Nat
<1>1. tokens \in Seq(TokenRecords) /\ ret > 1 /\ ret \in PART .. Pool
  BY DEF Walks, Inv, Tokenized, Untouched
<1>2. ret = Len(tokens) /\ ret \in Nat
  BY <1>1, PoolNat DEF Walks, Inv, Closed, PART
<1>3. IsAnswer(tokens, Body)
  BY LayoutAssumption DEF Walks, Fitting, Body
<1>4. SizesFit
  BY LayoutAssumption DEF Walks, Fitting
<1> QED
  BY <1>1, <1>2, <1>3, <1>4, PoolNat, RoutesAssumption, DeparturesAssumption
     DEF Walks, Fitting, Inv, Ahead, Nested, Kinds

LEMMA TokIs ==
  ASSUME tokens \in Seq(TokenRecords), NEW k \in Nat, k < Len(tokens)
  PROVE  Tok(k) = At(tokens, k)
BY DEF Tok, At

LEMMA AtKeyIs ==
  ASSUME tokens \in Seq(TokenRecords), NEW k, IsObject(tokens, k), NEW rounds, AtKey(k, rounds)
  PROVE  /\ t \in Nat /\ t + 1 < Len(tokens) /\ rounds \in Nat /\ rounds >= 1
         /\ Tok(t + 1) = At(tokens, t + 1)
         /\ \A key : jsoneq(t, key) <=> At(tokens, t).text = key
         /\ \A key : jsoneq(t, key) <=> t \in Named(tokens, k, key)
<1>1. OnKey(tokens, k, rounds, t)
  BY DEF AtKey
<1>2. /\ rounds \in Nat /\ rounds >= 1 /\ t \in Nat /\ t + 1 < Len(tokens)
      /\ At(tokens, t).type = "string"
      /\ \A key : At(tokens, t).text = key <=> t \in Named(tokens, k, key)
  BY <1>1, OnKeyIs
<1>3. t + 1 \in Nat /\ t < Len(tokens)
  BY <1>2
<1>4. Tok(t) = At(tokens, t) /\ Tok(t + 1) = At(tokens, t + 1)
  BY <1>2, <1>3, TokIs
<1> QED
  BY <1>2, <1>4 DEF jsoneq

LEMMA ListedIs ==
  ASSUME Listed
  PROVE  /\ Routes \in Listings /\ Len(Routes) \in Nat /\ Len(Routes) >= 1
         /\ EndsIn(tokens, DataPos, "predictionsData")
         /\ LastValue(tokens, DataPos).type = "array"
         /\ LastValue(tokens, DataPos).size = Len(Routes)
         /\ RoutePos(1) = FirstElement(tokens, DataPos)
         /\ RoutePos(Len(Routes) + 1) = Len(tokens)
         /\ \A i \in 1 .. Len(Routes) : /\ IsRoute(tokens, RoutePos(i), Routes[i])
                                        /\ RoutePos(i + 1) = RouteEnd(tokens, RoutePos(i))
<1>1. IsData(tokens, DataPos, Body) /\ Body.kind = "routes"
  BY DEF Listed, HasData
<1>2. Body.kind # "no_routes"
  BY <1>1
<1>3. /\ Routes \in Listings /\ Len(Routes) > 0
      /\ EndsIn(tokens, DataPos, "predictionsData")
      /\ LastValue(tokens, DataPos).type = "array"
      /\ LastValue(tokens, DataPos).size = Len(Routes)
      /\ RoutePos(1) = FirstElement(tokens, DataPos)
      /\ RoutePos(Len(Routes) + 1) = Len(tokens)
      /\ \A i \in 1 .. Len(Routes) : /\ IsRoute(tokens, RoutePos(i), Routes[i])
                                     /\ RoutePos(i + 1) = RouteEnd(tokens, RoutePos(i))
  BY <1>1, <1>2 DEF IsData, Routes, RoutePos
<1>4. Len(Routes) \in Nat
  BY <1>3 DEF Listings
<1> QED
  BY <1>3, <1>4

LEMMA RouteIs ==
  ASSUME Listed, NEW r \in 1 .. Len(Routes)
  PROVE  /\ EndsIn(tokens, RoutePos(r), "destinations")
         /\ HasText(tokens, RoutePos(r), "routeId", Routes[r].id)
         /\ Len(Dests(r)) \in Nat /\ (Dests(r) = <<>> <=> Len(Dests(r)) = 0)
         /\ LastValue(tokens, RoutePos(r)).size = Len(Dests(r))
         /\ Len(Dests(r)) > 0 => LastValue(tokens, RoutePos(r)).type = "array"
         /\ DestPos(r, 1) = FirstElement(tokens, RoutePos(r))
         /\ RoutePos(r + 1) = DestPos(r, Len(Dests(r)) + 1)
         /\ Dests(r) \in Seq([dir : STRING, min : Int])
         /\ \A j \in 1 .. Len(Dests(r)) :
              /\ IsDestination(tokens, DestPos(r, j), Dests(r)[j])
              /\ DestPos(r, j + 1) = DestinationEnd(tokens, DestPos(r, j))
<1>1. IsRoute(tokens, RoutePos(r), Routes[r]) /\ RoutePos(r + 1) = RouteEnd(tokens, RoutePos(r))
  BY ListedIs
<1>2. Routes[r] \in [id : STRING, dests : Seq([dir : STRING, min : Int])]
  <2>1. Routes \in Seq([id : STRING, dests : Seq([dir : STRING, min : Int])])
    BY ListedIs DEF Listings
  <2> QED
    BY <2>1, ElementOfSeq
<1>3. Dests(r) \in Seq([dir : STRING, min : Int])
  BY <1>2 DEF Dests
<1>4. Len(Dests(r)) \in Nat /\ (Dests(r) = <<>> <=> Len(Dests(r)) = 0)
  BY <1>3, EmptySeq
<1> QED
  BY <1>1, <1>3, <1>4 DEF IsRoute, Dests, DestPos, RouteEnd

LEMMA DestIs ==
  ASSUME Listed, NEW r \in 1 .. Len(Routes), NEW j \in 1 .. Len(Dests(r))
  PROVE  /\ EndsIn(tokens, DestPos(r, j), "predictions")
         /\ HasText(tokens, DestPos(r, j), "directionId", Dests(r)[j].dir)
         /\ Dests(r)[j] \in [dir : STRING, min : Int]
         /\ \/ /\ LastValue(tokens, DestPos(r, j)).size = 0 /\ Dests(r)[j].min = -1
               /\ DestPos(r, j + 1) = After(tokens, DestPos(r, j))
            \/ /\ LastValue(tokens, DestPos(r, j)).size = 1
               /\ LastValue(tokens, DestPos(r, j)).type = "array"
               /\ IsPrediction(tokens, PredPos(r, j), Dests(r)[j].min)
               /\ DestPos(r, j + 1) = After(tokens, PredPos(r, j))
<1>1. /\ IsDestination(tokens, DestPos(r, j), Dests(r)[j])
      /\ DestPos(r, j + 1) = DestinationEnd(tokens, DestPos(r, j))
      /\ Dests(r) \in Seq([dir : STRING, min : Int])
  BY RouteIs
<1>2. Dests(r)[j] \in [dir : STRING, min : Int]
  BY <1>1, ElementOfSeq
<1> QED
  BY <1>1, <1>2 DEF IsDestination, DestinationEnd, PredPos

-----------------------------------------------------------------------------
(* What the steps of the walk leave alone, and what a write changes.       *)

LEMMA Still ==
  ASSUME UNCHANGED Scanned
  PROVE  /\ UNCHANGED <<tokens, ret, input, old, Body, Routes, RootPos, DataPos>>
         /\ HasData => HasData'
         /\ \A i : RoutePos(i)' = RoutePos(i) /\ Dests(i)' = Dests(i)
         /\ \A i, j : DestPos(i, j)' = DestPos(i, j) /\ PredPos(i, j)' = PredPos(i, j)
<1>1. UNCHANGED <<tokens, ret, input, old>>
  BY DEF Scanned
<1>2. UNCHANGED <<Body, Routes, RootPos, DataPos>>
  BY <1>1 DEF Body, Routes, RootPos, DataPos
<1>3. \A i : RoutePos(i)' = RoutePos(i) /\ Dests(i)' = Dests(i)
  BY <1>1, <1>2 DEF RoutePos, Dests
<1>4. \A i, j : DestPos(i, j)' = DestPos(i, j)
  BY <1>1, <1>3 DEF DestPos
<1>5. \A i, j : PredPos(i, j)' = PredPos(i, j)
  BY <1>1, <1>4 DEF PredPos
<1>6. HasData => HasData'
  BY <1>1, <1>2 DEF HasData
<1> QED
  BY <1>1, <1>2, <1>3, <1>4, <1>5, <1>6

\* Only the r-th slot was written to.
RestKept(r) ==
  /\ stop'.size = stop.size
  /\ \A i \in (1 .. MaxRoutes) \ {r} : stop'.slots[i] = stop.slots[i]

LEMMA WriteRoute ==
  ASSUME stop \in Stops, NEW r \in 1 .. MaxRoutes, NEW x
  PROVE  /\ stop' = [stop EXCEPT !.slots[r].id = x] =>
              /\ RestKept(r) /\ stop'.slots[r].id = x
              /\ stop'.slots[r].size = stop.slots[r].size
              /\ stop'.slots[r].dests = stop.slots[r].dests
         /\ stop' = [stop EXCEPT !.slots[r].size = x] =>
              /\ RestKept(r) /\ stop'.slots[r].size = x
              /\ stop'.slots[r].id = stop.slots[r].id
              /\ stop'.slots[r].dests = stop.slots[r].dests
         /\ stop' = [stop EXCEPT !.size = x] => stop'.size = x /\ stop'.slots = stop.slots
<1>1. /\ DOMAIN stop = {"size", "slots"} /\ DOMAIN stop.slots = 1 .. MaxRoutes
      /\ \A k \in 1 .. MaxRoutes : DOMAIN stop.slots[k] = {"id", "size", "dests"}
  BY DEF Stops
<1>2. ASSUME stop' = [stop EXCEPT !.slots[r].id = x]
      PROVE  /\ RestKept(r) /\ stop'.slots[r].id = x
             /\ stop'.slots[r].size = stop.slots[r].size
             /\ stop'.slots[r].dests = stop.slots[r].dests
  BY <1>1, <1>2 DEF RestKept
<1>3. ASSUME stop' = [stop EXCEPT !.slots[r].size = x]
      PROVE  /\ RestKept(r) /\ stop'.slots[r].size = x
             /\ stop'.slots[r].id = stop.slots[r].id
             /\ stop'.slots[r].dests = stop.slots[r].dests
  BY <1>1, <1>3 DEF RestKept
<1>4. ASSUME stop' = [stop EXCEPT !.size = x]
      PROVE  stop'.size = x /\ stop'.slots = stop.slots
  BY <1>1, <1>4
<1> QED
  BY <1>2, <1>3, <1>4

\* The r-th slot as it was, but for its j-th destination.
OtherDestsKept(r, j) ==
  /\ RestKept(r)
  /\ stop'.slots[r].id = stop.slots[r].id /\ stop'.slots[r].size = stop.slots[r].size
  /\ \A i \in (1 .. MaxDepartures) \ {j} : stop'.slots[r].dests[i] = stop.slots[r].dests[i]

LEMMA DestTyped ==
  ASSUME stop \in Stops, NEW r \in 1 .. MaxRoutes, NEW j \in 1 .. MaxDepartures
  PROVE  /\ DOMAIN stop = {"size", "slots"} /\ DOMAIN stop.slots = 1 .. MaxRoutes
         /\ \A k \in 1 .. MaxRoutes : DOMAIN stop.slots[k] = {"id", "size", "dests"}
         /\ DOMAIN stop.slots[r].dests = 1 .. MaxDepartures
         /\ stop.slots[r].dests[j] \in [dir : Texts, min : Int]
         /\ DOMAIN stop.slots[r].dests[j] = {"dir", "min"}
<1>1. /\ DOMAIN stop = {"size", "slots"} /\ DOMAIN stop.slots = 1 .. MaxRoutes
      /\ \A k \in 1 .. MaxRoutes : DOMAIN stop.slots[k] = {"id", "size", "dests"}
  BY DEF Stops
<1>2. stop.slots[r].dests \in [1 .. MaxDepartures -> [dir : Texts, min : Int]]
  BY DEF Stops
<1>3. stop.slots[r].dests[j] \in [dir : Texts, min : Int]
  BY <1>2
<1> QED
  BY <1>1, <1>2, <1>3

LEMMA WriteDir ==
  ASSUME stop \in Stops, NEW r \in 1 .. MaxRoutes, NEW j \in 1 .. MaxDepartures, NEW x,
         stop' = [stop EXCEPT !.slots[r].dests[j].dir = x]
  PROVE  /\ OtherDestsKept(r, j) /\ stop'.slots[r].dests[j].dir = x
         /\ stop'.slots[r].dests[j].min = stop.slots[r].dests[j].min
BY DestTyped DEF RestKept, OtherDestsKept

LEMMA WriteMin ==
  ASSUME stop \in Stops, NEW r \in 1 .. MaxRoutes, NEW j \in 1 .. MaxDepartures, NEW x,
         stop' = [stop EXCEPT !.slots[r].dests[j].min = x]
  PROVE  /\ OtherDestsKept(r, j) /\ stop'.slots[r].dests[j].min = x
         /\ stop'.slots[r].dests[j].dir = stop.slots[r].dests[j].dir
BY DestTyped DEF RestKept, OtherDestsKept

LEMMA NoWrite ==
  ASSUME stop' = stop
  PROVE  \A r : RestKept(r) /\ \A j : OtherDestsKept(r, j)
BY DEF RestKept, OtherDestsKept

\* The rounds of the loops around stay as they are.
SameRounds(loops) == \A l \in loops : left'[l] = left[l]

LEMMA RouteStays ==
  ASSUME Walks, UNCHANGED Scanned, NEW r, AtRoute(r), RestKept(r), SameRounds({"data", "routes"})
  PROVE  AtRoute(r)'
<1>1. Listed' /\ (r \in 1 .. Len(Routes))' /\ Slot' = r
  BY Still DEF AtRoute, Listed, SameRounds, RestKept, Slot
<1>2. Beside(r)'
  <2>1. Len(Routes) <= MaxRoutes /\ MaxRoutes \in Nat /\ Len(Routes) \in Nat
    BY Base, ListedIs DEF AtRoute, Beside, SizesFit
  <2>2. stop'.size = Len(Routes)'
    BY Still DEF AtRoute, Beside, RestKept
  <2>3. ASSUME NEW i \in 1 .. MaxRoutes, i # r PROVE stop'.slots[i] = stop.slots[i]
    BY <2>3 DEF RestKept
  <2>4. ASSUME NEW i \in 1 .. r - 1 PROVE SlotRead(i)'
    <3>1. i \in 1 .. MaxRoutes /\ i # r
      BY <2>1 DEF AtRoute
    <3>2. SlotRead(i)
      BY DEF AtRoute, Beside
    <3>3. stop'.slots[i] = stop.slots[i]
      BY <2>3, <3>1
    <3> QED
      BY <3>2, <3>3, Still DEF SlotRead
  <2>5. ASSUME NEW i \in r + 1 .. MaxRoutes PROVE SlotKept(i)'
    <3>1. i \in 1 .. MaxRoutes /\ i # r
      BY <2>1 DEF AtRoute
    <3>2. SlotKept(i)
      BY DEF AtRoute, Beside
    <3>3. stop'.slots[i] = stop.slots[i]
      BY <2>3, <3>1
    <3> QED
      BY <3>2, <3>3, Still DEF SlotKept
  <2> QED
    BY <2>2, <2>4, <2>5 DEF Beside
<1> QED
  BY <1>1, <1>2 DEF AtRoute

LEMMA DestsStay ==
  ASSUME Walks, UNCHANGED Scanned, NEW r, NEW j, AtDests(r, j), OtherDestsKept(r, j),
         SameRounds({"data", "routes", "route", "dests"})
  PROVE  AtDests(r, j)' /\ (AtDest(r, j) => AtDest(r, j)')
<1>1. AtRoute(r)'
  BY RouteStays DEF AtDests, OtherDestsKept, SameRounds
<1>2. r \in 1 .. Len(Routes) /\ Slot = r /\ Slot' = r /\ r \in 1 .. MaxRoutes
  <2>1. Len(Routes) <= MaxRoutes /\ MaxRoutes \in Nat /\ Len(Routes) \in Nat
    BY Base, ListedIs DEF AtDests, AtRoute, Beside, SizesFit
  <2> QED
    BY <1>1, <2>1 DEF AtDests, AtRoute
<1>3. stop'.slots[r].id = stop.slots[r].id /\ stop'.slots[r].size = stop.slots[r].size
  BY DEF OtherDestsKept
<1>4. left'["route"] = 1 /\ Dest' = j
  BY <1>2, <1>3 DEF AtDests, SameRounds, Dest
<1>5. Len(Dests(r)) \in Nat /\ Len(Dests(r)) <= MaxDepartures /\ MaxDepartures \in Nat
  BY <1>2, Base, RouteIs DEF AtDests, AtRoute, DestsRead, SizesFit
<1>6. ASSUME NEW i \in 1 .. j - 1 PROVE stop'.slots[r].dests[i] = Dests(r)[i]
  <2>1. i \in 1 .. MaxDepartures /\ i # j
    BY <1>5 DEF AtDests
  <2> QED
    BY <2>1 DEF AtDests, DestsRead, OtherDestsKept
<1>7. DestsRead(r, j)'
  BY <1>3, <1>6, Still DEF AtDests, DestsRead
<1> QED
  BY <1>1, <1>4, <1>7, Still DEF AtDests, AtDest

LEMMA Rounds ==
  ASSUME Walks, NEW l \in Loops, NEW n, left' = [left EXCEPT ![l] = n]
  PROVE  left'[l] = n /\ SameRounds(Loops \ {l})
<1>1. DOMAIN left = Loops
  BY Base
<1> QED
  BY <1>1 DEF SameRounds

LEMMA LoopNames ==
  /\ {"data", "routes", "route", "dests", "dest", "preds", "pred"} = Loops
  /\ {"data", "routes", "route", "dests", "dest", "preds", "pred"} \subseteq Loops
BY DEF Loops, Objects, Lists

LEMMA RouteLimits ==
  ASSUME Walks, NEW r, AtRoute(r)
  PROVE  /\ Len(Routes) \in Nat /\ Len(Routes) <= MaxRoutes /\ MaxRoutes \in Nat
         /\ r \in Nat /\ r >= 1 /\ r <= Len(Routes) /\ r \in 1 .. MaxRoutes
         /\ left["routes"] = Len(Routes) - r + 1
<1>1. Len(Routes) \in Nat /\ Len(Routes) <= MaxRoutes /\ MaxRoutes \in Nat
  BY Base, ListedIs DEF AtRoute, Beside, SizesFit
<1>2. r \in Nat /\ r >= 1 /\ r <= Len(Routes) /\ r \in 1 .. MaxRoutes
  BY <1>1 DEF AtRoute
<1>3. left["routes"] \in 0 .. Pool /\ Pool \in Nat
  BY Base, LoopNames
<1>4. left["routes"] \in Nat
  BY <1>3
<1>5. stop.size = Len(Routes) /\ r = stop.size - left["routes"] + 1
  BY DEF AtRoute, Beside, Slot
<1> QED
  BY <1>1, <1>2, <1>4, <1>5

LEMMA DestLimits ==
  ASSUME Walks, NEW r, NEW j, AtDests(r, j)
  PROVE  /\ Len(Dests(r)) \in Nat /\ Len(Dests(r)) >= 1
         /\ Len(Dests(r)) <= MaxDepartures /\ MaxDepartures \in Nat
         /\ j \in Nat /\ j >= 1 /\ j <= Len(Dests(r)) + 1 /\ j \in 1 .. MaxDepartures + 1
         /\ j <= Len(Dests(r)) => j \in 1 .. MaxDepartures
         /\ left["dests"] = Len(Dests(r)) - j + 1
<1>1. AtRoute(r) /\ r \in 1 .. Len(Routes) /\ r \in 1 .. MaxRoutes /\ Listed
  BY RouteLimits DEF AtDests, AtRoute
<1>2. Len(Dests(r)) \in Nat /\ Len(Dests(r)) # 0 /\ MaxDepartures \in Nat
  BY <1>1, Base, RouteIs DEF AtDests, DestsRead
<1>3. stop.slots[r].size = Len(Dests(r)) /\ Len(Dests(r)) <= MaxDepartures
  BY <1>1, Base DEF AtDests, DestsRead, SizesFit
<1>4. j \in Nat /\ j >= 1 /\ j <= Len(Dests(r)) + 1
  BY <1>2 DEF AtDests
<1>5. left["dests"] \in Nat
  <2>1. left["dests"] \in 0 .. Pool /\ Pool \in Nat
    BY Base, LoopNames
  <2> QED
    BY <2>1
<1>6. j = Len(Dests(r)) - left["dests"] + 1
  BY <1>3 DEF AtDests, AtRoute, Dest
<1>7. left["dests"] = Len(Dests(r)) - j + 1
  BY <1>2, <1>4, <1>5, <1>6
<1>8. j \in 1 .. MaxDepartures + 1 /\ (j <= Len(Dests(r)) => j \in 1 .. MaxDepartures)
  BY <1>2, <1>3, <1>4
<1> QED
  BY <1>2, <1>3, <1>4, <1>7, <1>8

-----------------------------------------------------------------------------
(* The loops over routes.                                                  *)

LEMMA EnterRoute ==
  ASSUME Walks, NEW r, InRoutes(r), EnterObject("routes")
  PROVE  r \in 1 .. MaxRoutes /\ InRoute(r)'
<1> DEFINE k == RoutePos(r)
           n == At(tokens, k).size
<1>1. /\ left["routes"] > 0 /\ t' = t + 1 /\ stop' = stop /\ UNCHANGED Scanned
      /\ left' = [left EXCEPT !["route"] = Tok(t).size]
  BY DEF EnterObject, ElementOf, Known, Looking
<1>2. /\ Listed /\ t = k /\ Slot = r /\ r \in 1 .. Len(Routes) + 1 /\ ReadUpTo(r)
      /\ stop.size = Len(Routes)
  BY DEF InRoutes, ReadUpTo, Beside
<1>3. Len(Routes) \in Nat /\ left["routes"] \in Nat /\ MaxRoutes \in Nat
      /\ Len(Routes) <= MaxRoutes /\ tokens \in Seq(TokenRecords)
  <2>1. left["routes"] \in 0 .. Pool /\ Pool \in Nat
    BY Base, LoopNames
  <2> QED
    BY <1>2, <2>1, ListedIs, Base DEF SizesFit
<1>4. r \in 1 .. Len(Routes) /\ r \in 1 .. MaxRoutes
  <2>1. r = Len(Routes) - left["routes"] + 1
    BY <1>2 DEF Slot
  <2> QED
    BY <1>1, <1>2, <1>3, <2>1
<1>5. EndsIn(tokens, k, "destinations")
  BY <1>2, <1>4, RouteIs
<1>6. IsObject(tokens, k) /\ n >= 1
  BY <1>3, <1>5, EndsIs
<1>7. k \in Nat /\ k < Len(tokens) /\ n \in Nat
  BY <1>3, <1>6, ObjectIs
<1>8. Tok(t).size = n
  BY <1>2, <1>3, <1>7, TokIs
<1>9. left'["route"] = n /\ SameRounds({"data", "routes"})
  BY <1>1, <1>8, Rounds, LoopNames DEF SameRounds
<1>10. OnKey(tokens, k, n, t') /\ ~PastKey(tokens, k, "routeId", t')
  BY <1>1, <1>2, <1>3, <1>6, OnFirst
<1> HIDE DEF k, n
<1>11. AtRoute(r)'
  <2>1. AtRoute(r)
    BY <1>2, <1>4 DEF AtRoute, ReadUpTo
  <2> QED
    BY <1>1, <1>9, <2>1, NoWrite, RouteStays
<1>12. stop'.slots[r].size = old.slots[r].size /\ stop'.slots[r].dests = old.slots[r].dests
  BY <1>1, <1>2, <1>4 DEF ReadUpTo, SlotKept
<1>13. tokens' = tokens /\ RoutePos(r)' = k /\ old' = old
  BY <1>1, Still DEF k
<1>14. AtKey(RoutePos(r), left["route"])'
  BY <1>9, <1>10, <1>13 DEF AtKey
<1>15. ~Passed(RoutePos(r), "routeId")'
  BY <1>10, <1>13 DEF Passed
<1> QED
  BY <1>4, <1>11, <1>12, <1>13, <1>14, <1>15 DEF InRoute

\* At a key of a route.
LEMMA AtRouteKey ==
  ASSUME Walks, NEW r, InRoute(r), left["route"] > 0
  PROVE  /\ AtRoute(r) /\ r \in 1 .. MaxRoutes /\ r \in 1 .. Len(Routes)
         /\ tokens \in Seq(TokenRecords)
         /\ EndsIn(tokens, RoutePos(r), "destinations") /\ IsObject(tokens, RoutePos(r))
         /\ AtKey(RoutePos(r), left["route"]) /\ OnKey(tokens, RoutePos(r), left["route"], t)
         /\ Passed(RoutePos(r), "routeId") => stop.slots[r].id = Routes[r].id
         /\ stop.slots[r].size = old.slots[r].size /\ stop.slots[r].dests = old.slots[r].dests
         /\ left["route"] \in Nat
         /\ jsoneq(t, "destinations") <=> left["route"] = 1
         /\ t + 1 < Len(tokens) /\ Tok(t + 1) = At(tokens, t + 1) /\ t \in Nat
<1>1. /\ AtRoute(r) /\ AtKey(RoutePos(r), left["route"])
      /\ Passed(RoutePos(r), "routeId") => stop.slots[r].id = Routes[r].id
      /\ stop.slots[r].size = old.slots[r].size /\ stop.slots[r].dests = old.slots[r].dests
  <2>1. left["route"] # 0
    BY Base, LoopNames
  <2> QED
    BY <2>1 DEF InRoute
<1>2. r \in 1 .. MaxRoutes /\ r \in 1 .. Len(Routes) /\ tokens \in Seq(TokenRecords)
  BY <1>1, RouteLimits, Base DEF AtRoute
<1>3. EndsIn(tokens, RoutePos(r), "destinations")
  BY <1>1, RouteIs DEF AtRoute
<1>4. IsObject(tokens, RoutePos(r)) /\ OnKey(tokens, RoutePos(r), left["route"], t)
  BY <1>1, <1>3 DEF EndsIn, AtKey
<1>5. /\ left["route"] \in Nat /\ t + 1 < Len(tokens) /\ Tok(t + 1) = At(tokens, t + 1)
      /\ t \in Nat /\ (jsoneq(t, "destinations") <=> At(tokens, t).text = "destinations")
  BY <1>1, <1>2, <1>4, AtKeyIs
<1>6. At(tokens, t).text = "destinations" <=> left["route"] = 1
  BY <1>2, <1>3, <1>4, LastRound
<1> QED
  BY <1>1, <1>2, <1>3, <1>4, <1>5, <1>6

LEMMA RouteKey ==
  ASSUME Walks, NEW r, InRoute(r), PlainKey("route")
  PROVE  InRoute(r)'
<1> DEFINE k == RoutePos(r)
           c == left["route"]
<1>1. /\ c > 0 /\ ~jsoneq(t, "destinations") /\ t' = t + 2 /\ stop' = Kept("route")
      /\ left' = [left EXCEPT !["route"] = c - 1] /\ UNCHANGED Scanned
  BY DEF PlainKey, ListKey, Known, Looking
<1>2. /\ AtRoute(r) /\ r \in 1 .. MaxRoutes /\ r \in 1 .. Len(Routes)
      /\ tokens \in Seq(TokenRecords) /\ IsObject(tokens, k) /\ OnKey(tokens, k, c, t) /\ c \in Nat
      /\ Passed(k, "routeId") => stop.slots[r].id = Routes[r].id
      /\ stop.slots[r].size = old.slots[r].size /\ stop.slots[r].dests = old.slots[r].dests
      /\ c # 1 /\ Tok(t + 1) = At(tokens, t + 1) /\ AtKey(k, c)
  BY <1>1, AtRouteKey
<1>3. OnKey(tokens, k, c - 1, t')
  BY <1>1, <1>2, OnNext
<1>4. left'["route"] = c - 1 /\ SameRounds({"data", "routes"})
  BY <1>1, Rounds, LoopNames DEF SameRounds
<1>5. Slot = r /\ stop \in Stops
  BY <1>2, Base DEF AtRoute
<1>6. jsoneq(t, "routeId") <=> t \in Named(tokens, k, "routeId")
  BY <1>2, AtKeyIs
<1>7. t \in Named(tokens, k, "routeId") => Tok(t + 1).text = Routes[r].id
  <2>1. HasText(tokens, k, "routeId", Routes[r].id)
    BY <1>2, RouteIs DEF AtRoute
  <2> QED
    BY <1>2, <2>1 DEF HasText
<1>8. /\ RestKept(r)
      /\ stop'.slots[r].size = stop.slots[r].size /\ stop'.slots[r].dests = stop.slots[r].dests
      /\ jsoneq(t, "routeId") => stop'.slots[r].id = Tok(t + 1).text
      /\ ~jsoneq(t, "routeId") => stop'.slots[r].id = stop.slots[r].id
  <2>1. CASE jsoneq(t, "routeId")
    <3>1. stop' = [stop EXCEPT !.slots[r].id = Tok(t + 1).text]
      BY <1>1, <1>5, <2>1 DEF Kept
    <3> DEFINE x == Tok(t + 1).text
    <3> HIDE DEF x
    <3>2. stop' = [stop EXCEPT !.slots[r].id = x]
      BY <3>1 DEF x
    <3>3. /\ RestKept(r) /\ stop'.slots[r].id = x
          /\ stop'.slots[r].size = stop.slots[r].size
          /\ stop'.slots[r].dests = stop.slots[r].dests
      BY <1>2, <1>5, <3>2, WriteRoute
    <3> QED
      BY <2>1, <3>3 DEF x
  <2>2. CASE ~jsoneq(t, "routeId")
    <3>1. stop' = stop
      BY <1>1, <2>2 DEF Kept
    <3> QED
      BY <2>2, <3>1, NoWrite
  <2> QED
    BY <2>1, <2>2
<1>9. AtRoute(r)'
  BY <1>1, <1>2, <1>4, <1>8, RouteStays
<1>10. tokens' = tokens /\ RoutePos(r)' = k /\ old' = old /\ Routes' = Routes
  BY <1>1, Still
<1> HIDE DEF k, c
<1>11. PastKey(tokens, k, "routeId", t') => stop'.slots[r].id = Routes[r].id
  <2> SUFFICES ASSUME PastKey(tokens, k, "routeId", t') PROVE stop'.slots[r].id = Routes[r].id
    OBVIOUS
  <2>1. t \in Named(tokens, k, "routeId") \/ PastKey(tokens, k, "routeId", t)
    BY <1>1, <1>2, PastNext
  <2>2. CASE t \in Named(tokens, k, "routeId")
    BY <1>6, <1>7, <1>8, <2>2
  <2>3. CASE t \notin Named(tokens, k, "routeId")
    BY <1>2, <1>6, <1>8, <2>1, <2>3 DEF Passed
  <2> QED
    BY <2>2, <2>3
<1>12. AtKey(RoutePos(r), left["route"])'
  BY <1>3, <1>4, <1>10 DEF AtKey
<1>13. Passed(RoutePos(r), "routeId")' => (stop.slots[r].id = Routes[r].id)'
  BY <1>10, <1>11 DEF Passed
<1> QED
  BY <1>2, <1>8, <1>9, <1>10, <1>12, <1>13 DEF InRoute

\* At the key of the list: the id has been read.
LEMMA RouteNamed ==
  ASSUME Walks, NEW r, InRoute(r), left["route"] > 0, jsoneq(t, "destinations")
  PROVE  /\ stop.slots[r].id = Routes[r].id
         /\ Tok(t + 1).size = Len(Dests(r)) /\ (HasList("route") <=> Dests(r) # <<>>)
         /\ t + 2 = DestPos(r, 1) /\ t + 2 \in Nat
<1> DEFINE k == RoutePos(r)
<1>1. /\ AtRoute(r) /\ r \in 1 .. Len(Routes) /\ tokens \in Seq(TokenRecords)
      /\ EndsIn(tokens, k, "destinations") /\ OnKey(tokens, k, 1, t)
      /\ Passed(k, "routeId") => stop.slots[r].id = Routes[r].id
      /\ Tok(t + 1) = At(tokens, t + 1) /\ t \in Nat
  BY AtRouteKey
<1>2. /\ HasText(tokens, k, "routeId", Routes[r].id)
      /\ Len(Dests(r)) \in Nat /\ (Dests(r) = <<>> <=> Len(Dests(r)) = 0)
      /\ LastValue(tokens, k).size = Len(Dests(r))
      /\ Len(Dests(r)) > 0 => LastValue(tokens, k).type = "array"
      /\ DestPos(r, 1) = FirstElement(tokens, k)
  BY <1>1, RouteIs DEF AtRoute
<1>3. /\ t = After(tokens, k) - 2 /\ t + 2 = FirstElement(tokens, k)
      /\ Tok(t + 1) = LastValue(tokens, k)
  BY <1>1, LastRound
<1>4. Named(tokens, k, "routeId") # {}
  BY <1>2 DEF HasText
<1>5. Passed(k, "routeId")
  BY <1>1, <1>3, <1>4, PastLast DEF Passed
<1> HIDE DEF k
<1> QED
  BY <1>1, <1>2, <1>3, <1>5 DEF HasList

LEMMA EnterDests ==
  ASSUME Walks, NEW r, InRoute(r), EnterList("route")
  PROVE  r \in 1 .. MaxRoutes /\ InDests(r, 1)'
<1>1. /\ left["route"] > 0 /\ jsoneq(t, "destinations") /\ HasList("route")
      /\ t' = t + 2 /\ left' = [left EXCEPT !["dests"] = Tok(t + 1).size]
      /\ stop' = [stop EXCEPT !.slots[Slot].size = Tok(t + 1).size] /\ UNCHANGED Scanned
  BY DEF EnterList, ListKey, ListIn, Known, Looking
<1>2. /\ AtRoute(r) /\ r \in 1 .. MaxRoutes /\ r \in 1 .. Len(Routes) /\ Slot = r
      /\ left["route"] = 1
  BY <1>1, AtRouteKey DEF AtRoute
<1>3. /\ stop.slots[r].id = Routes[r].id /\ Dests(r) # <<>>
      /\ Tok(t + 1).size = Len(Dests(r)) /\ t' = DestPos(r, 1)
  BY <1>1, RouteNamed
<1>4. Len(Dests(r)) \in Nat /\ Len(Dests(r)) >= 1
  BY <1>2, <1>3, RouteIs DEF AtRoute
<1> DEFINE n == Len(Dests(r))
<1>5. stop' = [stop EXCEPT !.slots[r].size = n]
  BY <1>1, <1>2, <1>3
<1>6. left'["dests"] = n /\ SameRounds({"data", "routes", "route"})
  BY <1>1, <1>3, Rounds, LoopNames DEF SameRounds
<1> HIDE DEF n
<1>7. /\ RestKept(r) /\ stop'.slots[r].size = n
      /\ stop'.slots[r].id = stop.slots[r].id
  BY <1>2, <1>5, Base, WriteRoute
<1>8. AtRoute(r)'
  BY <1>1, <1>2, <1>6, <1>7, RouteStays DEF SameRounds
<1>9. Dests(r)' = Dests(r) /\ Routes' = Routes /\ DestPos(r, 1)' = DestPos(r, 1)
  BY <1>1, Still
<1>10. Dest' = 1 /\ left'["route"] = 1
  <2>1. Slot' = r
    BY <1>8 DEF AtRoute
  <2> QED
    BY <1>2, <1>4, <1>6, <1>7, <2>1 DEF Dest, SameRounds, n
<1>11. DestsRead(r, 1)'
  BY <1>3, <1>7, <1>9 DEF DestsRead, n
<1>12. (1 \in 1 .. Len(Dests(r)) + 1)'
  BY <1>4, <1>9
<1> QED
  BY <1>2, <1>3, <1>8, <1>9, <1>10, <1>11, <1>12 DEF InDests, AtDests

LEMMA NoDests ==
  ASSUME Walks, NEW r, InRoute(r), BreakList("route")
  PROVE  InRoute(r)'
<1>1. /\ left["route"] > 0 /\ jsoneq(t, "destinations") /\ ~HasList("route")
      /\ t' = t + 1 /\ left' = [left EXCEPT !["route"] = 0]
      /\ stop' = stop /\ UNCHANGED Scanned
  BY DEF BreakList, ListKey, Known, Looking
<1>2. /\ AtRoute(r) /\ r \in 1 .. Len(Routes)
      /\ stop.slots[r].size = old.slots[r].size /\ stop.slots[r].dests = old.slots[r].dests
  BY <1>1, AtRouteKey
<1>3. /\ stop.slots[r].id = Routes[r].id /\ Dests(r) = <<>>
      /\ t + 2 = DestPos(r, 1) /\ t + 2 \in Nat
  BY <1>1, RouteNamed
<1>4. RoutePos(r + 1) = t + 2
  <2>1. RoutePos(r + 1) = DestPos(r, Len(Dests(r)) + 1) /\ Len(Dests(r)) = 0
    BY <1>2, <1>3, RouteIs DEF AtRoute
  <2> QED
    BY <1>3, <2>1
<1>5. left'["route"] = 0 /\ SameRounds({"data", "routes"})
  BY <1>1, Rounds, LoopNames DEF SameRounds
<1>6. AtRoute(r)'
  BY <1>1, <1>2, <1>5, NoWrite, RouteStays
<1>7. SlotRead(r)
  BY <1>2, <1>3 DEF SlotRead
<1>8. SlotRead(r)'
  BY <1>1, <1>7, Still DEF SlotRead
<1>9. RoutePos(r + 1)' = RoutePos(r + 1)
  BY <1>1, Still
<1>10. t' = RoutePos(r + 1)' - 1
  <2>1. t \in Nat
    BY Base
  <2> QED
    BY <1>1, <1>4, <1>9, <2>1
<1> QED
  BY <1>5, <1>6, <1>8, <1>10 DEF InRoute

\* Past a route: its slot is read.
LEMMA PastRoute ==
  ASSUME Walks, NEW r, InRoute(r), left["route"] = 0
  PROVE  /\ AtRoute(r) /\ t = RoutePos(r + 1) - 1 /\ SlotRead(r)
         /\ RoutePos(r + 1) = t + 1
<1>1. ~AtKey(RoutePos(r), left["route"])
  <2>1. ~(0 \in 1 .. At(tokens, RoutePos(r)).size)
    OBVIOUS
  <2> QED
    BY <2>1 DEF AtKey, OnKey
<1>2. AtRoute(r) /\ t = RoutePos(r + 1) - 1 /\ SlotRead(r)
  BY <1>1 DEF InRoute
<1>3. RoutePos(r + 1) \in Int
  <2>1. r \in 1 .. Len(Routes) /\ Len(Routes) \in Nat /\ Listed
    BY <1>2, RouteLimits DEF AtRoute
  <2>2. CASE r = Len(Routes)
    <3>1. RoutePos(r + 1) = Len(tokens)
      BY <2>1, <2>2, ListedIs
    <3> QED
      BY <3>1, Base
  <2>3. CASE r # Len(Routes)
    <3>1. r + 1 \in 1 .. Len(Routes)
      BY <2>1, <2>3
    <3>2. EndsIn(tokens, RoutePos(r + 1), "destinations")
      BY <2>1, <3>1, RouteIs
    <3> QED
      BY <3>2, Base, ObjectIs DEF EndsIn
  <2> QED
    BY <2>2, <2>3
<1> QED
  BY <1>2, <1>3

LEMMA LeaveRoute ==
  ASSUME Walks, NEW r, InRoute(r), LeaveObject("route")
  PROVE  r + 1 \in 1 .. MaxRoutes + 1 /\ InRoutes(r + 1)'
<1>1. /\ left["route"] = 0 /\ t' = t + 1 /\ stop' = stop /\ UNCHANGED Scanned
      /\ left' = [left EXCEPT !["routes"] = left["routes"] - 1]
  BY DEF LeaveObject, ListOf
<1>2. AtRoute(r) /\ RoutePos(r + 1) = t + 1 /\ SlotRead(r)
  BY <1>1, PastRoute
<1>3. /\ Len(Routes) \in Nat /\ Len(Routes) <= MaxRoutes /\ MaxRoutes \in Nat
      /\ r \in Nat /\ r >= 1 /\ r <= Len(Routes)
      /\ left["routes"] = Len(Routes) - r + 1
  BY <1>2, RouteLimits
<1>4. left'["routes"] = left["routes"] - 1 /\ left'["data"] = left["data"]
  BY <1>1, Rounds, LoopNames DEF SameRounds
<1>5. Listed' /\ Slot' = r + 1
  <2>1. Listed /\ stop.size = Len(Routes)
    BY <1>2 DEF AtRoute, Beside
  <2>2. Slot' = r + 1
    BY <1>1, <1>3, <1>4, <2>1 DEF Slot
  <2> QED
    BY <1>1, <1>4, <2>1, <2>2, Still DEF Listed
<1>6. r + 1 \in 1 .. Len(Routes) + 1 /\ r + 1 \in 1 .. MaxRoutes + 1
  BY <1>3
<1>7. ReadUpTo(r + 1)
  <2>1. stop.size = Len(Routes)
    BY <1>2 DEF AtRoute, Beside
  <2>2. ASSUME NEW i \in 1 .. (r + 1) - 1 PROVE SlotRead(i)
    <3>1. i = r \/ i \in 1 .. r - 1
      BY <1>3
    <3> QED
      BY <1>2, <3>1 DEF AtRoute, Beside
  <2>3. ASSUME NEW i \in r + 1 .. MaxRoutes PROVE SlotKept(i)
    BY <1>2 DEF AtRoute, Beside
  <2>4. \A i \in (r + 1) + 1 .. MaxRoutes : SlotKept(i)
    BY <1>3, <2>3
  <2>5. r + 1 \in 1 .. MaxRoutes => SlotKept(r + 1)
    BY <1>3, <2>3
  <2> QED
    BY <2>1, <2>2, <2>4, <2>5 DEF ReadUpTo, Beside
<1>8. ReadUpTo(r + 1)'
  BY <1>1, <1>7, Still DEF ReadUpTo, Beside, SlotRead, SlotKept
<1>9. (t = RoutePos(r + 1))'
  BY <1>1, <1>2, Still
<1> QED
  BY <1>1, <1>5, <1>6, <1>8, <1>9, Still DEF InRoutes

LEMMA LeaveRoutes ==
  ASSUME Walks, NEW r, InRoutes(r), LeaveList("routes")
  PROVE  InData'
<1>1. /\ left["routes"] = 0 /\ t' = t - 0 + 1 /\ stop' = stop /\ UNCHANGED Scanned
      /\ left' = [left EXCEPT !["data"] = left["data"] - 1]
  BY DEF LeaveList, Owner, Correction
<1>2. /\ Listed /\ Slot = r /\ t = RoutePos(r) /\ ReadUpTo(r) /\ left["data"] = 1
      /\ stop.size = Len(Routes)
  BY DEF InRoutes, ReadUpTo, Beside, Listed
<1>3. Len(Routes) \in Nat /\ RoutePos(Len(Routes) + 1) = Len(tokens)
  BY <1>2, ListedIs
<1>4. r = Len(Routes) + 1
  BY <1>1, <1>2, <1>3 DEF Slot
<1>5. t = ret /\ ret \in Nat
  BY <1>2, <1>3, <1>4, Base
<1>6. left'["data"] = 0
  <2>1. left' = [left EXCEPT !["data"] = 0]
    BY <1>1, <1>2
  <2> QED
    BY <2>1, Rounds, LoopNames
<1>7. WholeRead
  BY <1>2, <1>4 DEF WholeRead, Listed
<1>8. WholeRead'
  BY <1>1, <1>7, Still DEF WholeRead, ReadUpTo, Beside, SlotRead, SlotKept
<1>9. HasData' /\ ret' = ret
  BY <1>1, <1>2, Still DEF Listed
<1>10. t' + 1 >= ret
  BY <1>1, <1>5
<1> QED
  BY <1>6, <1>8, <1>9, <1>10 DEF InData

-----------------------------------------------------------------------------
(* The loops over destinations.                                            *)

LEMMA EnterDest ==
  ASSUME Walks, NEW r \in 1 .. MaxRoutes, NEW j, InDests(r, j), EnterObject("dests")
  PROVE  j \in 1 .. MaxDepartures /\ InDest(r, j)'
<1> DEFINE k == DestPos(r, j)
           n == At(tokens, k).size
<1>1. /\ left["dests"] > 0 /\ t' = t + 1 /\ UNCHANGED Scanned
      /\ stop' = [stop EXCEPT !.slots[Slot].dests[Dest].min = -1]
      /\ left' = [left EXCEPT !["dest"] = Tok(t).size]
  BY DEF EnterObject, ElementOf, Known, Looking
<1>2. /\ AtDests(r, j) /\ AtRoute(r) /\ Listed /\ r \in 1 .. Len(Routes) /\ t = k
      /\ Slot = r /\ Dest = j /\ tokens \in Seq(TokenRecords)
  BY Base DEF InDests, AtDests, AtRoute
<1>3. /\ Len(Dests(r)) \in Nat /\ j \in Nat /\ j >= 1 /\ j <= Len(Dests(r)) + 1
      /\ j <= Len(Dests(r)) => j \in 1 .. MaxDepartures
      /\ left["dests"] = Len(Dests(r)) - j + 1
  BY <1>2, DestLimits
<1>4. j <= Len(Dests(r)) /\ j \in 1 .. Len(Dests(r)) /\ j \in 1 .. MaxDepartures
  BY <1>1, <1>3
<1>5. IsObject(tokens, k) /\ n >= 1
  BY <1>2, <1>4, DestIs, EndsIs
<1>6. k \in Nat /\ k < Len(tokens) /\ n \in Nat
  BY <1>2, <1>5, ObjectIs
<1>7. Tok(t).size = n
  BY <1>2, <1>6, TokIs
<1>8. left'["dest"] = n /\ SameRounds({"data", "routes", "route", "dests"})
  BY <1>1, <1>7, Rounds, LoopNames DEF SameRounds
<1>9. OnKey(tokens, k, n, t') /\ ~PastKey(tokens, k, "directionId", t')
  BY <1>1, <1>2, <1>5, OnFirst
<1> HIDE DEF k, n
<1>10. stop' = [stop EXCEPT !.slots[r].dests[j].min = -1] /\ stop \in Stops
  BY <1>1, <1>2, Base
<1>11. OtherDestsKept(r, j) /\ stop'.slots[r].dests[j].min = -1
  <2> DEFINE x == -1
  <2>1. stop' = [stop EXCEPT !.slots[r].dests[j].min = x]
    BY <1>10
  <2> HIDE DEF x
  <2>2. stop \in Stops
    BY <1>10
  <2>3. r \in 1 .. MaxRoutes /\ j \in 1 .. MaxDepartures
    BY <1>4
  <2>4. OtherDestsKept(r, j) /\ stop'.slots[r].dests[j].min = x
    BY <2>1, <2>2, <2>3, WriteMin
  <2> QED
    BY <2>4 DEF x
<1>12. AtDest(r, j)'
  <2>1. AtDest(r, j)
    BY <1>2, <1>4 DEF AtDest
  <2> QED
    BY <1>1, <1>2, <1>8, <1>11, <2>1, DestsStay
<1>13. tokens' = tokens /\ DestPos(r, j)' = k
  BY <1>1, Still DEF k
<1>14. AtKey(DestPos(r, j), left["dest"])'
  BY <1>8, <1>9, <1>13 DEF AtKey
<1>15. ~Passed(DestPos(r, j), "directionId")'
  BY <1>9, <1>13 DEF Passed
<1> QED
  BY <1>4, <1>11, <1>12, <1>14, <1>15 DEF InDest

\* At a key of a destination.
LEMMA AtDestKey ==
  ASSUME Walks, NEW r \in 1 .. MaxRoutes, NEW j, InDest(r, j), left["dest"] > 0
  PROVE  /\ AtDest(r, j) /\ AtDests(r, j) /\ AtRoute(r) /\ Listed /\ r \in 1 .. Len(Routes)
         /\ j \in 1 .. Len(Dests(r)) /\ j \in 1 .. MaxDepartures /\ Slot = r /\ Dest = j
         /\ tokens \in Seq(TokenRecords)
         /\ EndsIn(tokens, DestPos(r, j), "predictions") /\ IsObject(tokens, DestPos(r, j))
         /\ AtKey(DestPos(r, j), left["dest"]) /\ OnKey(tokens, DestPos(r, j), left["dest"], t)
         /\ Passed(DestPos(r, j), "directionId") =>
              stop.slots[r].dests[j].dir = Dests(r)[j].dir
         /\ stop.slots[r].dests[j].min = -1
         /\ left["dest"] \in Nat
         /\ jsoneq(t, "predictions") <=> left["dest"] = 1
         /\ t + 1 < Len(tokens) /\ Tok(t + 1) = At(tokens, t + 1) /\ t \in Nat
<1>1. /\ AtDest(r, j) /\ AtKey(DestPos(r, j), left["dest"])
      /\ Passed(DestPos(r, j), "directionId") =>
           stop.slots[r].dests[j].dir = Dests(r)[j].dir
      /\ stop.slots[r].dests[j].min = -1
  <2>1. left["dest"] # 0
    BY Base, LoopNames
  <2> QED
    BY <2>1 DEF InDest
<1>2. /\ AtDests(r, j) /\ AtRoute(r) /\ Listed /\ r \in 1 .. Len(Routes) /\ Slot = r /\ Dest = j
      /\ j <= Len(Dests(r)) /\ tokens \in Seq(TokenRecords)
  BY <1>1, Base DEF AtDest, AtDests, AtRoute
<1>3. j \in 1 .. Len(Dests(r)) /\ j \in 1 .. MaxDepartures
  BY <1>2, DestLimits
<1>4. EndsIn(tokens, DestPos(r, j), "predictions")
  BY <1>2, <1>3, DestIs
<1>5. IsObject(tokens, DestPos(r, j)) /\ OnKey(tokens, DestPos(r, j), left["dest"], t)
  BY <1>1, <1>4 DEF EndsIn, AtKey
<1>6. /\ left["dest"] \in Nat /\ t + 1 < Len(tokens) /\ Tok(t + 1) = At(tokens, t + 1)
      /\ t \in Nat /\ (jsoneq(t, "predictions") <=> At(tokens, t).text = "predictions")
  BY <1>1, <1>2, <1>5, AtKeyIs
<1>7. At(tokens, t).text = "predictions" <=> left["dest"] = 1
  BY <1>2, <1>4, <1>5, LastRound
<1> QED
  BY <1>1, <1>2, <1>3, <1>4, <1>5, <1>6, <1>7

LEMMA DestKey ==
  ASSUME Walks, NEW r \in 1 .. MaxRoutes, NEW j, InDest(r, j), PlainKey("dest")
  PROVE  InDest(r, j)'
<1> DEFINE k == DestPos(r, j)
           c == left["dest"]
<1>1. /\ c > 0 /\ ~jsoneq(t, "predictions") /\ t' = t + 2 /\ stop' = Kept("dest")
      /\ left' = [left EXCEPT !["dest"] = c - 1] /\ UNCHANGED Scanned
  BY DEF PlainKey, ListKey, Known, Looking
<1>2. /\ AtDest(r, j) /\ AtDests(r, j) /\ Listed /\ r \in 1 .. Len(Routes)
      /\ j \in 1 .. Len(Dests(r)) /\ j \in 1 .. MaxDepartures /\ Slot = r /\ Dest = j
      /\ tokens \in Seq(TokenRecords) /\ IsObject(tokens, k) /\ OnKey(tokens, k, c, t) /\ c \in Nat
      /\ Passed(k, "directionId") => stop.slots[r].dests[j].dir = Dests(r)[j].dir
      /\ stop.slots[r].dests[j].min = -1
      /\ c # 1 /\ Tok(t + 1) = At(tokens, t + 1) /\ AtKey(k, c)
  BY <1>1, AtDestKey
<1>3. OnKey(tokens, k, c - 1, t')
  BY <1>1, <1>2, OnNext
<1>4. left'["dest"] = c - 1 /\ SameRounds({"data", "routes", "route", "dests"})
  BY <1>1, Rounds, LoopNames DEF SameRounds
<1>5. stop \in Stops
  BY Base
<1>6. jsoneq(t, "directionId") <=> t \in Named(tokens, k, "directionId")
  BY <1>2, AtKeyIs
<1>7. t \in Named(tokens, k, "directionId") => Tok(t + 1).text = Dests(r)[j].dir
  <2>1. HasText(tokens, k, "directionId", Dests(r)[j].dir)
    BY <1>2, DestIs
  <2> QED
    BY <1>2, <2>1 DEF HasText
<1>8. /\ OtherDestsKept(r, j) /\ stop'.slots[r].dests[j].min = stop.slots[r].dests[j].min
      /\ jsoneq(t, "directionId") => stop'.slots[r].dests[j].dir = Tok(t + 1).text
      /\ ~jsoneq(t, "directionId") =>
           stop'.slots[r].dests[j].dir = stop.slots[r].dests[j].dir
  <2>1. CASE jsoneq(t, "directionId")
    <3>1. stop' = [stop EXCEPT !.slots[r].dests[j].dir = Tok(t + 1).text]
      BY <1>1, <1>2, <2>1 DEF Kept
    <3> DEFINE x == Tok(t + 1).text
    <3> HIDE DEF x
    <3>2. stop' = [stop EXCEPT !.slots[r].dests[j].dir = x]
      BY <3>1 DEF x
    <3>3. /\ OtherDestsKept(r, j) /\ stop'.slots[r].dests[j].dir = x
          /\ stop'.slots[r].dests[j].min = stop.slots[r].dests[j].min
      BY <1>2, <1>5, <3>2, WriteDir
    <3> QED
      BY <2>1, <3>3 DEF x
  <2>2. CASE ~jsoneq(t, "directionId")
    <3>1. stop' = stop
      BY <1>1, <2>2 DEF Kept
    <3> QED
      BY <2>2, <3>1, NoWrite
  <2> QED
    BY <2>1, <2>2
<1>9. AtDest(r, j)'
  BY <1>1, <1>2, <1>4, <1>8, DestsStay
<1>10. tokens' = tokens /\ DestPos(r, j)' = k /\ Dests(r)' = Dests(r)
  BY <1>1, Still
<1> HIDE DEF k, c
<1>11. PastKey(tokens, k, "directionId", t') => stop'.slots[r].dests[j].dir = Dests(r)[j].dir
  <2> SUFFICES ASSUME PastKey(tokens, k, "directionId", t')
               PROVE  stop'.slots[r].dests[j].dir = Dests(r)[j].dir
    OBVIOUS
  <2>1. t \in Named(tokens, k, "directionId") \/ PastKey(tokens, k, "directionId", t)
    BY <1>1, <1>2, PastNext
  <2>2. CASE t \in Named(tokens, k, "directionId")
    BY <1>6, <1>7, <1>8, <2>2
  <2>3. CASE t \notin Named(tokens, k, "directionId")
    BY <1>2, <1>6, <1>8, <2>1, <2>3 DEF Passed
  <2> QED
    BY <2>2, <2>3
<1>12. AtKey(DestPos(r, j), left["dest"])'
  BY <1>3, <1>4, <1>10 DEF AtKey
<1>13. Passed(DestPos(r, j), "directionId")' => (stop.slots[r].dests[j].dir = Dests(r)[j].dir)'
  BY <1>10, <1>11 DEF Passed
<1>14. stop'.slots[r].dests[j].min = -1
  BY <1>2, <1>8
<1> QED
  BY <1>9, <1>12, <1>13, <1>14 DEF InDest

\* At the key of the list: the direction has been read.
LEMMA DestNamed ==
  ASSUME Walks, NEW r \in 1 .. MaxRoutes, NEW j, InDest(r, j), left["dest"] > 0,
         jsoneq(t, "predictions")
  PROVE  /\ left["dest"] = 1
         /\ stop.slots[r].dests[j].dir = Dests(r)[j].dir
         /\ HasList("dest") <=> LastValue(tokens, DestPos(r, j)).size = 1
         /\ t + 2 = PredPos(r, j) /\ t + 2 = After(tokens, DestPos(r, j)) /\ t + 2 \in Nat
<1> DEFINE k == DestPos(r, j)
<1>1. /\ Listed /\ r \in 1 .. Len(Routes) /\ j \in 1 .. Len(Dests(r)) /\ left["dest"] = 1
      /\ tokens \in Seq(TokenRecords) /\ EndsIn(tokens, k, "predictions")
      /\ OnKey(tokens, k, 1, t)
      /\ Passed(k, "directionId") => stop.slots[r].dests[j].dir = Dests(r)[j].dir
      /\ Tok(t + 1) = At(tokens, t + 1) /\ t \in Nat
  BY AtDestKey
<1>2. /\ HasText(tokens, k, "directionId", Dests(r)[j].dir)
      /\ \/ LastValue(tokens, k).size = 0
         \/ LastValue(tokens, k).size = 1 /\ LastValue(tokens, k).type = "array"
  BY <1>1, DestIs
<1>3. /\ t = After(tokens, k) - 2 /\ t + 2 = FirstElement(tokens, k)
      /\ Tok(t + 1) = LastValue(tokens, k)
  BY <1>1, LastRound
<1>4. Passed(k, "directionId")
  <2>1. Named(tokens, k, "directionId") # {}
    BY <1>2 DEF HasText
  <2> QED
    BY <1>1, <1>3, <2>1, PastLast DEF Passed
<1>5. PredPos(r, j) = FirstElement(tokens, k) /\ After(tokens, k) = FirstElement(tokens, k)
  BY DEF PredPos, FirstElement
<1> HIDE DEF k
<1>6. HasList("dest") <=> LastValue(tokens, k).size = 1
  BY <1>2, <1>3 DEF HasList
<1> QED
  BY <1>1, <1>3, <1>4, <1>5, <1>6 DEF k

LEMMA EnterPreds ==
  ASSUME Walks, NEW r \in 1 .. MaxRoutes, NEW j, InDest(r, j), EnterList("dest")
  PROVE  j \in 1 .. MaxDepartures /\ InPreds(r, j)'
<1>1. /\ left["dest"] > 0 /\ jsoneq(t, "predictions") /\ HasList("dest")
      /\ t' = t + 2 /\ left' = [left EXCEPT !["preds"] = Tok(t + 1).size]
      /\ stop' = stop /\ UNCHANGED Scanned
  BY DEF EnterList, ListKey, ListIn, Known, Looking
<1>2. /\ AtDest(r, j) /\ AtDests(r, j) /\ Listed /\ r \in 1 .. Len(Routes)
      /\ j \in 1 .. Len(Dests(r)) /\ j \in 1 .. MaxDepartures
  BY <1>1, AtDestKey
<1>3. /\ left["dest"] = 1 /\ stop.slots[r].dests[j].dir = Dests(r)[j].dir
      /\ LastValue(tokens, DestPos(r, j)).size = 1 /\ t + 2 = PredPos(r, j)
  BY <1>1, DestNamed
<1>4. Tok(t + 1).size = 1
  <2>1. OnKey(tokens, DestPos(r, j), 1, t) /\ tokens \in Seq(TokenRecords)
        /\ EndsIn(tokens, DestPos(r, j), "predictions") /\ Tok(t + 1) = At(tokens, t + 1)
    BY <1>1, <1>3, AtDestKey
  <2>2. Tok(t + 1) = LastValue(tokens, DestPos(r, j))
    BY <2>1, LastRound
  <2> QED
    BY <1>3, <2>2
<1>5. left' = [left EXCEPT !["preds"] = 1]
  BY <1>1, <1>4
<1>6. left'["preds"] = 1 /\ SameRounds({"data", "routes", "route", "dests", "dest"})
  BY <1>5, Rounds, LoopNames DEF SameRounds
<1>7. AtDest(r, j)' /\ left'["dest"] = 1
  BY <1>1, <1>2, <1>3, <1>6, NoWrite, DestsStay DEF SameRounds
<1>8. tokens' = tokens /\ DestPos(r, j)' = DestPos(r, j) /\ PredPos(r, j)' = PredPos(r, j)
      /\ Dests(r)' = Dests(r)
  BY <1>1, Still
<1>9. AtPreds(r, j)'
  BY <1>1, <1>3, <1>7, <1>8 DEF AtPreds
<1> QED
  BY <1>1, <1>2, <1>3, <1>6, <1>8, <1>9 DEF InPreds

\* A destination is read once both of its fields are.
LEMMA BothRead ==
  ASSUME stop \in Stops, Listed, NEW r \in 1 .. Len(Routes), r \in 1 .. MaxRoutes,
         NEW j \in 1 .. Len(Dests(r)), j \in 1 .. MaxDepartures,
         stop.slots[r].dests[j].dir = Dests(r)[j].dir,
         stop.slots[r].dests[j].min = Dests(r)[j].min
  PROVE  stop.slots[r].dests[j] = Dests(r)[j]
<1>1. stop.slots[r].dests[j] \in [dir : Texts, min : Int]
  BY DestTyped
<1>2. Dests(r)[j] \in [dir : STRING, min : Int]
  BY DestIs
<1> QED
  BY <1>1, <1>2

LEMMA NoPreds ==
  ASSUME Walks, NEW r \in 1 .. MaxRoutes, NEW j, InDest(r, j), BreakList("dest")
  PROVE  j \in 1 .. MaxDepartures /\ InDest(r, j)'
<1>1. /\ left["dest"] > 0 /\ jsoneq(t, "predictions") /\ ~HasList("dest")
      /\ t' = t + 1 /\ left' = [left EXCEPT !["dest"] = 0]
      /\ stop' = stop /\ UNCHANGED Scanned
  BY DEF BreakList, ListKey, Known, Looking
<1>2. /\ AtDest(r, j) /\ AtDests(r, j) /\ Listed /\ r \in 1 .. Len(Routes)
      /\ j \in 1 .. Len(Dests(r)) /\ j \in 1 .. MaxDepartures
      /\ stop.slots[r].dests[j].min = -1 /\ t \in Nat
  BY <1>1, AtDestKey
<1>3. /\ stop.slots[r].dests[j].dir = Dests(r)[j].dir
      /\ LastValue(tokens, DestPos(r, j)).size # 1 /\ t + 2 = After(tokens, DestPos(r, j))
  BY <1>1, DestNamed
<1>4. Dests(r)[j].min = -1 /\ DestPos(r, j + 1) = t + 2
  BY <1>2, <1>3, DestIs
<1>5. stop.slots[r].dests[j] = Dests(r)[j]
  BY <1>2, <1>3, <1>4, Base, BothRead
<1>6. left'["dest"] = 0 /\ SameRounds({"data", "routes", "route", "dests"})
  BY <1>1, Rounds, LoopNames DEF SameRounds
<1>7. AtDest(r, j)'
  BY <1>1, <1>2, <1>6, NoWrite, DestsStay
<1>8. (stop.slots[r].dests[j] = Dests(r)[j])'
  BY <1>1, <1>5, Still
<1>9. t' = DestPos(r, j + 1)' - 1
  <2>1. DestPos(r, j + 1)' = DestPos(r, j + 1)
    BY <1>1, Still
  <2> QED
    BY <1>1, <1>2, <1>4, <2>1
<1> QED
  BY <1>2, <1>6, <1>7, <1>8, <1>9 DEF InDest

\* Where the next destination is: past this one, or past its prediction.
LEMMA NextDest ==
  ASSUME Walks, NEW r, NEW j, AtDest(r, j)
  PROVE  /\ DestPos(r, j + 1) \in Nat
         /\ LastValue(tokens, DestPos(r, j)).size = 1 =>
              /\ IsPrediction(tokens, PredPos(r, j), Dests(r)[j].min)
              /\ DestPos(r, j + 1) = After(tokens, PredPos(r, j))
<1>1. /\ Listed /\ r \in 1 .. Len(Routes) /\ tokens \in Seq(TokenRecords)
      /\ j \in 1 .. Len(Dests(r))
  <2>1. AtDests(r, j) /\ j <= Len(Dests(r))
    BY DEF AtDest
  <2>2. Len(Dests(r)) \in Nat /\ j \in Nat /\ j >= 1
    BY <2>1, DestLimits
  <2> QED
    BY <2>1, <2>2, Base DEF AtDests, AtRoute
<1>2. IsObject(tokens, DestPos(r, j))
  BY <1>1, DestIs DEF EndsIn
<1>3. After(tokens, DestPos(r, j)) \in Nat
  BY <1>1, <1>2, ObjectIs
<1>4. CASE LastValue(tokens, DestPos(r, j)).size = 1
  <2>1. /\ IsPrediction(tokens, PredPos(r, j), Dests(r)[j].min)
        /\ DestPos(r, j + 1) = After(tokens, PredPos(r, j))
    BY <1>1, <1>4, DestIs
  <2>2. After(tokens, PredPos(r, j)) \in Nat
    BY <1>1, <2>1, ObjectIs DEF IsPrediction
  <2> QED
    BY <2>1, <2>2
<1>5. CASE LastValue(tokens, DestPos(r, j)).size # 1
  BY <1>1, <1>3, <1>5, DestIs
<1> QED
  BY <1>4, <1>5

\* Past a destination: it is read.
LEMMA PastDest ==
  ASSUME Walks, NEW r, NEW j, InDest(r, j), left["dest"] = 0
  PROVE  AtDest(r, j) /\ DestPos(r, j + 1) = t + 1 /\ stop.slots[r].dests[j] = Dests(r)[j]
<1>1. ~AtKey(DestPos(r, j), left["dest"])
  <2>1. ~(0 \in 1 .. At(tokens, DestPos(r, j)).size)
    OBVIOUS
  <2> QED
    BY <2>1 DEF AtKey, OnKey
<1>2. AtDest(r, j) /\ t = DestPos(r, j + 1) - 1 /\ stop.slots[r].dests[j] = Dests(r)[j]
  BY <1>1 DEF InDest
<1>3. DestPos(r, j + 1) \in Nat
  BY <1>2, NextDest
<1> QED
  BY <1>2, <1>3

LEMMA LeaveDest ==
  ASSUME Walks, NEW r, NEW j, InDest(r, j), LeaveObject("dest")
  PROVE  j + 1 \in 1 .. MaxDepartures + 1 /\ InDests(r, j + 1)'
<1>1. /\ left["dest"] = 0 /\ t' = t + 1 /\ stop' = stop /\ UNCHANGED Scanned
      /\ left' = [left EXCEPT !["dests"] = left["dests"] - 1]
  BY DEF LeaveObject, ListOf
<1>2. /\ AtDest(r, j) /\ AtDests(r, j) /\ DestPos(r, j + 1) = t + 1
      /\ stop.slots[r].dests[j] = Dests(r)[j]
  BY <1>1, PastDest DEF AtDest
<1>3. /\ Len(Dests(r)) \in Nat /\ Len(Dests(r)) <= MaxDepartures /\ MaxDepartures \in Nat
      /\ j \in Nat /\ j >= 1 /\ j <= Len(Dests(r)) /\ left["dests"] = Len(Dests(r)) - j + 1
  BY <1>2, DestLimits DEF AtDest
<1>4. left'["dests"] = left["dests"] - 1 /\ SameRounds({"data", "routes", "route"})
  BY <1>1, Rounds, LoopNames DEF SameRounds
<1>5. AtRoute(r)' /\ left'["route"] = 1
  BY <1>1, <1>2, <1>4, NoWrite, RouteStays DEF AtDests, SameRounds
<1>6. Dests(r)' = Dests(r) /\ Routes' = Routes /\ DestPos(r, j + 1)' = DestPos(r, j + 1)
  BY <1>1, Still
<1>7. Dest' = j + 1
  <2>1. Slot' = r /\ stop.slots[r].size = Len(Dests(r))
    BY <1>2, <1>5 DEF AtRoute, AtDests, DestsRead
  <2> QED
    BY <1>1, <1>3, <1>4, <2>1 DEF Dest
<1>8. j + 1 \in 1 .. Len(Dests(r)) + 1 /\ j + 1 \in 1 .. MaxDepartures + 1
  BY <1>3
<1>9. DestsRead(r, j + 1)
  <2>1. ASSUME NEW i \in 1 .. (j + 1) - 1 PROVE stop.slots[r].dests[i] = Dests(r)[i]
    <3>1. i = j \/ i \in 1 .. j - 1
      BY <1>3
    <3> QED
      BY <1>2, <3>1 DEF AtDests, DestsRead
  <2> QED
    BY <1>2, <2>1 DEF AtDests, DestsRead
<1>10. DestsRead(r, j + 1)'
  BY <1>1, <1>6, <1>9 DEF DestsRead
<1> QED
  BY <1>1, <1>2, <1>5, <1>6, <1>7, <1>8, <1>10 DEF InDests, AtDests

LEMMA LeaveDests ==
  ASSUME Walks, NEW r, NEW j, InDests(r, j), LeaveList("dests")
  PROVE  r \in 1 .. MaxRoutes /\ InRoute(r)'
<1>1. /\ left["dests"] = 0 /\ t' = t - 2 + 1 /\ stop' = stop /\ UNCHANGED Scanned
      /\ left' = [left EXCEPT !["route"] = left["route"] - 1]
  BY DEF LeaveList, Owner, Correction
<1>2. /\ AtDests(r, j) /\ AtRoute(r) /\ Listed /\ r \in 1 .. Len(Routes) /\ t = DestPos(r, j)
      /\ left["route"] = 1 /\ DestsRead(r, j) /\ t \in Nat
  BY Base DEF InDests, AtDests, AtRoute
<1>3. Len(Dests(r)) \in Nat /\ j \in Nat /\ left["dests"] = Len(Dests(r)) - j + 1
  BY <1>2, DestLimits
<1>4. j = Len(Dests(r)) + 1
  BY <1>1, <1>3
<1>5. RoutePos(r + 1) = t
  BY <1>2, <1>4, RouteIs
<1>6. left'["route"] = 0 /\ SameRounds({"data", "routes"})
  <2>1. left' = [left EXCEPT !["route"] = 0]
    BY <1>1, <1>2
  <2> QED
    BY <2>1, Rounds, LoopNames DEF SameRounds
<1>7. AtRoute(r)'
  BY <1>1, <1>2, <1>6, NoWrite, RouteStays
<1>8. SlotRead(r)
  <2>1. (j - 1) = Len(Dests(r))
    BY <1>3, <1>4
  <2> QED
    BY <1>2, <2>1 DEF DestsRead, SlotRead
<1>9. SlotRead(r)'
  BY <1>1, <1>8, Still DEF SlotRead
<1>10. t' = RoutePos(r + 1)' - 1
  <2>1. RoutePos(r + 1)' = RoutePos(r + 1)
    BY <1>1, Still
  <2> QED
    BY <1>1, <1>2, <1>5, <2>1
<1>11. r \in 1 .. MaxRoutes
  BY <1>2, RouteLimits
<1> QED
  BY <1>6, <1>7, <1>9, <1>10, <1>11 DEF InRoute

-----------------------------------------------------------------------------
(* The loops over predictions.                                             *)

LEMMA PredsStay ==
  ASSUME Walks, UNCHANGED Scanned, NEW r, NEW j, AtPreds(r, j), OtherDestsKept(r, j),
         stop'.slots[r].dests[j].dir = stop.slots[r].dests[j].dir,
         SameRounds({"data", "routes", "route", "dests", "dest"})
  PROVE  AtPreds(r, j)'
<1>1. AtDest(r, j)' /\ left'["dest"] = 1
  <2>1. AtDests(r, j) /\ AtDest(r, j) /\ left["dest"] = 1
        /\ SameRounds({"data", "routes", "route", "dests"})
    BY DEF AtPreds, AtDest, SameRounds
  <2> QED
    BY <2>1, DestsStay DEF SameRounds
<1>2. UNCHANGED <<tokens, DestPos(r, j), Dests(r)>>
  BY Still
<1> QED
  BY <1>1, <1>2 DEF AtPreds

\* The prediction of this destination.
LEMMA PredIs ==
  ASSUME Walks, NEW r, NEW j, AtPreds(r, j)
  PROVE  /\ AtDest(r, j) /\ AtDests(r, j) /\ AtRoute(r) /\ Listed
         /\ r \in 1 .. MaxRoutes /\ r \in 1 .. Len(Routes)
         /\ j \in 1 .. MaxDepartures /\ j \in 1 .. Len(Dests(r)) /\ Slot = r /\ Dest = j
         /\ tokens \in Seq(TokenRecords) /\ stop \in Stops
         /\ IsObject(tokens, PredPos(r, j)) /\ PredPos(r, j) \in Nat
         /\ HasNum(tokens, PredPos(r, j), "min", Dests(r)[j].min)
         /\ DestPos(r, j + 1) = After(tokens, PredPos(r, j)) /\ DestPos(r, j + 1) \in Nat
<1>1. /\ AtDest(r, j) /\ AtDests(r, j) /\ AtRoute(r) /\ Listed /\ r \in 1 .. Len(Routes)
      /\ Slot = r /\ Dest = j /\ j <= Len(Dests(r))
      /\ LastValue(tokens, DestPos(r, j)).size = 1
  BY DEF AtPreds, AtDest, AtDests, AtRoute
<1>2. r \in 1 .. MaxRoutes /\ j \in 1 .. MaxDepartures /\ j \in 1 .. Len(Dests(r))
  <2>1. r \in 1 .. MaxRoutes
    BY <1>1, RouteLimits
  <2>2. Len(Dests(r)) \in Nat /\ j \in Nat /\ j >= 1 /\ j \in 1 .. MaxDepartures
    BY <1>1, DestLimits
  <2> QED
    BY <1>1, <2>1, <2>2
<1>3. /\ IsPrediction(tokens, PredPos(r, j), Dests(r)[j].min)
      /\ DestPos(r, j + 1) = After(tokens, PredPos(r, j)) /\ DestPos(r, j + 1) \in Nat
  BY <1>1, NextDest
<1>4. tokens \in Seq(TokenRecords) /\ stop \in Stops
  BY Base
<1>5. IsObject(tokens, PredPos(r, j)) /\ HasNum(tokens, PredPos(r, j), "min", Dests(r)[j].min)
  BY <1>3 DEF IsPrediction
<1>6. PredPos(r, j) \in Nat
  BY <1>4, <1>5, ObjectIs
<1> QED
  BY <1>1, <1>2, <1>3, <1>4, <1>5, <1>6

LEMMA EnterPred ==
  ASSUME Walks, NEW r, NEW j, InPreds(r, j), EnterObject("preds")
  PROVE  r \in 1 .. MaxRoutes /\ j \in 1 .. MaxDepartures /\ InPred(r, j)'
<1> DEFINE k == PredPos(r, j)
           n == At(tokens, k).size
<1>1. /\ left["preds"] > 0 /\ t' = t + 1 /\ stop' = stop /\ UNCHANGED Scanned
      /\ left' = [left EXCEPT !["pred"] = Tok(t).size]
  BY DEF EnterObject, ElementOf, Known, Looking
<1>2. AtPreds(r, j) /\ left["preds"] = 1 /\ t = k
  <2>1. left["preds"] # 0
    BY <1>1
  <2> QED
    BY <2>1 DEF InPreds
<1>3. /\ r \in 1 .. MaxRoutes /\ j \in 1 .. MaxDepartures
      /\ tokens \in Seq(TokenRecords) /\ IsObject(tokens, k)
  BY <1>2, PredIs
<1>4. k \in Nat /\ k < Len(tokens) /\ n \in Nat
  BY <1>3, ObjectIs
<1>5. Tok(t).size = n
  BY <1>2, <1>3, <1>4, TokIs
<1>6. left'["pred"] = n
      /\ SameRounds({"data", "routes", "route", "dests", "dest", "preds"})
  BY <1>1, <1>5, Rounds, LoopNames DEF SameRounds
<1>7. /\ n >= 1 => OnKey(tokens, k, n, t')
      /\ n = 0 => t' = After(tokens, k)
      /\ ~PastKey(tokens, k, "min", t')
  BY <1>1, <1>2, <1>3, OnFirst
<1> HIDE DEF k, n
<1>8. AtPreds(r, j)' /\ left'["preds"] = 1
  <2>1. SameRounds({"data", "routes", "route", "dests", "dest"})
    BY <1>6 DEF SameRounds
  <2> QED
    BY <1>1, <1>2, <1>6, <2>1, NoWrite, PredsStay DEF SameRounds
<1>9. tokens' = tokens /\ PredPos(r, j)' = k
  BY <1>1, Still DEF k
<1>10. AtKey(PredPos(r, j), left["pred"])' \/ (left'["pred"] = 0 /\ t' = After(tokens, k))
  <2>1. n >= 1 \/ n = 0
    BY <1>4
  <2> QED
    BY <1>6, <1>7, <1>9, <2>1 DEF AtKey
<1>11. ~Passed(PredPos(r, j), "min")'
  BY <1>7, <1>9 DEF Passed
<1> QED
  BY <1>3, <1>8, <1>9, <1>10, <1>11 DEF InPred

LEMMA PredKey ==
  ASSUME Walks, NEW r, NEW j, InPred(r, j), PlainKey("pred")
  PROVE  r \in 1 .. MaxRoutes /\ j \in 1 .. MaxDepartures /\ InPred(r, j)'
<1> DEFINE k == PredPos(r, j)
           c == left["pred"]
<1>1. /\ c > 0 /\ t' = t + 2 /\ stop' = Kept("pred")
      /\ left' = [left EXCEPT !["pred"] = c - 1] /\ UNCHANGED Scanned
  BY DEF PlainKey, Known, Looking
<1>2. /\ AtPreds(r, j) /\ left["preds"] = 1 /\ AtKey(k, c)
      /\ Passed(k, "min") => stop.slots[r].dests[j].min = Dests(r)[j].min
  <2>1. c # 0
    BY <1>1
  <2> QED
    BY <2>1 DEF InPred
<1>3. /\ r \in 1 .. MaxRoutes /\ j \in 1 .. MaxDepartures /\ Slot = r /\ Dest = j
      /\ tokens \in Seq(TokenRecords) /\ IsObject(tokens, k) /\ stop \in Stops
      /\ HasNum(tokens, k, "min", Dests(r)[j].min)
  BY <1>2, PredIs
<1>4. /\ OnKey(tokens, k, c, t) /\ c \in Nat /\ Tok(t + 1) = At(tokens, t + 1)
      /\ jsoneq(t, "min") <=> t \in Named(tokens, k, "min")
  BY <1>2, <1>3, AtKeyIs DEF AtKey
<1>5. /\ c # 1 => OnKey(tokens, k, c - 1, t')
      /\ c = 1 => t' = After(tokens, k)
  <2> HIDE DEF k, c
  <2>1. tokens \in Seq(TokenRecords) /\ IsObject(tokens, k) /\ OnKey(tokens, k, c, t)
    BY <1>3, <1>4
  <2>2. c # 1 => OnKey(tokens, k, c - 1, t + 2)
    BY <2>1, OnNext
  <2>3. c = 1 => t + 2 = After(tokens, k)
    BY <2>1, OnNext
  <2> QED
    BY <1>1, <2>2, <2>3
<1>6. left'["pred"] = c - 1
      /\ SameRounds({"data", "routes", "route", "dests", "dest", "preds"})
  BY <1>1, Rounds, LoopNames DEF SameRounds
<1>7. t \in Named(tokens, k, "min") => Tok(t + 1).num = Dests(r)[j].min
  BY <1>3, <1>4 DEF HasNum
<1>8. /\ OtherDestsKept(r, j) /\ stop'.slots[r].dests[j].dir = stop.slots[r].dests[j].dir
      /\ jsoneq(t, "min") => stop'.slots[r].dests[j].min = Tok(t + 1).num
      /\ ~jsoneq(t, "min") => stop'.slots[r].dests[j].min = stop.slots[r].dests[j].min
  <2>1. CASE jsoneq(t, "min")
    <3>1. stop' = [stop EXCEPT !.slots[r].dests[j].min = Tok(t + 1).num]
      BY <1>1, <1>3, <2>1 DEF Kept
    <3> DEFINE x == Tok(t + 1).num
    <3> HIDE DEF x
    <3>2. stop' = [stop EXCEPT !.slots[r].dests[j].min = x]
      BY <3>1 DEF x
    <3>3. /\ OtherDestsKept(r, j) /\ stop'.slots[r].dests[j].min = x
          /\ stop'.slots[r].dests[j].dir = stop.slots[r].dests[j].dir
      BY <1>3, <3>2, WriteMin
    <3> QED
      BY <2>1, <3>3 DEF x
  <2>2. CASE ~jsoneq(t, "min")
    <3>1. stop' = stop
      BY <1>1, <2>2 DEF Kept
    <3> QED
      BY <2>2, <3>1, NoWrite
  <2> QED
    BY <2>1, <2>2
<1>9. AtPreds(r, j)' /\ left'["preds"] = 1
  <2>1. SameRounds({"data", "routes", "route", "dests", "dest"})
    BY <1>6 DEF SameRounds
  <2> QED
    BY <1>1, <1>2, <1>6, <1>8, <2>1, PredsStay DEF SameRounds
<1>10. tokens' = tokens /\ PredPos(r, j)' = k /\ Dests(r)' = Dests(r)
  BY <1>1, Still
<1> HIDE DEF k, c
<1>11. PastKey(tokens, k, "min", t') => stop'.slots[r].dests[j].min = Dests(r)[j].min
  <2> SUFFICES ASSUME PastKey(tokens, k, "min", t')
               PROVE  stop'.slots[r].dests[j].min = Dests(r)[j].min
    OBVIOUS
  <2>1. t \in Named(tokens, k, "min") \/ PastKey(tokens, k, "min", t)
    BY <1>1, <1>3, <1>4, PastNext
  <2>2. CASE t \in Named(tokens, k, "min")
    BY <1>4, <1>7, <1>8, <2>2
  <2>3. CASE t \notin Named(tokens, k, "min")
    BY <1>2, <1>4, <1>8, <2>1, <2>3 DEF Passed
  <2> QED
    BY <2>2, <2>3
<1>12. AtKey(PredPos(r, j), left["pred"])' \/ (left'["pred"] = 0 /\ t' = After(tokens, k))
  <2>1. CASE c = 1
    BY <1>5, <1>6, <2>1
  <2>2. CASE c # 1
    BY <1>5, <1>6, <1>10, <2>2 DEF AtKey
  <2> QED
    BY <2>1, <2>2
<1>13. Passed(PredPos(r, j), "min")' =>
         stop'.slots[r].dests[j].min = Dests(r)[j].min
  BY <1>10, <1>11 DEF Passed
<1> QED
  BY <1>3, <1>9, <1>10, <1>12, <1>13 DEF InPred

LEMMA LeavePred ==
  ASSUME Walks, NEW r, NEW j, InPred(r, j), LeaveObject("pred")
  PROVE  r \in 1 .. MaxRoutes /\ j \in 1 .. MaxDepartures /\ InPreds(r, j)'
<1> DEFINE k == PredPos(r, j)
<1>1. /\ left["pred"] = 0 /\ t' = t + 1 /\ stop' = stop /\ UNCHANGED Scanned
      /\ left' = [left EXCEPT !["preds"] = left["preds"] - 1]
  BY DEF LeaveObject, ListOf
<1>2. /\ AtPreds(r, j) /\ left["preds"] = 1 /\ t = After(tokens, k)
      /\ Passed(k, "min") => stop.slots[r].dests[j].min = Dests(r)[j].min
  <2>1. ~AtKey(k, left["pred"])
    <3>1. ~(0 \in 1 .. At(tokens, k).size)
      OBVIOUS
    <3> QED
      BY <1>1, <3>1 DEF AtKey, OnKey
  <2> QED
    BY <2>1 DEF InPred
<1>3. /\ r \in 1 .. MaxRoutes /\ j \in 1 .. MaxDepartures
      /\ tokens \in Seq(TokenRecords) /\ IsObject(tokens, k)
      /\ HasNum(tokens, k, "min", Dests(r)[j].min)
      /\ DestPos(r, j + 1) = After(tokens, k) /\ DestPos(r, j + 1) \in Nat
  BY <1>2, PredIs
<1>4. stop.slots[r].dests[j].min = Dests(r)[j].min
  <2>1. Named(tokens, k, "min") # {}
    BY <1>3 DEF HasNum
  <2>2. Passed(k, "min")
    BY <1>2, <1>3, <2>1, PastEnd DEF Passed
  <2> QED
    BY <1>2, <2>2
<1>5. left'["preds"] = 0 /\ SameRounds({"data", "routes", "route", "dests", "dest"})
  <2>1. left' = [left EXCEPT !["preds"] = 0]
    BY <1>1, <1>2
  <2> QED
    BY <2>1, Rounds, LoopNames DEF SameRounds
<1>6. AtPreds(r, j)'
  BY <1>1, <1>2, <1>5, NoWrite, PredsStay
<1>7. DestPos(r, j + 1)' = DestPos(r, j + 1) /\ Dests(r)' = Dests(r)
  BY <1>1, Still
<1> QED
  BY <1>1, <1>2, <1>3, <1>4, <1>5, <1>6, <1>7 DEF InPreds

LEMMA LeavePreds ==
  ASSUME Walks, NEW r, NEW j, InPreds(r, j), LeaveList("preds")
  PROVE  r \in 1 .. MaxRoutes /\ j \in 1 .. MaxDepartures /\ InDest(r, j)'
<1>1. /\ left["preds"] = 0 /\ t' = t - 3 + 1 /\ stop' = stop /\ UNCHANGED Scanned
      /\ left' = [left EXCEPT !["dest"] = left["dest"] - 1]
  BY DEF LeaveList, Owner, Correction
<1>2. /\ AtPreds(r, j) /\ t = DestPos(r, j + 1) + 1 /\ left["dest"] = 1
      /\ stop.slots[r].dests[j].min = Dests(r)[j].min
      /\ stop.slots[r].dests[j].dir = Dests(r)[j].dir
  <2>1. left["preds"] # 1
    BY <1>1
  <2> QED
    BY <2>1 DEF InPreds, AtPreds
<1>3. /\ r \in 1 .. MaxRoutes /\ j \in 1 .. MaxDepartures /\ DestPos(r, j + 1) \in Nat
      /\ AtDest(r, j) /\ AtDests(r, j) /\ Listed /\ stop \in Stops
      /\ r \in 1 .. Len(Routes) /\ j \in 1 .. Len(Dests(r))
  BY <1>2, PredIs
<1>4. stop.slots[r].dests[j] = Dests(r)[j]
  BY <1>2, <1>3, BothRead
<1>5. left'["dest"] = 0 /\ SameRounds({"data", "routes", "route", "dests"})
  <2>1. left' = [left EXCEPT !["dest"] = 0]
    BY <1>1, <1>2
  <2> QED
    BY <2>1, Rounds, LoopNames DEF SameRounds
<1>6. AtDest(r, j)'
  BY <1>1, <1>3, <1>5, NoWrite, DestsStay
<1>7. DestPos(r, j + 1)' = DestPos(r, j + 1) /\ Dests(r)' = Dests(r)
  BY <1>1, Still
<1>8. t' = DestPos(r, j + 1)' - 1
  BY <1>1, <1>2, <1>3, <1>7
<1> QED
  BY <1>1, <1>3, <1>4, <1>5, <1>6, <1>7, <1>8 DEF InDest

-----------------------------------------------------------------------------
(* The root and the data object.                                           *)

LEMMA RootIs ==
  ASSUME tokens \in Seq(TokenRecords), IsAnswer(tokens, Body)
  PROVE  /\ IsObject(tokens, RootPos)
         /\ Named(tokens, RootPos, "data") = {} =>
              Body.kind = "no_routes" /\ After(tokens, RootPos) = Len(tokens)
         /\ Named(tokens, RootPos, "data") # {} => HasData
BY DEF IsAnswer, EndsIn, HasData, RootPos, DataPos

LEMMA DataIs ==
  ASSUME HasData
  PROVE  /\ IsObject(tokens, DataPos)
         /\ \/ /\ Body.kind = "no_routes" /\ After(tokens, DataPos) = Len(tokens)
               /\ \/ Named(tokens, DataPos, "predictionsData") = {}
                  \/ /\ EndsIn(tokens, DataPos, "predictionsData")
                     /\ LastValue(tokens, DataPos).size = 0
            \/ /\ Body.kind = "routes" /\ Len(Routes) > 0
               /\ EndsIn(tokens, DataPos, "predictionsData")
               /\ LastValue(tokens, DataPos).type = "array"
               /\ LastValue(tokens, DataPos).size = Len(Routes)
BY DEF HasData, IsData, EndsIn, Routes

LEMMA StaysWhole ==
  ASSUME UNCHANGED <<stop, old, input>>
  PROVE  WholeRead => WholeRead'
BY DEF WholeRead, ReadUpTo, Beside, SlotRead, SlotKept, Body, Routes, Dests

\* Nothing is read where no route is listed.
LEMMA WholeAsOld ==
  ASSUME Body.kind = "no_routes", stop = old
  PROVE  WholeRead
BY DEF WholeRead

LEMMA StartWalk ==
  ASSUME tokens \in Seq(TokenRecords), ret = Len(tokens), IsAnswer(tokens, Body),
         stop = old, Start
  PROVE  InRoot'
<1> DEFINE k == RootPos
           n == At(tokens, k).size
<1>1. IsObject(tokens, k)
  BY RootIs
<1>2. /\ k \in Nat /\ n \in Nat /\ k < Len(tokens) /\ Len(tokens) \in Nat
      /\ After(tokens, k) = k + 2 * n + 1
  BY <1>1, ObjectIs
<1>3. Tok(0) = At(tokens, 0)
  BY <1>2, TokIs
<1>4. t' = k + 1 /\ stop' = stop /\ UNCHANGED Scanned
  BY <1>3 DEF Start, RootPos, RootAt, Scanned
<1>5. UNCHANGED <<tokens, ret, input, old, Body, RootPos>>
  BY <1>4, Still
<1>6. CASE n >= 1
  <2>1. OnKey(tokens, k, n, t')
    BY <1>1, <1>4, <1>6, OnFirst
  <2>2. t' < ret
    <3>1. t' + 1 < Len(tokens) /\ t' \in Nat
      BY <1>1, <2>1, OnKeyIs
    <3> QED
      BY <1>2, <3>1
  <2>3. n \in 1 .. n
    BY <1>2, <1>6
  <2> QED
    BY <1>4, <1>5, <2>1, <2>2, <2>3 DEF InRoot, AtKey
<1>7. CASE ~(n >= 1)
  <2>1. n = 0
    BY <1>2, <1>7
  <2>2. Keys(tokens, k) = {}
    BY <2>1 DEF Keys
  <2>3. Named(tokens, k, "data") = {}
    BY <2>2 DEF Named
  <2>4. Body.kind = "no_routes" /\ After(tokens, k) = Len(tokens)
    BY <2>3, RootIs
  <2>5. WholeRead'
    BY <1>4, <1>5, <2>4, WholeAsOld, StaysWhole
  <2>6. t' >= ret'
    BY <1>2, <1>4, <1>5, <2>1, <2>4
  <2> QED
    BY <2>5, <2>6 DEF InRoot
<1> QED
  BY <1>6, <1>7

\* At a key of the root.
LEMMA AtRootKey ==
  ASSUME Walks, InRoot, t < ret
  PROVE  /\ stop = old /\ tokens \in Seq(TokenRecords) /\ IsObject(tokens, RootPos)
         /\ \E rounds \in Nat : AtKey(RootPos, rounds) /\ OnKey(tokens, RootPos, rounds, t)
<1>1. tokens \in Seq(TokenRecords) /\ t \in Nat /\ ret \in Nat /\ IsAnswer(tokens, Body)
  BY Base
<1>2. stop = old /\ \E rounds \in 1 .. At(tokens, RootPos).size : AtKey(RootPos, rounds)
  BY <1>1 DEF InRoot
<1>3. PICK rounds : AtKey(RootPos, rounds)
  BY <1>2
<1>4. IsObject(tokens, RootPos)
  BY <1>1, RootIs
<1>5. rounds \in Nat
  BY <1>1, <1>3, <1>4, AtKeyIs
<1> QED
  BY <1>1, <1>2, <1>3, <1>4, <1>5 DEF AtKey

LEMMA EnterData ==
  ASSUME Walks, InRoot, RootKey, jsoneq(t, "data")
  PROVE  InData'
<1> DEFINE k == DataPos
           n == At(tokens, k).size
<1>1. /\ t < ret /\ t' = t + 2 /\ stop' = stop /\ UNCHANGED Scanned
      /\ left' = [left EXCEPT !["data"] = Tok(t + 1).size]
  BY DEF RootKey, Known, Looking
<1>2. stop = old /\ tokens \in Seq(TokenRecords) /\ IsObject(tokens, RootPos)
  BY <1>1, AtRootKey
<1>3. PICK rounds \in Nat : AtKey(RootPos, rounds) /\ OnKey(tokens, RootPos, rounds, t)
  BY <1>1, AtRootKey
<1>4. /\ Tok(t + 1) = At(tokens, t + 1) /\ t \in Named(tokens, RootPos, "data")
      /\ At(tokens, t).text = "data" /\ t \in Nat
  BY <1>2, <1>3, AtKeyIs
<1>5. HasData /\ EndsIn(tokens, RootPos, "data")
  <2>1. HasData
    BY <1>2, <1>4, Base, RootIs
  <2> QED
    BY <2>1 DEF HasData
<1>6. t + 1 = k
  <2>1. t + 1 = After(tokens, RootPos) - 1
    BY <1>2, <1>3, <1>4, <1>5, LastRound
  <2> QED
    BY <2>1 DEF DataPos, DataAt, RootPos
<1>7. IsObject(tokens, k)
  BY <1>5, DataIs
<1>8. k \in Nat /\ n \in Nat /\ After(tokens, k) = k + 2 * n + 1
  BY <1>2, <1>7, ObjectIs
<1>9. t' = k + 1
  BY <1>1, <1>4, <1>6
<1>10. left'["data"] = n
  BY <1>1, <1>4, <1>6, Rounds, LoopNames
<1>11. HasData' /\ UNCHANGED <<tokens, ret, input, old, DataPos, Body>>
  BY <1>1, <1>5, Still
<1>12. CASE n >= 1
  <2>1. OnKey(tokens, k, n, t')
    BY <1>2, <1>7, <1>9, <1>12, OnFirst
  <2> QED
    BY <1>1, <1>2, <1>10, <1>11, <2>1 DEF InData, AtKey
<1>13. CASE ~(n >= 1)
  <2>1. n = 0
    BY <1>8, <1>13
  <2>2. ~EndsIn(tokens, k, "predictionsData")
    BY <1>2, <1>13, EndsIs
  <2>3. Body.kind = "no_routes" /\ After(tokens, k) = Len(tokens)
    BY <1>5, <2>2, DataIs
  <2>4. ret = Len(tokens)
    BY Base
  <2>5. t' + 1 >= ret'
    BY <1>8, <1>9, <1>11, <2>1, <2>3, <2>4
  <2>6. WholeRead'
    BY <1>1, <1>2, <1>11, <2>3, WholeAsOld, StaysWhole
  <2> QED
    BY <1>10, <1>11, <2>1, <2>5, <2>6 DEF InData
<1> QED
  BY <1>12, <1>13

LEMMA SkipRootKey ==
  ASSUME Walks, InRoot, RootKey, ~jsoneq(t, "data")
  PROVE  InRoot'
<1> DEFINE k == RootPos
<1>1. t < ret /\ t' = t + 2 /\ stop' = stop /\ UNCHANGED Scanned
  BY DEF RootKey, Known, Looking
<1>2. stop = old /\ tokens \in Seq(TokenRecords) /\ IsObject(tokens, k)
  BY <1>1, AtRootKey
<1>3. PICK rounds \in Nat : AtKey(k, rounds) /\ OnKey(tokens, k, rounds, t)
  BY <1>1, AtRootKey
<1>4. At(tokens, t).text # "data" /\ t \in Nat
  BY <1>2, <1>3, AtKeyIs
<1>5. ret = Len(tokens) /\ ret \in Nat /\ IsAnswer(tokens, Body)
  BY Base
<1>6. UNCHANGED <<tokens, ret, input, old, RootPos, Body>>
  BY <1>1, Still
<1> HIDE DEF k
<1>7. CASE rounds # 1
  <2>1. OnKey(tokens, k, rounds - 1, t')
    BY <1>1, <1>2, <1>3, <1>7, OnNext
  <2>2. t' < ret
    <3>1. t' + 1 < Len(tokens) /\ t' \in Nat
      BY <1>2, <2>1, OnKeyIs
    <3> QED
      BY <1>5, <3>1
  <2>3. rounds - 1 \in 1 .. At(tokens, k).size
    BY <2>1 DEF OnKey
  <2> QED
    BY <1>1, <1>2, <1>6, <2>1, <2>2, <2>3 DEF InRoot, AtKey, k
<1>8. CASE rounds = 1
  <2>1. t + 2 = After(tokens, k)
    BY <1>2, <1>3, <1>8, OnNext
  <2>2. ~HasData
    <3>1. ~EndsIn(tokens, k, "data")
      BY <1>2, <1>3, <1>4, <1>8, LastRound
    <3> QED
      BY <3>1 DEF HasData, k
  <2>3. Body.kind = "no_routes" /\ After(tokens, k) = Len(tokens)
    BY <1>2, <1>5, <2>2, RootIs DEF k
  <2>4. t' >= ret'
    BY <1>1, <1>5, <1>6, <2>1, <2>3
  <2>5. WholeRead'
    BY <1>1, <1>2, <1>6, <2>3, WholeAsOld, StaysWhole
  <2> QED
    BY <2>4, <2>5 DEF InRoot
<1> QED
  BY <1>7, <1>8

LEMMA LeaveDataWalk ==
  ASSUME Walks, InData, LeaveData
  PROVE  InRoot'
<1>1. left["data"] = 0 /\ t' = t + 1 /\ stop' = stop /\ UNCHANGED Scanned
  BY DEF LeaveData
<1>2. ~AtKey(DataPos, left["data"])
  <2>1. ~(0 \in 1 .. At(tokens, DataPos).size)
    OBVIOUS
  <2> QED
    BY <1>1, <2>1 DEF AtKey, OnKey
<1>3. t + 1 >= ret /\ WholeRead
  BY <1>2 DEF InData
<1>4. UNCHANGED <<ret, input, old>>
  BY <1>1, Still
<1>5. WholeRead'
  BY <1>1, <1>3, <1>4, StaysWhole
<1> QED
  BY <1>1, <1>3, <1>4, <1>5 DEF InRoot

\* At a key of the data object.
LEMMA AtDataKey ==
  ASSUME Walks, InData, left["data"] > 0
  PROVE  /\ HasData /\ stop = old /\ tokens \in Seq(TokenRecords) /\ IsObject(tokens, DataPos)
         /\ AtKey(DataPos, left["data"]) /\ OnKey(tokens, DataPos, left["data"], t)
         /\ left["data"] \in Nat /\ t + 1 < Len(tokens) /\ t \in Nat
         /\ Tok(t + 1) = At(tokens, t + 1)
         /\ jsoneq(t, "predictionsData") <=> At(tokens, t).text = "predictionsData"
         /\ jsoneq(t, "predictionsData") <=> t \in Named(tokens, DataPos, "predictionsData")
<1>1. HasData /\ AtKey(DataPos, left["data"]) /\ stop = old
  <2>1. left["data"] # 0
    BY Base, LoopNames
  <2> QED
    BY <2>1 DEF InData
<1>2. tokens \in Seq(TokenRecords) /\ IsObject(tokens, DataPos)
  BY <1>1, Base, DataIs
<1>3. OnKey(tokens, DataPos, left["data"], t)
  BY <1>1 DEF AtKey
<1>4. /\ left["data"] \in Nat /\ t + 1 < Len(tokens) /\ t \in Nat
      /\ Tok(t + 1) = At(tokens, t + 1)
      /\ jsoneq(t, "predictionsData") <=> At(tokens, t).text = "predictionsData"
      /\ jsoneq(t, "predictionsData") <=> t \in Named(tokens, DataPos, "predictionsData")
  BY <1>1, <1>2, AtKeyIs
<1> QED
  BY <1>1, <1>2, <1>3, <1>4

\* At the key of the list, which is the last.
LEMMA DataNamed ==
  ASSUME Walks, InData, left["data"] > 0, jsoneq(t, "predictionsData")
  PROVE  /\ left["data"] = 1 /\ Tok(t + 1) = LastValue(tokens, DataPos)
         /\ t + 2 = FirstElement(tokens, DataPos) /\ t + 2 = After(tokens, DataPos)
<1> DEFINE k == DataPos
           c == left["data"]
<1>1. /\ HasData /\ tokens \in Seq(TokenRecords) /\ IsObject(tokens, k)
      /\ OnKey(tokens, k, c, t) /\ c \in Nat /\ Tok(t + 1) = At(tokens, t + 1)
      /\ At(tokens, t).text = "predictionsData" /\ t \in Named(tokens, k, "predictionsData")
  BY AtDataKey
<1>2. EndsIn(tokens, k, "predictionsData")
  BY <1>1, DataIs
<1> HIDE DEF k, c
<1>3. c = 1
  BY <1>1, <1>2, LastRound
<1>4. t + 1 = After(tokens, k) - 1 /\ t + 2 = FirstElement(tokens, k)
      /\ At(tokens, t + 1) = LastValue(tokens, k)
  BY <1>1, <1>2, <1>3, LastRound
<1> QED
  BY <1>1, <1>3, <1>4 DEF k, c, FirstElement

LEMMA DataKey ==
  ASSUME Walks, InData, PlainKey("data")
  PROVE  InData'
<1> DEFINE k == DataPos
           c == left["data"]
<1>1. /\ c > 0 /\ ~jsoneq(t, "predictionsData") /\ t' = t + 2 /\ stop' = stop
      /\ left' = [left EXCEPT !["data"] = c - 1] /\ UNCHANGED Scanned
  BY DEF PlainKey, ListKey, Kept, Known, Looking
<1>2. /\ HasData /\ stop = old /\ tokens \in Seq(TokenRecords) /\ IsObject(tokens, k)
      /\ OnKey(tokens, k, c, t) /\ c \in Nat /\ t \in Nat
      /\ At(tokens, t).text # "predictionsData"
  BY <1>1, AtDataKey
<1>3. left'["data"] = c - 1
  BY <1>1, Rounds, LoopNames
<1>4. HasData' /\ UNCHANGED <<tokens, ret, input, old, DataPos, Body>>
  BY <1>1, <1>2, Still
<1>5. ret = Len(tokens) /\ ret \in Nat
  BY Base
<1> HIDE DEF k, c
<1>6. CASE c # 1
  <2>1. OnKey(tokens, k, c - 1, t')
    BY <1>1, <1>2, <1>6, OnNext
  <2> QED
    BY <1>1, <1>2, <1>3, <1>4, <2>1 DEF InData, AtKey, k
<1>7. CASE c = 1
  <2>1. t + 2 = After(tokens, k)
    <3>1. OnKey(tokens, k, 1, t) /\ After(tokens, k) \in Nat
      BY <1>2, <1>7, ObjectIs
    <3> QED
      BY <1>2, <3>1 DEF OnKey
  <2>2. ~EndsIn(tokens, k, "predictionsData")
    BY <1>2, <1>7, LastRound
  <2>3. Body.kind = "no_routes" /\ After(tokens, k) = Len(tokens)
    BY <1>2, <2>2, DataIs DEF k
  <2>4. t' + 1 >= ret'
    BY <1>1, <1>2, <1>4, <1>5, <2>1, <2>3
  <2>5. WholeRead'
    BY <1>1, <1>2, <1>4, <2>3, WholeAsOld, StaysWhole
  <2> QED
    BY <1>3, <1>4, <1>7, <2>4, <2>5 DEF InData
<1> QED
  BY <1>6, <1>7

LEMMA EnterListing ==
  ASSUME Walks, InData, EnterList("data")
  PROVE  1 \in 1 .. MaxRoutes + 1 /\ InRoutes(1)'
<1>1. /\ left["data"] > 0 /\ jsoneq(t, "predictionsData") /\ HasList("data")
      /\ t' = t + 2 /\ left' = [left EXCEPT !["routes"] = Tok(t + 1).size]
      /\ stop' = [stop EXCEPT !.size = Tok(t + 1).size] /\ UNCHANGED Scanned
  BY DEF EnterList, ListKey, ListIn, Known, Looking
<1>2. HasData /\ stop = old
  BY <1>1, AtDataKey
<1>3. /\ left["data"] = 1 /\ Tok(t + 1) = LastValue(tokens, DataPos)
      /\ t + 2 = FirstElement(tokens, DataPos)
  BY <1>1, DataNamed
<1>4. Body.kind = "routes" /\ LastValue(tokens, DataPos).size = Len(Routes)
  <2>1. /\ LastValue(tokens, DataPos).size # 0
        /\ Named(tokens, DataPos, "predictionsData") # {}
    BY <1>1, <1>3, AtDataKey DEF HasList
  <2> QED
    BY <1>2, <2>1, DataIs
<1>5. Listed
  BY <1>2, <1>3, <1>4 DEF Listed
<1> DEFINE n == Len(Routes)
<1>6. n \in Nat /\ n >= 1 /\ RoutePos(1) = t + 2 /\ MaxRoutes \in Nat /\ stop \in Stops
  BY <1>3, <1>5, ListedIs, Base
<1>7. stop' = [stop EXCEPT !.size = n] /\ left' = [left EXCEPT !["routes"] = n]
  BY <1>1, <1>3, <1>4
<1>8. left'["routes"] = n /\ left'["data"] = 1
  BY <1>3, <1>7, Rounds, LoopNames DEF SameRounds
<1> HIDE DEF n
<1>9. stop'.size = n /\ stop'.slots = stop.slots
  <2>1. DOMAIN stop = {"size", "slots"}
    BY <1>6 DEF Stops
  <2> QED
    BY <1>7, <2>1
<1>10. Listed' /\ Routes' = Routes /\ old' = old /\ RoutePos(1)' = RoutePos(1)
  BY <1>1, <1>5, <1>8, Still DEF Listed
<1>11. Slot' = 1 /\ (1 \in 1 .. Len(Routes) + 1)' /\ 1 \in 1 .. MaxRoutes + 1
  BY <1>6, <1>8, <1>9, <1>10 DEF Slot, n
<1>12. ReadUpTo(1)'
  <2>1. \A i : SlotKept(i)'
    BY <1>2, <1>9, <1>10 DEF SlotKept
  <2>2. \A i \in 1 .. 1 - 1 : SlotRead(i)'
    OBVIOUS
  <2> QED
    BY <1>9, <1>10, <2>1, <2>2 DEF ReadUpTo, Beside, n
<1> QED
  BY <1>1, <1>6, <1>10, <1>11, <1>12 DEF InRoutes

LEMMA NoListing ==
  ASSUME Walks, InData, BreakList("data")
  PROVE  InData'
<1>1. /\ left["data"] > 0 /\ jsoneq(t, "predictionsData") /\ ~HasList("data")
      /\ t' = t + 1 /\ left' = [left EXCEPT !["data"] = 0]
      /\ stop' = stop /\ UNCHANGED Scanned
  BY DEF BreakList, ListKey, Known, Looking
<1>2. HasData /\ stop = old /\ t \in Nat
  BY <1>1, AtDataKey
<1>3. Tok(t + 1) = LastValue(tokens, DataPos) /\ t + 2 = After(tokens, DataPos)
  BY <1>1, DataNamed
<1>4. Body.kind = "no_routes" /\ After(tokens, DataPos) = Len(tokens)
  <2>1. ~(/\ Len(Routes) > 0 /\ LastValue(tokens, DataPos).type = "array"
          /\ LastValue(tokens, DataPos).size = Len(Routes))
    BY <1>1, <1>3 DEF HasList
  <2> QED
    BY <1>2, <2>1, DataIs
<1>5. left'["data"] = 0
  BY <1>1, Rounds, LoopNames
<1>6. HasData' /\ UNCHANGED <<ret, input, old>>
  BY <1>1, <1>2, Still
<1>7. t' + 1 >= ret'
  BY <1>1, <1>2, <1>3, <1>4, <1>6, Base
<1>8. WholeRead'
  BY <1>1, <1>2, <1>4, <1>6, WholeAsOld, StaysWhole
<1> QED
  BY <1>5, <1>6, <1>7, <1>8 DEF InData

-----------------------------------------------------------------------------
(* Every step.                                                             *)

LEMMA WalkOf ==
  ASSUME Walks, Walked
  PROVE  /\ Walking
         /\ pc \in {"root", "data", "routes", "route", "dests", "dest", "preds", "pred"}
<1>1. pc \in {"idle", "scan", "parsed", "root", "astray"} \cup Loops
  BY DEF Walks, Inv, Nested
<1>2. Walking /\ pc # "astray"
  BY DEF Walks, Walked, Walking
<1> QED
  BY <1>1, <1>2 DEF Walks, Loops, Objects, Lists

LEMMA WalkedIn ==
  /\ pc' = "root" /\ InRoot' => Walked'
  /\ pc' = "data" /\ InData' => Walked'
  /\ \A r \in 1 .. MaxRoutes + 1 : pc' = "routes" /\ InRoutes(r)' => Walked'
  /\ \A r \in 1 .. MaxRoutes : pc' = "route" /\ InRoute(r)' => Walked'
  /\ \A r \in 1 .. MaxRoutes, j \in 1 .. MaxDepartures + 1 :
       pc' = "dests" /\ InDests(r, j)' => Walked'
  /\ \A r \in 1 .. MaxRoutes, j \in 1 .. MaxDepartures :
       /\ pc' = "dest" /\ InDest(r, j)' => Walked'
       /\ pc' = "preds" /\ InPreds(r, j)' => Walked'
       /\ pc' = "pred" /\ InPred(r, j)' => Walked'
<1>1. pc' # "idle" /\ Walking' => Walked'
  BY DEF Walked, Returned
<1>2. pc' = "root" /\ InRoot' => Walking'
  BY DEF Walking
<1>3. pc' = "data" /\ InData' => Walking'
  BY DEF Walking
<1>4. \A r \in 1 .. MaxRoutes + 1 : pc' = "routes" /\ InRoutes(r)' => Walking'
  BY DEF Walking
<1>5. \A r \in 1 .. MaxRoutes : pc' = "route" /\ InRoute(r)' => Walking'
  BY DEF Walking
<1>6. \A r \in 1 .. MaxRoutes, j \in 1 .. MaxDepartures + 1 :
        pc' = "dests" /\ InDests(r, j)' => Walking'
  BY DEF Walking
<1>7. \A r \in 1 .. MaxRoutes, j \in 1 .. MaxDepartures :
        pc' = "dest" /\ InDest(r, j)' => Walking'
  BY DEF Walking
<1>8. \A r \in 1 .. MaxRoutes, j \in 1 .. MaxDepartures :
        pc' = "preds" /\ InPreds(r, j)' => Walking'
  BY DEF Walking
<1>9. \A r \in 1 .. MaxRoutes, j \in 1 .. MaxDepartures :
        pc' = "pred" /\ InPred(r, j)' => Walking'
  BY DEF Walking
<1> QED
  BY <1>1, <1>2, <1>3, <1>4, <1>5, <1>6, <1>7, <1>8, <1>9

LEMMA RootWalked == Walks /\ Walked /\ (RootKey \/ LeaveData) => Walked'
<1> SUFFICES ASSUME Walks, Walked, RootKey \/ LeaveData PROVE Walked'
  OBVIOUS
<1>1. CASE RootKey
  <2>1. InRoot
    BY <1>1, WalkOf DEF RootKey, Walking
  <2>2. CASE jsoneq(t, "data")
    <3>1. pc' = "data"
      BY <1>1, <2>2 DEF RootKey
    <3> QED
      BY <1>1, <2>1, <2>2, <3>1, EnterData, WalkedIn
  <2>3. CASE ~jsoneq(t, "data")
    <3>1. pc' = "root"
      BY <1>1, <2>3 DEF RootKey
    <3> QED
      BY <1>1, <2>1, <2>3, <3>1, SkipRootKey, WalkedIn
  <2> QED
    BY <2>2, <2>3
<1>2. CASE LeaveData
  <2>1. pc = "data" /\ pc' = "root"
    BY <1>2 DEF LeaveData
  <2>2. InData
    BY <2>1, WalkOf DEF Walking
  <2> QED
    BY <1>2, <2>1, <2>2, LeaveDataWalk, WalkedIn
<1> QED
  BY <1>1, <1>2

LEMMA KeyWalked ==
  ASSUME Walks, Walked, NEW o \in Objects, PlainKey(o)
  PROVE  Walked'
<1>1. pc = o /\ pc' = o /\ Walking
  BY WalkOf DEF PlainKey
<1>2. CASE o = "data"
  <2>1. InData
    BY <1>1, <1>2 DEF Walking
  <2> QED
    BY <1>1, <1>2, <2>1, DataKey, WalkedIn
<1>3. CASE o = "route"
  <2>1. PICK r \in 1 .. MaxRoutes : InRoute(r)
    BY <1>1, <1>3 DEF Walking
  <2>2. InRoute(r)'
    BY <1>3, <2>1, RouteKey
  <2> QED
    BY <1>1, <1>3, <2>2, WalkedIn
<1>4. CASE o = "dest"
  <2>1. PICK r \in 1 .. MaxRoutes, j \in 1 .. MaxDepartures : InDest(r, j)
    BY <1>1, <1>4 DEF Walking
  <2>2. InDest(r, j)'
    BY <1>4, <2>1, DestKey
  <2> QED
    BY <1>1, <1>4, <2>2, WalkedIn
<1>5. CASE o = "pred"
  <2>1. PICK r \in 1 .. MaxRoutes, j \in 1 .. MaxDepartures : InPred(r, j)
    BY <1>1, <1>5 DEF Walking
  <2>2. InPred(r, j)'
    BY <1>5, <2>1, PredKey
  <2> QED
    BY <1>1, <1>5, <2>2, WalkedIn
<1> QED
  BY <1>2, <1>3, <1>4, <1>5 DEF Objects

LEMMA EnterListWalked ==
  ASSUME Walks, Walked, NEW o \in Objects \ {"pred"}, EnterList(o)
  PROVE  Walked'
<1>1. pc = o /\ pc' = ListIn(o) /\ Walking
  BY WalkOf DEF EnterList
<1>2. CASE o = "data"
  <2>1. InData /\ pc' = "routes"
    BY <1>1, <1>2 DEF Walking, ListIn
  <2>2. 1 \in 1 .. MaxRoutes + 1 /\ InRoutes(1)'
    BY <1>2, <2>1, EnterListing
  <2> QED
    BY <2>1, <2>2, WalkedIn
<1>3. CASE o = "route"
  <2>1. pc' = "dests"
    BY <1>1, <1>3 DEF ListIn
  <2>2. PICK r \in 1 .. MaxRoutes : InRoute(r)
    BY <1>1, <1>3 DEF Walking
  <2>3. InDests(r, 1)'
    BY <1>3, <2>2, EnterDests
  <2>4. 1 \in 1 .. MaxDepartures + 1
    BY DeparturesAssumption
  <2> QED
    BY <2>1, <2>3, <2>4, WalkedIn
<1>4. CASE o = "dest"
  <2>1. pc' = "preds"
    BY <1>1, <1>4 DEF ListIn
  <2>2. PICK r \in 1 .. MaxRoutes, j \in 1 .. MaxDepartures : InDest(r, j)
    BY <1>1, <1>4 DEF Walking
  <2>3. InPreds(r, j)'
    BY <1>4, <2>2, EnterPreds
  <2> QED
    BY <2>1, <2>3, WalkedIn
<1> QED
  BY <1>2, <1>3, <1>4 DEF Objects

LEMMA BreakListWalked ==
  ASSUME Walks, Walked, NEW o \in Objects \ {"pred"}, BreakList(o)
  PROVE  Walked'
<1>1. pc = o /\ pc' = o /\ Walking
  BY WalkOf DEF BreakList
<1>2. CASE o = "data"
  <2>1. InData
    BY <1>1, <1>2 DEF Walking
  <2> QED
    BY <1>1, <1>2, <2>1, NoListing, WalkedIn
<1>3. CASE o = "route"
  <2>1. PICK r \in 1 .. MaxRoutes : InRoute(r)
    BY <1>1, <1>3 DEF Walking
  <2>2. InRoute(r)'
    BY <1>3, <2>1, NoDests
  <2> QED
    BY <1>1, <1>3, <2>2, WalkedIn
<1>4. CASE o = "dest"
  <2>1. PICK r \in 1 .. MaxRoutes, j \in 1 .. MaxDepartures : InDest(r, j)
    BY <1>1, <1>4 DEF Walking
  <2>2. InDest(r, j)'
    BY <1>4, <2>1, NoPreds
  <2> QED
    BY <1>1, <1>4, <2>2, WalkedIn
<1> QED
  BY <1>2, <1>3, <1>4 DEF Objects

LEMMA LeaveObjectWalked ==
  ASSUME Walks, Walked, NEW o \in Objects \ {"data"}, LeaveObject(o)
  PROVE  Walked'
<1>1. pc = o /\ pc' = ListOf(o) /\ Walking
  BY WalkOf DEF LeaveObject
<1>2. CASE o = "route"
  <2>1. pc' = "routes"
    BY <1>1, <1>2 DEF ListOf
  <2>2. PICK r \in 1 .. MaxRoutes : InRoute(r)
    BY <1>1, <1>2 DEF Walking
  <2>3. r + 1 \in 1 .. MaxRoutes + 1 /\ InRoutes(r + 1)'
    BY <1>2, <2>2, LeaveRoute
  <2> QED
    BY <2>1, <2>3, WalkedIn
<1>3. CASE o = "dest"
  <2>1. pc' = "dests"
    BY <1>1, <1>3 DEF ListOf
  <2>2. PICK r \in 1 .. MaxRoutes, j \in 1 .. MaxDepartures : InDest(r, j)
    BY <1>1, <1>3 DEF Walking
  <2>3. j + 1 \in 1 .. MaxDepartures + 1 /\ InDests(r, j + 1)'
    BY <1>3, <2>2, LeaveDest
  <2> QED
    BY <2>1, <2>3, WalkedIn
<1>4. CASE o = "pred"
  <2>1. pc' = "preds"
    BY <1>1, <1>4 DEF ListOf
  <2>2. PICK r \in 1 .. MaxRoutes, j \in 1 .. MaxDepartures : InPred(r, j)
    BY <1>1, <1>4 DEF Walking
  <2>3. InPreds(r, j)'
    BY <1>4, <2>2, LeavePred
  <2> QED
    BY <2>1, <2>3, WalkedIn
<1> QED
  BY <1>2, <1>3, <1>4 DEF Objects

LEMMA EnterObjectWalked ==
  ASSUME Walks, Walked, NEW l \in Lists, EnterObject(l)
  PROVE  Walked'
<1>1. pc = l /\ pc' = ElementOf(l) /\ Walking
  BY WalkOf DEF EnterObject
<1>2. CASE l = "routes"
  <2>1. pc' = "route"
    BY <1>1, <1>2 DEF ElementOf
  <2>2. PICK r \in 1 .. MaxRoutes + 1 : InRoutes(r)
    BY <1>1, <1>2 DEF Walking
  <2>3. r \in 1 .. MaxRoutes /\ InRoute(r)'
    BY <1>2, <2>2, EnterRoute
  <2> QED
    BY <2>1, <2>3, WalkedIn
<1>3. CASE l = "dests"
  <2>1. pc' = "dest"
    BY <1>1, <1>3 DEF ElementOf
  <2>2. PICK r \in 1 .. MaxRoutes, j \in 1 .. MaxDepartures + 1 : InDests(r, j)
    BY <1>1, <1>3 DEF Walking
  <2>3. j \in 1 .. MaxDepartures /\ InDest(r, j)'
    BY <1>3, <2>2, EnterDest
  <2> QED
    BY <2>1, <2>3, WalkedIn
<1>4. CASE l = "preds"
  <2>1. pc' = "pred"
    BY <1>1, <1>4 DEF ElementOf
  <2>2. PICK r \in 1 .. MaxRoutes, j \in 1 .. MaxDepartures : InPreds(r, j)
    BY <1>1, <1>4 DEF Walking
  <2>3. InPred(r, j)'
    BY <1>4, <2>2, EnterPred
  <2> QED
    BY <2>1, <2>3, WalkedIn
<1> QED
  BY <1>2, <1>3, <1>4 DEF Lists

LEMMA LeaveListWalked ==
  ASSUME Walks, Walked, NEW l \in Lists, LeaveList(l)
  PROVE  Walked'
<1>1. pc = l /\ pc' = Owner(l) /\ Walking
  BY WalkOf DEF LeaveList
<1>2. CASE l = "routes"
  <2>1. pc' = "data"
    BY <1>1, <1>2 DEF Owner
  <2>2. PICK r \in 1 .. MaxRoutes + 1 : InRoutes(r)
    BY <1>1, <1>2 DEF Walking
  <2>3. InData'
    BY <1>2, <2>2, LeaveRoutes
  <2> QED
    BY <2>1, <2>3, WalkedIn
<1>3. CASE l = "dests"
  <2>1. pc' = "route"
    BY <1>1, <1>3 DEF Owner
  <2>2. PICK r \in 1 .. MaxRoutes, j \in 1 .. MaxDepartures + 1 : InDests(r, j)
    BY <1>1, <1>3 DEF Walking
  <2>3. InRoute(r)'
    BY <1>3, <2>2, LeaveDests
  <2> QED
    BY <2>1, <2>3, WalkedIn
<1>4. CASE l = "preds"
  <2>1. pc' = "dest"
    BY <1>1, <1>4 DEF Owner
  <2>2. PICK r \in 1 .. MaxRoutes, j \in 1 .. MaxDepartures : InPreds(r, j)
    BY <1>1, <1>4 DEF Walking
  <2>3. InDest(r, j)'
    BY <1>4, <2>2, LeavePreds
  <2> QED
    BY <2>1, <2>3, WalkedIn
<1> QED
  BY <1>2, <1>3, <1>4 DEF Lists

LEMMA StartWalked ==
  ASSUME Inv, Reading, Start
  PROVE  Walked'
<1> SUFFICES ASSUME Inputs[input'].laidOut PROVE Walked'
  BY DEF Walked
<1>1. /\ pc = "parsed" /\ pc' = "root" /\ Failure = 0
      /\ UNCHANGED <<tokens, input>>
  BY DEF Start
<1>2. ~cut
  BY <1>1, Verdict DEF Complete
<1>3. ret > 0 /\ ret \in Nat
  BY <1>1, PoolNat DEF Failure, Inv, Tokenized, PART
<1>4. tokens = Inputs[input].tokens
  BY <1>1, <1>2, <1>3, Matching DEF TokensMatchText
<1>5. input \in DOMAIN Inputs
  BY <1>1 DEF Reading
<1>6. IsAnswer(tokens, Body)
  BY <1>1, <1>4, <1>5, LayoutAssumption DEF Body
<1>7. tokens \in Seq(TokenRecords) /\ ret = Len(tokens) /\ stop = old
  BY <1>1, <1>3 DEF Inv, Tokenized, Closed, Untouched
<1>8. InRoot'
  BY <1>6, <1>7, StartWalk
<1> QED
  BY <1>1, <1>8, WalkedIn

LEMMA FinishWalked ==
  ASSUME Walks, Walked, Finish
  PROVE  Walked'
<1>1. /\ pc = "root" /\ t >= ret /\ pc' = "idle" /\ UNCHANGED <<input, stop, old>>
  BY DEF Finish, Return
<1>2. InRoot
  BY <1>1, WalkOf DEF Walking
<1>3. WholeRead
  <2>1. ~(t < ret)
    BY <1>1, Base
  <2> QED
    BY <1>2, <2>1 DEF InRoot
<1>4. WholeRead'
  BY <1>1, <1>3, StaysWhole
<1> QED
  BY <1>1, <1>4 DEF Walked

LEMMA StutterWalked ==
  ASSUME UNCHANGED vars
  PROVE  Walked => Walked'
<1>1. UNCHANGED <<pc, js, tokens, toksuper, ret, input, cut, t, left, stop, result, old>>
  BY DEF vars, jsmnVars
<1>2. UNCHANGED Scanned
  BY <1>1 DEF Scanned
<1>3. UNCHANGED <<Body, Routes, RootPos, DataPos, Slot, Returned>>
  BY <1>1 DEF Body, Routes, RootPos, DataPos, Slot, Returned
<1>4. /\ \A i : UNCHANGED <<RoutePos(i), Dests(i)>>
      /\ \A i, j : UNCHANGED <<DestPos(i, j), PredPos(i, j)>>
  BY <1>2, Still
<1>5. UNCHANGED <<HasData, Listed, Dest>>
  BY <1>1, <1>3 DEF HasData, Listed, Dest
<1>6. WholeRead' = WholeRead
  BY <1>1, <1>3, <1>4 DEF WholeRead, ReadUpTo, Beside, SlotRead, SlotKept
<1>7. \A r : /\ Beside(r)' = Beside(r)
             /\ ReadUpTo(r)' = ReadUpTo(r)
             /\ SlotRead(r)' = SlotRead(r)
  BY <1>1, <1>3, <1>4 DEF ReadUpTo, Beside, SlotRead, SlotKept
<1>8. \A r, j : DestsRead(r, j)' = DestsRead(r, j)
  BY <1>1, <1>3, <1>4 DEF DestsRead
<1>9. \A r : AtRoute(r)' = AtRoute(r)
  BY <1>1, <1>3, <1>5, <1>7 DEF AtRoute
<1>10. \A r, j : AtDests(r, j)' = AtDests(r, j) /\ AtDest(r, j)' = AtDest(r, j)
  BY <1>1, <1>4, <1>5, <1>8, <1>9 DEF AtDests, AtDest
<1>11. \A r, j : AtPreds(r, j)' = AtPreds(r, j)
  BY <1>1, <1>4, <1>10 DEF AtPreds
<1>12. \A k, rounds, key : /\ AtKey(k, rounds)' = AtKey(k, rounds)
                           /\ Passed(k, key)' = Passed(k, key)
  BY <1>1 DEF AtKey, Passed
<1>13. InRoot' = InRoot /\ InData' = InData
  BY <1>1, <1>3, <1>5, <1>6 DEF InRoot, InData, AtKey
<1>14. \A r : InRoutes(r)' = InRoutes(r)
  BY <1>1, <1>3, <1>4, <1>5, <1>7 DEF InRoutes
<1>15. \A r : InRoute(r)' = InRoute(r)
  BY <1>1, <1>3, <1>4, <1>7, <1>9 DEF InRoute, AtKey, Passed
<1>16. \A r, j : InDests(r, j)' = InDests(r, j)
  BY <1>1, <1>4, <1>10 DEF InDests
<1>17. \A r, j : InDest(r, j)' = InDest(r, j)
  BY <1>1, <1>4, <1>10 DEF InDest, AtKey, Passed
<1>18. \A r, j : InPreds(r, j)' = InPreds(r, j)
  BY <1>1, <1>4, <1>11 DEF InPreds
<1>19. \A r, j : InPred(r, j)' = InPred(r, j)
  BY <1>1, <1>4, <1>11 DEF InPred, AtKey, Passed
<1>20. Walking' = Walking
  BY <1>1, <1>13, <1>14, <1>15, <1>16, <1>17, <1>18, <1>19 DEF Walking
<1> QED
  BY <1>1, <1>3, <1>6, <1>20 DEF Walked

\* Where a token is read, it is one of an object of the text, and an element that
\* is begun is one of its array.
LEMMA InsideIs ==
  ASSUME Walks, Walked
  PROVE  /\ pc = "root" /\ t < ret => t + 1 < ret
         /\ pc \in Objects /\ left[pc] > 0 => t + 1 < ret
         /\ pc \in Lists /\ left[pc] > 0 => t < ret
         /\ pc = "routes" /\ left["routes"] > 0 => Slot <= MaxRoutes
         /\ pc = "dests" /\ left["dests"] > 0 => Dest <= MaxDepartures
<1>1. /\ ret = Len(tokens) /\ ret \in Nat /\ t \in Nat /\ tokens \in Seq(TokenRecords)
      /\ Walking
  BY Base, WalkOf
<1>2. ASSUME pc = "root", t < ret PROVE t + 1 < ret
  <2>1. InRoot
    BY <1>1, <1>2 DEF Walking
  <2>2. PICK rounds \in Nat : OnKey(tokens, RootPos, rounds, t)
    BY <1>2, <2>1, AtRootKey
  <2>3. IsObject(tokens, RootPos)
    BY <1>2, <2>1, AtRootKey
  <2> QED
    BY <1>1, <2>2, <2>3, OnKeyIs
<1>3. ASSUME pc = "data", left["data"] > 0 PROVE t + 1 < ret
  <2>1. InData
    BY <1>1, <1>3 DEF Walking
  <2> QED
    BY <1>1, <1>3, <2>1, AtDataKey
<1>4. ASSUME pc = "route", left["route"] > 0 PROVE t + 1 < ret
  <2>1. PICK r \in 1 .. MaxRoutes : InRoute(r)
    BY <1>1, <1>4 DEF Walking
  <2> QED
    BY <1>1, <1>4, <2>1, AtRouteKey
<1>5. ASSUME pc = "dest", left["dest"] > 0 PROVE t + 1 < ret
  <2>1. PICK r \in 1 .. MaxRoutes, j \in 1 .. MaxDepartures : InDest(r, j)
    BY <1>1, <1>5 DEF Walking
  <2> QED
    BY <1>1, <1>5, <2>1, AtDestKey
<1>6. ASSUME pc = "pred", left["pred"] > 0 PROVE t + 1 < ret
  <2>1. PICK r \in 1 .. MaxRoutes, j \in 1 .. MaxDepartures : InPred(r, j)
    BY <1>1, <1>6 DEF Walking
  <2>2. left["pred"] # 0
    BY <1>6
  <2>3. AtPreds(r, j) /\ AtKey(PredPos(r, j), left["pred"])
    BY <2>1, <2>2 DEF InPred
  <2>4. IsObject(tokens, PredPos(r, j))
    BY <2>3, PredIs
  <2> QED
    BY <1>1, <2>3, <2>4, AtKeyIs
<1>7. ASSUME pc = "routes", left["routes"] > 0 PROVE t < ret /\ Slot <= MaxRoutes
  <2>1. PICK r \in 1 .. MaxRoutes + 1 : InRoutes(r)
    BY <1>1, <1>7 DEF Walking
  <2>2. Listed /\ t = RoutePos(r) /\ r \in 1 .. Len(Routes)
    <3>1. /\ Listed /\ t = RoutePos(r) /\ r \in 1 .. Len(Routes) + 1
          /\ r = Len(Routes) - left["routes"] + 1
      BY <2>1 DEF InRoutes, ReadUpTo, Beside, Slot
    <3>2. Len(Routes) \in Nat /\ left["routes"] \in 0 .. Pool /\ Pool \in Nat
      BY <3>1, ListedIs, Base, LoopNames
    <3> QED
      BY <1>7, <3>1, <3>2
  <2>3. IsObject(tokens, t)
    BY <2>2, RouteIs DEF EndsIn
  <2>4. Slot = r /\ Len(Routes) \in Nat /\ MaxRoutes \in Nat /\ Len(Routes) <= MaxRoutes
    BY <2>1, <2>2, ListedIs, Base DEF InRoutes, ReadUpTo, Beside, SizesFit
  <2> QED
    BY <1>1, <2>2, <2>3, <2>4, ObjectIs
<1>8. ASSUME pc = "dests", left["dests"] > 0 PROVE t < ret /\ Dest <= MaxDepartures
  <2>1. PICK r \in 1 .. MaxRoutes, j \in 1 .. MaxDepartures + 1 : InDests(r, j)
    BY <1>1, <1>8 DEF Walking
  <2>2. AtDests(r, j) /\ t = DestPos(r, j) /\ Listed /\ r \in 1 .. Len(Routes)
    BY <2>1 DEF InDests, AtDests, AtRoute
  <2>3. j \in 1 .. Len(Dests(r))
    BY <1>8, <2>2, DestLimits
  <2>4. IsObject(tokens, t)
    BY <2>2, <2>3, DestIs DEF EndsIn
  <2>5. Dest = j /\ j <= MaxDepartures
    <3>1. j <= Len(Dests(r))
      BY <2>2, <2>3, DestLimits
    <3>2. j \in 1 .. MaxDepartures /\ MaxDepartures \in Nat
      BY <2>2, <3>1, DestLimits
    <3> QED
      BY <2>2, <3>2 DEF AtDests
  <2> QED
    BY <1>1, <2>4, <2>5, ObjectIs
<1>9. ASSUME pc = "preds", left["preds"] > 0 PROVE t < ret
  <2>1. PICK r \in 1 .. MaxRoutes, j \in 1 .. MaxDepartures : InPreds(r, j)
    BY <1>1, <1>9 DEF Walking
  <2>2. left["preds"] # 0
    BY <1>9
  <2>3. AtPreds(r, j) /\ t = PredPos(r, j)
    BY <2>1, <2>2 DEF InPreds
  <2>4. IsObject(tokens, t)
    BY <2>3, PredIs
  <2> QED
    BY <1>1, <2>4, ObjectIs
<1> QED
  BY <1>2, <1>3, <1>4, <1>5, <1>6, <1>7, <1>8, <1>9 DEF Objects, Lists

\* So the walk never goes astray.
LEMMA NeverStray ==
  ASSUME Walks, Walked
  PROVE  ~Stray
<1> SUFFICES ASSUME Stray PROVE Known
  BY DEF Stray
<1>1. Looking
  BY DEF Stray
<1>2. t \in Nat /\ ret \in Nat
  BY Base
<1>3. CASE pc = "root"
  <2>1. t < ret /\ t + 1 < ret
    BY <1>1, <1>3, InsideIs DEF Looking, Objects, Lists
  <2> QED
    BY <1>1, <1>3, <2>1 DEF Known
<1>4. CASE pc \in Objects
  <2>1. left[pc] > 0 /\ t + 1 < ret
    BY <1>1, <1>4, InsideIs DEF Looking, Objects
  <2>2. t < ret
    BY <1>2, <2>1
  <2> QED
    BY <1>1, <1>4, <2>1, <2>2 DEF Known, Objects
<1>5. CASE pc \in Lists
  <2>1. left[pc] > 0 /\ t < ret
    BY <1>1, <1>5, InsideIs DEF Looking, Lists
  <2>2. pc \notin DOMAIN Used
    BY <1>5, UsedKeys DEF Objects, Lists
  <2>3. pc = "routes" => Slot <= MaxRoutes
    BY <2>1, InsideIs
  <2>4. pc = "dests" => Dest <= MaxDepartures
    BY <2>1, InsideIs
  <2> QED
    BY <1>1, <2>1, <2>2, <2>3, <2>4 DEF Known
<1> QED
  BY <1>1, <1>3, <1>4, <1>5 DEF Looking

LEMMA StepWalked == Inv /\ Reading /\ Fitting /\ Walked /\ [Next]_vars => Walked'
<1> SUFFICES ASSUME Inv, Reading, Fitting, Walked, [Next]_vars PROVE Walked'
  OBVIOUS
<1>1. CASE Call \/ Cut \/ Scan
  <2>1. pc' \in {"scan", "parsed"}
    BY <1>1 DEF Call, Cut, Scan, JsmnStep, OpenContainer, Value, NoMemory, CloseContainer,
                Mismatch, Colon, Comma, Unreadable, EndOfText, Advance, EndWith, Scanning
  <2> QED
    BY <2>1 DEF Walked, Returned
<1>2. CASE Refuse
  <2>1. pc' = "idle" /\ result' # 0
    BY <1>2 DEF Refuse, Return
  <2> QED
    BY <2>1 DEF Walked
<1>3. CASE Start
  BY <1>3, StartWalked
<1>4. CASE UNCHANGED vars
  BY <1>4, StutterWalked
<1>5. CASE RootKey \/ LeaveData \/ Finish
           \/ (\E o \in Objects : PlainKey(o))
           \/ (\E o \in Objects \ {"pred"} : EnterList(o) \/ BreakList(o))
           \/ (\E o \in Objects \ {"data"} : LeaveObject(o))
           \/ (\E l \in Lists : EnterObject(l) \/ LeaveList(l))
  <2>1. pc \notin {"idle", "scan", "parsed"}
    BY <1>5 DEF RootKey, LeaveData, Finish, PlainKey, EnterList, BreakList, LeaveObject,
                EnterObject, LeaveList, Objects, Lists
  <2>2. input' = input
    BY <1>5 DEF RootKey, LeaveData, Finish, Return, PlainKey, EnterList, BreakList,
                LeaveObject, EnterObject, LeaveList, Scanned
  <2>3. CASE ~Inputs[input].laidOut
    BY <2>2, <2>3 DEF Walked
  <2>4. CASE Inputs[input].laidOut
    <3>1. Walks
      BY <2>1, <2>4 DEF Walks, Reading
    <3> QED
      BY <1>5, <3>1, RootWalked, FinishWalked, KeyWalked, EnterListWalked, BreakListWalked,
         LeaveObjectWalked, EnterObjectWalked, LeaveListWalked
  <2> QED
    BY <2>3, <2>4
<1>6. CASE Stray
  <2>1. pc \notin {"idle", "scan", "parsed"} /\ input' = input
    BY <1>6 DEF Stray, Looking, Scanned, Objects, Lists
  <2>2. ASSUME Inputs[input].laidOut PROVE FALSE
    <3>1. Walks
      BY <2>1, <2>2 DEF Walks, Reading
    <3> QED
      BY <1>6, <3>1, NeverStray
  <2> QED
    BY <2>1, <2>2 DEF Walked
<1>7. CASE Restart
  BY <1>7 DEF Restart, Walked, Returned
<1> QED
  BY <1>1, <1>2, <1>3, <1>4, <1>5, <1>6, <1>7 DEF Next, Parse

(* The walk over a response that is laid out as expected goes where its     *)
(* objects are, in every loop and after every way out, however many keys    *)
(* they have and in whatever order those of plain values come.              *)
THEOREM WalkInvariant == Spec => [](Inv /\ Reading /\ Fitting /\ Walked)
<1>1. Init => Walked
  BY DEF Init, Walked, Returned
<1>2. Init => Fitting
  BY BootFits DEF Init
<1> QED
  BY <1>1, <1>2, StepFitting, StepWalked, Invariant, ReadingInvariant, PTL DEF Spec

(* Over a response that is laid out as expected the walk never goes astray: *)
(* it reads no token but its own and writes to no element but those of the  *)
(* arrays, though no inner loop compares t with the number of tokens or its *)
(* element with the array.                                                  *)
THEOREM ReadsInside == Spec => []ReadsAllocated
<1>1. Walked => ReadsAllocated
  BY DEF ReadsAllocated, Walked, Walking
<1> QED
  BY <1>1, WalkInvariant, PTL

LEMMA Prefix ==
  ASSUME NEW S, NEW f, NEW s \in Seq(S), \A i \in 1 .. Len(s) : f[i] = s[i]
  PROVE  SubSeq(f, 1, Len(s)) = s
<1> DEFINE n == Len(s)
<1>1. n \in Nat
  OBVIOUS
<1>2. \A i \in 1 .. n : s[i] \in S
  BY ElementOfSeq
<1>3. \A i \in 1 .. n : f[i] = s[i]
  OBVIOUS
<1> HIDE DEF n
<1>4. 1 \in Int /\ n \in Int /\ \A i \in 1 .. n : f[i] \in S
  BY <1>1, <1>2, <1>3
<1> DEFINE p == SubSeq(f, 1, n)
<1>5. /\ p \in Seq(S) /\ Len(p) = IF 1 <= n THEN n - 1 + 1 ELSE 0
      /\ \A i \in 1 .. n - 1 + 1 : p[i] = f[1 + i - 1]
  BY <1>4, SubSeqProperties
<1> HIDE DEF p
<1>6. Len(p) = n
  BY <1>1, <1>5
<1>7. \A i \in 1 .. Len(p) : p[i] = s[i]
  <2> SUFFICES ASSUME NEW i \in 1 .. Len(p) PROVE p[i] = s[i]
    OBVIOUS
  <2>1. i \in 1 .. n /\ i \in 1 .. n - 1 + 1 /\ 1 + i - 1 = i
    BY <1>1, <1>6
  <2> QED
    BY <1>3, <1>5, <2>1
<1>8. p = s
  BY <1>5, <1>6, <1>7, SeqEqual DEF n
<1> QED
  BY <1>8 DEF p, n

\* A slot that has been read, as update_stop() sees it.
LEMMA SeenRead ==
  ASSUME NEW i \in 1 .. MaxRoutes, SlotRead(i), Dests(i) \in Seq([dir : STRING, min : Int])
  PROVE  Seen(stop).slots[i] = ParsedSlot(Seen(old).slots[i], Routes[i])
<1> DEFINE x == Seen(old).slots[i]
<1>1. /\ x = [id |-> old.slots[i].id, dests |-> SubSeq(old.slots[i].dests, 1, old.slots[i].size)]
      /\ Seen(stop).slots[i] =
           [id |-> stop.slots[i].id, dests |-> SubSeq(stop.slots[i].dests, 1, stop.slots[i].size)]
  BY DEF Seen
<1>2. SubSeq(stop.slots[i].dests, 1, stop.slots[i].size) =
        IF Dests(i) = <<>> THEN x.dests ELSE Dests(i)
  <2>1. CASE Dests(i) = <<>>
    <3>1. stop.slots[i].size = old.slots[i].size /\ stop.slots[i].dests = old.slots[i].dests
      BY <2>1 DEF SlotRead
    <3>2. x.dests = SubSeq(old.slots[i].dests, 1, old.slots[i].size)
      <4> HIDE DEF x
      <4> QED
        BY <1>1
    <3> QED
      BY <2>1, <3>1, <3>2
  <2>2. CASE Dests(i) # <<>>
    <3>1. stop.slots[i].size = Len(Dests(i))
          /\ \A j \in 1 .. Len(Dests(i)) : stop.slots[i].dests[j] = Dests(i)[j]
      BY <2>2 DEF SlotRead
    <3> DEFINE f == stop.slots[i].dests
               s == Dests(i)
    <3>2. s \in Seq([dir : STRING, min : Int]) /\ \A j \in 1 .. Len(s) : f[j] = s[j]
      BY <3>1
    <3> HIDE DEF f, s
    <3>3. SubSeq(f, 1, Len(s)) = s
      BY <3>2, Prefix
    <3> QED
      BY <2>2, <3>1, <3>3 DEF f, s
  <2> QED
    BY <2>1, <2>2
<1> HIDE DEF x
<1> QED
  BY <1>1, <1>2 DEF ParsedSlot, SlotRead, Dests, x

LEMMA SeenWhole ==
  ASSUME stop \in Stops, old \in Stops, SizesFit, WholeRead,
         Body.kind \in {"no_routes", "routes"}, Body.kind = "routes" => Routes \in Listings
  PROVE  Seen(stop) = ParsedStop(Seen(old), Body)
<1>1. CASE Body.kind = "no_routes"
  BY <1>1 DEF WholeRead, ParsedStop
<1>2. CASE Body.kind = "routes"
  <2> DEFINE n == Len(Routes)
  <2>1. Routes \in Seq([id : STRING, dests : Seq([dir : STRING, min : Int])])
    BY <1>2 DEF Listings
  <2>2. n \in Nat /\ MaxRoutes \in Nat
    BY <2>1, RoutesAssumption
  <2>3. ReadUpTo(n + 1)
    BY <1>2 DEF WholeRead
  <2>4. stop.size = n /\ n <= MaxRoutes
    BY <2>3 DEF ReadUpTo, Beside, SizesFit
  <2> HIDE DEF n
  <2>5. ASSUME NEW i \in 1 .. MaxRoutes
        PROVE  Seen(stop).slots[i] =
                 IF i <= n THEN ParsedSlot(Seen(old).slots[i], Routes[i]) ELSE Seen(old).slots[i]
    <3>1. CASE i <= n
      <4>1. i \in 1 .. (n + 1) - 1 /\ i \in 1 .. n
        BY <2>2, <3>1
      <4>2. SlotRead(i)
        BY <2>3, <4>1 DEF ReadUpTo, Beside
      <4>3. Routes[i] \in [id : STRING, dests : Seq([dir : STRING, min : Int])]
        BY <2>1, <4>1, ElementOfSeq DEF n
      <4>4. Dests(i) \in Seq([dir : STRING, min : Int])
        BY <4>3 DEF Dests
      <4> QED
        BY <3>1, <4>2, <4>4, SeenRead
    <3>2. CASE ~(i <= n)
      <4>1. i = n + 1 \/ i \in (n + 1) + 1 .. MaxRoutes
        BY <2>2, <3>2
      <4>2. stop.slots[i] = old.slots[i]
        BY <2>3, <4>1 DEF ReadUpTo, Beside, SlotKept
      <4> QED
        BY <3>2, <4>2 DEF Seen
    <3> QED
      BY <3>1, <3>2
  <2>6. /\ Seen(stop).size = n
        /\ Seen(stop) = [size |-> Seen(stop).size, slots |-> Seen(stop).slots]
        /\ Seen(stop).slots = [i \in 1 .. MaxRoutes |-> Seen(stop).slots[i]]
    BY <2>4 DEF Seen
  <2>7. Seen(stop).slots =
          [i \in 1 .. MaxRoutes |->
             IF i <= n THEN ParsedSlot(Seen(old).slots[i], Routes[i]) ELSE Seen(old).slots[i]]
    BY <2>5, <2>6
  <2>8. ParsedStop(Seen(old), Body) =
          [size |-> n,
           slots |-> [i \in 1 .. MaxRoutes |->
             IF i <= n THEN ParsedSlot(Seen(old).slots[i], Routes[i]) ELSE Seen(old).slots[i]]]
    BY <1>2 DEF ParsedStop, Routes, n
  <2> QED
    BY <2>6, <2>7, <2>8
<1> QED
  BY <1>1, <1>2

(* When a call succeeds on a response that is laid out as expected, the     *)
(* Stop is exactly what the response says - every route in its slot, every  *)
(* destination with its direction and its minutes, what it does not list as *)
(* it was - and when a call fails, the Stop is as it was.                   *)
THEOREM Reads == Spec => []ReadsStop
<1>1. Inv /\ Reading /\ Fitting /\ Walked => ReadsStop
  <2> SUFFICES ASSUME Inv, Reading, Fitting, Walked,
                      Returned, result = 0, Inputs[input].laidOut
               PROVE  Seen(stop) = ParsedStop(Seen(old), Body)
    BY DEF ReadsStop, Inv, Untouched, Body
  <2>1. WholeRead /\ SizesFit /\ stop \in Stops /\ old \in Stops
    BY LayoutAssumption DEF Walked, Fitting, Inv, Kinds, Reading
  <2>2. input \in DOMAIN Inputs /\ Complete
    BY DEF Reading
  <2>3. Body.kind \in {"no_routes", "routes"}
    BY <2>2, BodiesAssumption DEF Complete, Given, Body
  <2>4. Body.kind = "routes" => Routes \in Listings
    <3> SUFFICES ASSUME Body.kind = "routes" PROVE Routes \in Listings
      OBVIOUS
    <3>1. IsAnswer(Inputs[input].tokens, Body)
      BY <2>2, LayoutAssumption DEF Body
    <3>2. Body.kind # "no_routes"
      OBVIOUS
    <3> QED
      BY <3>1, <3>2 DEF IsAnswer, IsData, Routes
  <2> QED
    BY <2>1, <2>3, <2>4, SeenWhole
<1> QED
  BY <1>1, WalkInvariant, PTL
=============================================================================
