--------------------------- MODULE MCParseSwiftly ---------------------------
(* An instance of ParseSwiftly: texts built from trees, with the tokens and *)
(* the stop each should give.  Two routes of two destinations each take 137 *)
(* of the pool's 138 tokens with the eight keys of a prediction that its    *)
(* comment counts, and 153 with all ten that the code names.                *)
EXTENDS ParseSwiftly, SequencesExt

\* A tree: a plain value, an array of trees, an object of <<key, tree>> pairs.
Str(s)   == [type |-> "string", text |-> s, num |-> 0]
Num(n)   == [type |-> "primitive", text |-> "", num |-> n]
Arr(es)  == [type |-> "array", elems |-> es]
Obj(ps)  == [type |-> "object", pairs |-> ps]

Lx(kind, ty)  == [k |-> kind, type |-> ty, text |-> "", num |-> 0]
Plain(v)      == [k |-> "value", type |-> v.type, text |-> v.text, num |-> v.num]
Separated(ss) == FlattenSeq([i \in DOMAIN ss |->
                               IF i = 1 THEN ss[1] ELSE <<Lx("comma", "string")>> \o ss[i]])

\* The text of a tree.
RECURSIVE Text(_)
Text(tree) ==
  CASE tree.type = "array" ->
         <<Lx("open", "array")>>
           \o Separated([i \in DOMAIN tree.elems |-> Text(tree.elems[i])])
           \o <<Lx("close", "array")>>
    [] tree.type = "object" ->
         <<Lx("open", "object")>>
           \o Separated([i \in DOMAIN tree.pairs |->
                           <<Plain(Str(tree.pairs[i][1])), Lx("colon", "string")>>
                             \o Text(tree.pairs[i][2])])
           \o <<Lx("close", "object")>>
    [] OTHER -> <<Plain(tree)>>

Tk(v, n) == [type |-> v.type, text |-> v.text, num |-> v.num, size |-> n, open |-> FALSE]
Box(ty)  == [type |-> ty, text |-> "", num |-> 0]

\* The tokens of a tree, in the order of the text.
RECURSIVE Tokens(_)
Tokens(tree) ==
  CASE tree.type = "array" ->
         <<Tk(Box("array"), Len(tree.elems))>>
           \o FlattenSeq([i \in DOMAIN tree.elems |-> Tokens(tree.elems[i])])
    [] tree.type = "object" ->
         <<Tk(Box("object"), Len(tree.pairs))>>
           \o FlattenSeq([i \in DOMAIN tree.pairs |->
                            <<Tk(Str(tree.pairs[i][1]), 1)>> \o Tokens(tree.pairs[i][2])])
    [] OTHER -> <<Tk(tree, 0)>>

-----------------------------------------------------------------------------
(* Bodies: routes and destinations as in Stop, written out as a tree.      *)

Pairs(ks) == [i \in DOMAIN ks |-> <<ks[i], Str("-")>>]

Prediction(m, ks) == Obj(Pairs(ks) \o <<<<"min", Num(m)>>, <<"tripId", Str("-")>>>>)

\* A destination without prediction has an empty list.
Destination(d, ks) ==
  Obj(<<<<"directionId", Str(d.dir)>>, <<"headsign", Str("-")>>,
        <<"predictions", Arr(IF d.min = -1 THEN <<>> ELSE <<Prediction(d.min, ks)>>)>>>>)

Route(r, ks, rks) ==
  Obj(Pairs(rks) \o <<<<"routeId", Str(r.id)>>,
                      <<"destinations",
                        Arr([i \in DOMAIN r.dests |-> Destination(r.dests[i], ks)])>>>>)

Answer(data) == Obj(<<<<"success", Num(1)>>, <<"route", Str("-")>>, <<"data", data>>>>)

Data(list) == Obj(<<<<"agencyKey", Str("-")>>, <<"predictionsData", list>>>>)

Whole(routes, ks, rks) ==
  Answer(Data(Arr([i \in DOMAIN routes |-> Route(routes[i], ks, rks)])))

Input(tree, body, ok) ==
  [text |-> Text(tree), tokens |-> Tokens(tree), body |-> body, laidOut |-> ok]

Listing(rs) == [kind |-> "routes", routes |-> rs]
D(d, m) == [dir |-> d, min |-> m]

TwoByTwo == <<[id |-> "A", dests |-> <<D("0", 3), D("1", 0)>>],
              [id |-> "B", dests |-> <<D("0", 12), D("1", 41)>>]>>
Sparse   == <<[id |-> "A", dests |-> <<D("0", -1), D("1", 0)>>], [id |-> "C", dests |-> <<>>]>>
Alone    == <<[id |-> "A", dests |-> <<D("0", 3)>>]>>
Overdue  == <<[id |-> "A", dests |-> <<D("0", -3)>>]>>

\* The keys of a prediction beside min and tripId: as the comment counts, all.
CountedKeys == <<"time", "sec", "departure", "blockId", "scheduleBased", "vehicleId">>
AllKeys     == CountedKeys \o <<"delayed", "occupancyStatus">>
RouteKeys   == <<"routeShortName", "routeName", "stopId", "stopName", "stopCode">>

LaidOut ==
  <<Input(Whole(TwoByTwo, CountedKeys, RouteKeys), Listing(TwoByTwo), TRUE),
    Input(Whole(Sparse, <<"sec">>, <<>>), Listing(Sparse), TRUE),
    Input(Arr(<<Whole(Overdue, <<>>, <<>>)>>), Listing(Overdue), TRUE)>>

\* Empty lists, and an error reply.
NoRoutes ==
  LET of(tree) == Input(tree, [kind |-> "no_routes"], TRUE)
  IN  <<of(Answer(Data(Arr(<<>>)))), of(Obj(<<<<"success", Num(0)>>>>)),
        of(Answer(Obj(<<<<"agencyKey", Str("-")>>>>)))>>

NoData ==
  LET of(tree) == Input(tree, [kind |-> "no_data"], FALSE)
  IN  <<of(Obj(<<>>)), of(Arr(<<>>))>>

\* Laid out otherwise: two predictions a destination; three, whose keys come
\* round again; a kept key after its list; other keys after each list.
Of(route) == Input(Answer(Data(Arr(<<Obj(route)>>))), Listing(Alone), FALSE)
Id        == <<"routeId", Str("A")>>
Dir       == <<"directionId", Str("0")>>
Dests(d)  == <<"destinations", Arr(<<Obj(d)>>)>>
Due(m)    == Obj(<<<<"min", Num(m)>>, <<"tripId", Str("-")>>>>)
Preds(ms) == <<"predictions", Arr([i \in DOMAIN ms |-> Due(ms[i])])>>

Otherwise ==
  <<Of(<<Id, Dests(<<Dir, Preds(<<3, 0>>)>>)>>),
    Of(<<Id, Dests(<<Dir, Preds(<<3, 0, -3>>)>>)>>),
    Of(<<Id, Dests(<<Preds(<<3>>), Dir>>)>>),
    Of(<<Dests(<<Dir, Preds(<<3>>)>>), Id>>),
    Input(Answer(Obj(<<<<"predictionsData",
                         Arr(<<Obj(<<Id, Dests(<<Dir, Preds(<<3>>)>>), <<"stopId", Str("-")>>>>)>>)>>,
                       <<"agencyKey", Str("-")>>>>)),
          Listing(Alone), FALSE)>>

\* A key that looks for its value behind the last token.
Valueless == <<Input(Arr(<<Str("-"), Str("data")>>), [kind |-> "no_routes"], FALSE)>>

\* A route and a destination more than the arrays hold.
TooLong ==
  LET three == <<D("0", 3), D("1", 0), D("1", 0)>>
      routes(ds) == [i \in 1 .. 3 |-> [id |-> "A", dests |-> ds]]
      of(rs) == Input(Whole(rs, <<>>, <<>>), Listing(rs), FALSE)
  IN  <<of(routes(<<>>)), of(<<[id |-> "A", dests |-> three]>>)>>

\* More tokens than the pool has, laid out as expected.
TooLarge == <<Input(Whole(TwoByTwo, AllKeys, RouteKeys), Listing(TwoByTwo), TRUE)>>

\* Nothing, brackets that do not match or are not opened, a stray byte, no root.
Broken ==
  LET of(s, ts) == [text |-> s, tokens |-> ts, body |-> [kind |-> "unreadable"],
                    laidOut |-> FALSE]
  IN  <<of(<<>>, <<>>),
        of(<<Lx("open", "array"), Lx("close", "object")>>, <<>>),
        of(<<Lx("open", "object"), Lx("close", "object"), Lx("close", "object")>>, <<>>),
        of(<<Lx("open", "object"), Lx("bad", "string")>>, <<>>),
        of(<<Plain(Str("-")), Lx("comma", "string"), Plain(Num(1))>>,
           <<Tk(Str("-"), 0), Tk(Num(1), 0)>>)>>

InputsDef == LaidOut \o NoRoutes \o NoData
               \o Otherwise \o Valueless \o TooLong \o TooLarge \o Broken
=============================================================================
