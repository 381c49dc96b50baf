---------------------------- MODULE MCUpdateStop ----------------------------
(* A small instance of UpdateStop: two boxes, routes A and B in direction x, *)
(* lists of up to two destinations.                                         *)
EXTENDS UpdateStop

CONSTANTS A, B, x, y

IdsDef   == {A, B}
DirsDef  == {x, y}
BoxesDef == <<[id |-> A, dir |-> x], [id |-> B, dir |-> x]>>

Dest(d, m) == [dir |-> d, min |-> m]

\* Route A with each order of due now, soon, later and without a prediction, of
\* one, two, three and four digits, and overdue.
ListsA == {<<Dest(x, -1), Dest(x, 2)>>, <<Dest(x, 0), Dest(x, 12)>>,
           <<Dest(x, 12), Dest(x, 0)>>, <<Dest(x, 805), Dest(x, 12)>>,
           <<Dest(x, 2), Dest(x, 12)>>, <<Dest(x, -2), Dest(x, 1000)>>,
           <<Dest(x, 1000)>>, <<>>}
ListsB == {<<>>, <<Dest(x, 12)>>, <<Dest(y, 5), Dest(x, 2)>>}

RouteA == [id : {A}, dests : ListsA]
RouteB == [id : {B}, dests : ListsB]

Late  == [id |-> A, dests |-> <<Dest(x, 12), Dest(x, 2)>>]
Later == [id |-> A, dests |-> <<Dest(x, 805)>>]

ResponsesDef ==
  [kind : {"unreadable", "no_data", "no_routes"}]
    \cup [kind : {"routes"}, routes : {<<a>> : a \in RouteA} \cup ({Late} \X RouteB)
                                        \cup (RouteB \X {Later})]
=============================================================================
