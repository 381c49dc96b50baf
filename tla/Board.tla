-------------------------------- MODULE Board --------------------------------
(***************************************************************************)
(* What update_stop() and the display switches promise about the boxes of  *)
(* the sign: they change only during an update, which first switches all   *)
(* of them off and then only switches boxes on, and at a restart.  A       *)
(* broken switch may stay on when it is switched off.                      *)
(***************************************************************************)
CONSTANT Positions

VARIABLES
  updating,  \* update_routes() runs
  lit,       \* for each position, whether its box is switched on
  stuck      \* switches may fail

boardVars == <<updating, lit, stuck>>

Dark == [p \in Positions |-> FALSE]

\* What may be left of lit boxes that are switched off.
Swept == IF stuck THEN {off \in [Positions -> BOOLEAN] : \A p \in Positions : off[p] => lit[p]}
                  ELSE {Dark}

BoardInit == updating = FALSE /\ lit = Dark /\ stuck \in BOOLEAN

Sweep ==
  /\ ~updating /\ updating' = TRUE
  /\ lit' \in Swept
  /\ UNCHANGED stuck

Light(p) ==
  /\ updating
  /\ lit' = [lit EXCEPT ![p] = TRUE]
  /\ UNCHANGED <<updating, stuck>>

EndUpdate ==
  /\ updating /\ updating' = FALSE
  /\ UNCHANGED <<lit, stuck>>

GoDark ==
  /\ ~updating
  /\ lit' = Dark
  /\ UNCHANGED <<updating, stuck>>

BoardNext == Sweep \/ (\E p \in Positions : Light(p)) \/ EndUpdate \/ GoDark

BoardSpec == BoardInit /\ [][BoardNext]_boardVars
=============================================================================
