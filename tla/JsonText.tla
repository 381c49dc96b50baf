------------------------------ MODULE JsonText ------------------------------
(***************************************************************************)
(* What the first n lexemes of a text s say, by their positions: which     *)
(* brackets match, and which tokens they make.  It is the reference that   *)
(* the tokenizer of module Jsmn, which reads lexeme by lexeme, is held to. *)
(***************************************************************************)
EXTENDS Integers, Sequences, FiniteSets

Places(s, n, kinds) == {i \in 1 .. n : s[i].k \in kinds}

\* The lexemes that make a token, and the index of the token made.
Made(s, n) == Places(s, n, {"open", "value"})
Rank(s, p) == Cardinality(Made(s, p))

Depth(s, n) ==
  Cardinality(Places(s, n, {"open"})) - Cardinality(Places(s, n, {"close"}))

\* The bracket at o is opened and not closed yet; the last such one.
StillOpen(s, o, n) ==
  o \in Places(s, n, {"open"}) /\ \A i \in o .. n : Depth(s, i) >= Depth(s, o)

Within(s, o, n) == Depth(s, o) = Depth(s, n) /\ StillOpen(s, o, n)

\* Every closing bracket closes one of its type.
Matched(s, n) ==
  \A c \in Places(s, n, {"close"}) :
    \E o \in 1 .. c - 1 : s[o].type = s[c].type /\ Within(s, o, c - 1)

Balanced(s, n) ==
  /\ Depth(s, n) = 0
  /\ Places(s, n, {"half", "bad"}) = {}
  /\ Matched(s, n)

\* One container that holds anything.
IsResponse(s, n) ==
  /\ Balanced(s, n)
  /\ Rank(s, n) >= 2
  /\ \E p \in Made(s, n) : Rank(s, p) = 1 /\ s[p].k = "open"

-----------------------------------------------------------------------------
\* Colons follow keys, in an object; tokens follow a bracket, a comma or a colon.
InOrder(s) ==
  \A i \in DOMAIN s :
    /\ s[i].k = "colon" => i > 1 /\ s[i - 1].k = "value" /\ Depth(s, i) > 0
    /\ (s[i].k \in {"open", "value"} /\ i > 1) => s[i - 1].k \in {"open", "comma", "colon"}

\* The token made at p counts the one made at q: a key its value, a container
\* its keys or its elements.
Counts(s, p, q) ==
  q > 1 /\ IF s[q - 1].k = "colon" THEN p = q - 2 ELSE Within(s, p, q - 1)

Counted(s, p, n) == {q \in Made(s, n) : Counts(s, p, q)}

\* The tokens of a text: the k-th is made by the k-th lexeme that makes one.
TokensOf(s) ==
  [k \in 1 .. Rank(s, Len(s)) |->
     LET p == CHOOSE p \in Made(s, Len(s)) : Rank(s, p) = k
     IN  [type |-> s[p].type, text |-> s[p].text, num |-> s[p].num,
          size |-> Cardinality(Counted(s, p, Len(s))), open |-> FALSE]]
=============================================================================
