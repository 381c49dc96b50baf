-------------------------------- MODULE Jsmn --------------------------------
(***************************************************************************)
(* The tokenizer app/src/json/jsmn.h as it is built here, without          *)
(* JSMN_STRICT and JSMN_PARENT_LINKS: one pass over the text that fills a  *)
(* pool of tokens, each container and key counting what is directly in it. *)
(*                                                                         *)
(* The text is a sequence of lexemes; white space is left out.  Indices    *)
(* start at 1, and 0 stands for the code's -1.                             *)
(***************************************************************************)
EXTENDS Integers, Sequences

CONSTANT Pool  \* num_tokens

ASSUME PoolAssumption == Pool \in Nat

VARIABLES
  pc,        \* "scan" the text, or what the caller does
  js,        \* the text from parser.pos to its terminator
  tokens,    \* the tokens allocated: parser.toknext is their number
  toksuper,  \* the token that counts the next one
  ret        \* what jsmn_parse() returned

jsmnVars == <<pc, js, tokens, toksuper, ret>>

Containers == {"object", "array"}
NOMEM == -1
INVAL == -2
PART  == -3

\* What a string says; "" for the tokens that say nothing.
Texts == STRING \cup {""}

\* A lexeme is a bracket of a container, a string or an unquoted value, ':' or
\* ',', a string without its closing quote, or a character no JSON text has.
Lexemes ==
  {x \in [k : {"open", "close", "value", "colon", "comma", "half", "bad"},
          type : Containers \cup {"string", "primitive"},
          text : Texts, num : Int] :
     x.k \in {"open", "close"} <=> x.type \in Containers}

Token(x) == [type |-> x.type, text |-> x.text, num |-> x.num, size |-> 0,
             open |-> x.type \in Containers]

\* Tokens that have a start and no end yet.
OpenTokens == {i \in DOMAIN tokens : tokens[i].open}

\* The downward scans: the highest index of a set, 0 when there is none.
Highest(S) == IF S = {} THEN 0 ELSE CHOOSE i \in S : \A j \in S : j <= i

Scanning == pc = "scan" /\ js # <<>>

Lexeme == Head(js)

\* parser.pos++ of the loop.
Advance == js' = Tail(js) /\ UNCHANGED <<pc, ret>>

EndWith(r) == pc' = "parsed" /\ ret' = r /\ UNCHANGED <<js, tokens, toksuper>>

-----------------------------------------------------------------------------
\* jsmn_init(); the tokens are the caller's and go with its stack frame.
Renewed(text) ==
  js' = text /\ tokens' = <<>> /\ toksuper' = 0 /\ ret' = 0

\* Seeded fault: one token too many.
PoolLeftLate == Len(tokens) <= Pool

PoolLeft == Len(tokens) < Pool

\* A token is allocated, and counted by the one above it.
Allocate(x) ==
  Append(IF toksuper = 0 THEN tokens ELSE [tokens EXCEPT ![toksuper].size = @ + 1],
         Token(x))

OpenContainer ==
  /\ Scanning /\ Lexeme.k = "open" /\ PoolLeft
  /\ tokens' = Allocate(Lexeme)
  /\ toksuper' = Len(tokens) + 1
  /\ Advance

Value ==
  /\ Scanning /\ Lexeme.k = "value" /\ PoolLeft
  /\ tokens' = Allocate(Lexeme)
  /\ UNCHANGED toksuper
  /\ Advance

NoMemory ==
  /\ Scanning /\ Lexeme.k \in {"open", "value"} /\ ~PoolLeft
  /\ EndWith(NOMEM)

Innermost == Highest(OpenTokens)

Closes == OpenTokens # {} /\ tokens[Innermost].type = Lexeme.type

\* The innermost open container is closed, the one around it counts again.
CloseContainer ==
  /\ Scanning /\ Lexeme.k = "close" /\ Closes
  /\ tokens' = [tokens EXCEPT ![Innermost].open = FALSE]
  /\ toksuper' = Highest(OpenTokens \ {Innermost})
  /\ Advance

Mismatch ==
  /\ Scanning /\ Lexeme.k = "close" /\ ~Closes
  /\ EndWith(INVAL)

\* After ':' the key before it counts the value.
Colon ==
  /\ Scanning /\ Lexeme.k = "colon"
  /\ toksuper' = Len(tokens)
  /\ UNCHANGED tokens
  /\ Advance

\* Seeded fault: after ',' the key goes on counting.
CommaKeepingKey ==
  /\ Scanning /\ Lexeme.k = "comma"
  /\ UNCHANGED <<tokens, toksuper>>
  /\ Advance

\* After ',' the container counts again.
Comma ==
  /\ Scanning /\ Lexeme.k = "comma"
  /\ toksuper' = IF toksuper # 0 /\ tokens[toksuper].type \notin Containers
                    /\ OpenTokens # {}
                 THEN Innermost ELSE toksuper
  /\ UNCHANGED tokens
  /\ Advance

\* A string that does not end; a character that is none of JSON's.
Unreadable ==
  /\ Scanning /\ Lexeme.k \in {"half", "bad"}
  /\ EndWith(IF Lexeme.k = "half" THEN PART ELSE INVAL)

\* Seeded fault: what is still open at the end is not looked for.
EndOfTextUnchecked ==
  /\ pc = "scan" /\ js = <<>>
  /\ EndWith(Len(tokens))

EndOfText ==
  /\ pc = "scan" /\ js = <<>>
  /\ EndWith(IF OpenTokens = {} THEN Len(tokens) ELSE PART)

JsmnStep == \/ OpenContainer \/ Value \/ NoMemory \/ CloseContainer \/ Mismatch
            \/ Colon \/ Comma \/ Unreadable \/ EndOfText

-----------------------------------------------------------------------------
JsmnTypeOK ==
  /\ Len(tokens) <= Pool
  /\ \A i \in DOMAIN tokens : /\ tokens[i].type \in Containers \cup {"string", "primitive"}
                              /\ tokens[i].size \in 0 .. Len(tokens) - i
                              /\ tokens[i].open \in BOOLEAN
  /\ toksuper \in 0 .. Len(tokens)
  /\ ret \in PART .. Pool
=============================================================================
