\* Every stream of up to eight bytes that matter to the automaton.
SPECIFICATION Spec
CONSTANTS
  MaxBytes = 8
INVARIANTS
  StopsAtBlankLine
  NoAnswerWithoutEnd
