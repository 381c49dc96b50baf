\* Which numbers end up where, update after update, on a sign in order and on one
\* whose peripherals may fail at every use.
SPECIFICATION Spec
CONSTANTS
  A = A
  B = B
  x = x
  y = y
  None = None
  Ids <- IdsDef
  Dirs <- DirsDef
  Boxes <- BoxesDef
  MaxRoutes = 2
  Responses <- ResponsesDef
  Faults = {"switch", "mux", "strip"}
  UintMax = 65535
INVARIANTS
  TypeOK
  ShowsLowest
  LitIsCurrent
  FromThisResponse
  NamedAreLit
PROPERTIES
  OnlyItsOwnDigits
  ImplementsBoard
