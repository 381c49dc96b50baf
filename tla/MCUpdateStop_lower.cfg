\* The message about a lower time.
SPECIFICATION Spec
CONSTANTS
  A = A
  B = B
  x = x
  y = y
  None = None
  Ids <- IdsDef
  Dirs <- DirsDef
  Boxes <- BoxesDef
  MaxRoutes = 2
  Responses <- ResponsesDef
  Faults = {}
  UintMax = 65535
PROPERTIES
  LowerTimeStays
