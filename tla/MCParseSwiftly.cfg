\* Two routes of two departures; texts whole, cut anywhere, and malformed.
SPECIFICATION FairSpec
CONSTANTS
  None = "none"
  MaxRoutes = 2
  MaxDepartures = 2
  Pool = 138
  Inputs <- InputsDef
INVARIANTS
  TypeOK
  
  TokensMatchText
  SucceedsOnWhole
  ReadsStop
  ReadsAllocated
PROPERTIES
  ParserReturns
