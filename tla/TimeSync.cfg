\* Two tries a server, answers within 4 s, names within 1 s, a tick is a second.
SPECIFICATION Spec
CONSTANTS
  Retries = 2
  Timeout = 4
  MaxResolve = 1
  RebootTicks = 4
  Pool = 6
INVARIANTS
  TypeOK
  SuccessIsFresh
  InTime
  LeakPerCall
PROPERTIES
  Spaced
