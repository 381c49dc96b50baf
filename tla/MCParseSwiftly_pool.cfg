\* The comments on the pool.
SPECIFICATION Spec
CONSTANTS
  None = "none"
  MaxRoutes = 2
  MaxDepartures = 2
  Pool = 138
  Inputs <- InputsDef
INVARIANTS
  PoolHoldsExpected
