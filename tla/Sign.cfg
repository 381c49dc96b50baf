\* The debug build, with its halt loop, driving two boxes; a tick is half a period.
SPECIFICATION SignSpec
CONSTANTS
  UpdatePeriod = 2
  WdtWindow = 4
  RetryCount = 1
  HaltNap = 2
  Debug = TRUE
  Positions = {1, 2}
  MaxRedirects = 1
  Readings = {9, 10}
INVARIANTS
  SignTypeOK
  ShownIsRecent
PROPERTIES
  TornGoesDark
  RevertedEarly
