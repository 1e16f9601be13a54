CONSTANTS
  PIs = {p1}
  MaxUnits = 3
  MinDetect = 2
  WarmPercent = 40
  MaxImports = 4
  LateSetup = FALSE
  Replacing = TRUE
  NullColumns = FALSE
  ReadingsGiven = {TRUE}
SPECIFICATION Spec
INVARIANTS
  WarmWithinRound
  TotalsExact
  ReadingsAligned
  NoWildAccess
CHECK_DEADLOCK FALSE
