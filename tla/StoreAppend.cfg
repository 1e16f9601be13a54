CONSTANTS
  PIs = {p1, p2}
  MaxUnits = 2
  MinDetect = 2
  WarmPercent = 40
  MaxImports = 3
  LateSetup = FALSE
  Replacing = FALSE
  NullColumns = FALSE
  ReadingsGiven = {TRUE, FALSE}
SPECIFICATION Spec
INVARIANTS
  IteratorExact
  RejectedExact
CHECK_DEADLOCK FALSE
