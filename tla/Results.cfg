CONSTANTS
  NumPI = 2
  DetectMin = 3
  Few = 4
  Part = 3
  Rounds <- SomeRounds
  Batches = {1, 6}
  Coarse = FALSE
  MaxImports = 2
  MaxSets = 1
  MaxExports = 2
SPECIFICATION MCSpec
INVARIANTS
  ChangepointUsable
  HookSeesOwnPi
  ExportConsistent
  LogKept
PROPERTIES
  ReadFresh
