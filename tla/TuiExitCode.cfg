CONSTANTS
  MaxRounds = 1
  MaxKeys = 2
  Ranges <- SomeRanges
  Widths <- SomeWidths
  Lines <- SomeLines
  MaxLines = 3
  Ignoring <- SomeIgnoring
  Outputs <- SomeOutputs
  MaxSeconds = 2
  MinDetect = 2
  Headers <- SomeHeaders
  Cells <- SomeCells
  MaxPI = 2
SPECIFICATION MCSpec
INVARIANTS
  LimitTold
CHECK_DEADLOCK FALSE
