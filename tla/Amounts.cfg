CONSTANTS
  Ranges <- SomeRanges
  WpsModes = {"off", "on", "must"}
  UnitDemands = {0, 50, 20000}
  Comparisons = {1000}
  SliceChoices = {5, 9, 30}
  Querying = TRUE
  MaxRounds = 12
  WideDemands = {20000}
  NarrowRounds = 5
SPECIFICATION MCSpec
INVARIANTS
  WithinRange
  TrapOnlyAtFirst
  SoftLimitKeepsMinimum
  ShortRoundGrows
  QueryPredicts
CHECK_DEADLOCK FALSE
