CONSTANTS
  Sizes = {1, 5, 9}
  MinSizes = {1, 2}
  DetectMin = 2
  PLevels = {0, 1, 2}
  TLevels = {0, 1}
  Ranges <- SomeRanges
  TieFactor <- SomeTies
  Width <- SomeWidth
  RateWidth <- SomeRateWidth
  ShareWidth <- SomeShare
  MinSample = 2
  Patterns <- SomePatterns
  Durations = {1, 2, 3}
  ShortRound = 0
  SwitchRounds = {4}
  Limit <- SomeLimit
  TSquared <- SomeQuantile
SPECIFICATION MCSpec
INVARIANTS
  ProposalsSound
  TestsCurrent
  AnswerRight
  ChangesFound
  EnoughAsked
  ModelTrue
  RegressionsEnd
PROPERTIES
  DetectionEnds
CHECK_DEADLOCK FALSE
