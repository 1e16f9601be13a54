CONSTANTS
  MaxRounds = 2
  MaxChunks = 3
  MaxRejected = 1
  SessionLimit = 0
  MaxRoundTime = 1
SPECIFICATION RunSpec
INVARIANTS
  StreamOpen
  NothingLost
  WholeLines
  LastClientOnly
PROPERTIES
  RoundEnds
CHECK_DEADLOCK FALSE
