CONSTANTS
  Callers = {t1, t2}
  MaxRejected = 1
  SessionLimit = 2
  MaxRoundTime = 2
SPECIFICATION Spec
INVARIANTS
  FreshStop
PROPERTIES
  LimitEndsSession
