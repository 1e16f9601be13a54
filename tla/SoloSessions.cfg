CONSTANTS
  Callers = {t1}
  Me = t1
  MaxRejected = 2
  SessionLimit = 0
  MaxRoundTime = 2
SPECIFICATION Spec
INVARIANTS
  StopHonoured
  NeverAborts
  RejectedBudget
PROPERTIES
  KeepsContract
