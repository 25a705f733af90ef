CONSTANTS
  A = A  B = B  X = X  R1 = R1  R2 = R2
  Paths <- TwoFolders
  Requests = {R1, R2}
  Sizes = {1, 2}
  Destinations <- TwoFolders
  Faults = {"put", "audit", "delete", "crash"}
  MaxBytes = 2
  MaxFiles = 3
  MaxUnits = 2
SPECIFICATION FairSpec
CHECK_DEADLOCK FALSE
INVARIANTS TypeOK CounterEqualsStored NeverOverCap
PROPERTIES FailureChangesNothing EveryRequestAnswered
