CONSTANTS
  A = A  B = B  X = X  T1 = T1  T2 = T2  T3 = T3
  Paths <- OneFolder
  Tokens = {T1, T2, T3}
  Second = 2
  Lifetime = 3
  Timeouts = {2}
  MaxLocks = 2
  MaxSharedLocks = 2
SPECIFICATION Spec
SYMMETRY TokenSymmetry
VIEW WithoutRequest
CHECK_DEADLOCK FALSE
INVARIANTS TypeOK LockTable LockEndsWithDrive
PROPERTIES LiveLocksPersist
