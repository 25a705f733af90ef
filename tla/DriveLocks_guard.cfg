CONSTANTS
  A = A  B = B  X = X  T1 = T1  T2 = T2  T3 = T3
  Paths <- TwoFolders
  Tokens = {T1, T2}
  Second = 1
  Lifetime = 1
  Timeouts = {1}
  MaxLocks = 2
  MaxSharedLocks = 0
SPECIFICATION Spec
SYMMETRY FolderSymmetry
VIEW WithoutRequest
CHECK_DEADLOCK FALSE
PROPERTIES ExclusiveLockHolds
