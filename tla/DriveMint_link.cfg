CONSTANTS
  M1 = M1  M2 = M2  V1 = V1  V2 = V2  E1 = E1  E2 = E2  N1 = N1
  Minters = {M1}
  Verifiers = {V1, V2}
  Emails = {E1}
  Networks = {N1}
  Kill = Kill
  Nobody = Nobody
  EmailCap = 2
  MintCap = 1
  VerifyTtl = 1
  Ttl = 1
  Keep = 1
  DayLength = 1
  MaxTime = 1
  MaxLinks = 2
  MaxFrozen = 1
  MaxDeaths = 0
  Orders = {Kill, N1}
SPECIFICATION Spec
SYMMETRY RequestSymmetry
CHECK_DEADLOCK FALSE
INVARIANTS TypeOK OrdersHold LinkMintsOnce OneDrivePerEmail DrivesWithinCap
