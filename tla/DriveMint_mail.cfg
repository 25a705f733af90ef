CONSTANTS
  M1 = M1  M2 = M2  V1 = V1  V2 = V2  E1 = E1  E2 = E2  N1 = N1
  Minters = {M1, M2}
  Verifiers = {V1}
  Emails = {E1}
  Networks = {N1}
  Kill = Kill
  Nobody = Nobody
  EmailCap = 1
  MintCap = 2
  VerifyTtl = 1
  Ttl = 1
  Keep = 1
  DayLength = 2
  MaxTime = 1
  MaxLinks = 3
  MaxFrozen = 0
  MaxDeaths = 1
  Orders = {}
SPECIFICATION Spec
SYMMETRY RequestSymmetry
CHECK_DEADLOCK FALSE
INVARIANTS MailsNearCap
PROPERTIES OnlyEndedWiped
