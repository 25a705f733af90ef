CONSTANTS
  C1 = C1  D1 = D1  R1 = R1  R2 = R2
  Codes = {C1}
  Devices = {D1}
  Requests = {R1, R2}
  CodeTtl = 1
  DeviceTtl = 1
  RefreshTtl = 1
  UserTtl = 1
  MaxGrants = 1
  MaxTokens = 3
  MaxTime = 2
  MaxAge = 2
  None = None
SYMMETRY Alike
SPECIFICATION Spec
CHECK_DEADLOCK FALSE
INVARIANTS TypeOK OneLiveToken ReuseEndsFamily
PROPERTIES KeepsPromise
