CONSTANTS
  P1 = P1  P2 = P2  V1 = V1
  S1 = S1  S2 = S2  S3 = S3  S4 = S4  S5 = S5  S6 = S6
  Alarm = Alarm
  Writers = {P1}
  Visitors = {V1}
  Crons = {V1}
  Sessions = {S1, S2, S3, S4}
  Ttl = 1
  Keep = 1
  Never = Never
  MaxTime = 2
  LastFreeze = 1
  MaxFaults = 1
SPECIFICATION FairSpec
CHECK_DEADLOCK FALSE
INVARIANTS TypeOK AlarmCovers
PROPERTIES ImplementsPromise EventuallyWiped WritesEnd
