CONSTANTS
  K1 = K1  K2 = K2  R1 = R1  R2 = R2
  Calls = {K1}
  Clicks = {R1, R2}
  Opener = Opener  Alarm = Alarm  None = None
  SessionTtl = 2
  PendingTtl = 1
  Day = 0
  TurnLimit = 1
  LastTurn = 2
  MaxTime = 3
  MaxFaults = 1
SPECIFICATION FairSpec
CHECK_DEADLOCK FALSE
INVARIANTS TypeOK RanOnlyWhenAllowed OneTurn CardMatchesAudit AlarmCovers
PROPERTIES WaitingEnds RowsPurged
