CONSTANTS
  A = A  B = B  C = C  S1 = S1  S2 = S2  S3 = S3
  Peers = {A, B, C}
  Creators = {A}
  Sockets = {S1, S2, S3}
  Ttl = 2
  MaxPeers = 2
  TapeLimit = 2
  TapeBatch = 2
  Second = 1
  LastCreate = 0
  MaxLines = 4
  MaxFaults = 1
  MaxTime = 3
  None = None
SPECIFICATION FairSpec
CHECK_DEADLOCK FALSE
INVARIANTS TypeOK Seats SignalsReachPartner CountSettles BatchBounded PanelComplete
PROPERTIES RoomEnds
