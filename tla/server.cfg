CONSTANTS
  Clients = {c1, c2}
  MaxRequests = 3
  ClosingEndsWait = TRUE
SPECIFICATION FairSpec
CHECK_DEADLOCK FALSE
INVARIANTS
  TypeOK
  FoundBaseIsWaitedFor
PROPERTIES
  RequestEnds
  StopEndsBlockedLoop
