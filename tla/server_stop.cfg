CONSTANTS
  Clients = {c1}
  MaxRequests = 1
  ClosingEndsWait = FALSE
SPECIFICATION FairSpec
CHECK_DEADLOCK FALSE
PROPERTY StopLeadsToStopped
