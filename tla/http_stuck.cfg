CONSTANTS
  MaxRequests = 2
  MaxConnections = 1
SPECIFICATION FairSpec
CHECK_DEADLOCK FALSE
PROPERTIES
  RequestIsAnswered
