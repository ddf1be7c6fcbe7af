CONSTANTS
  MaxRequests = 3
  MaxConnections = 2
SPECIFICATION FairSpec
CHECK_DEADLOCK FALSE
INVARIANTS
  TypeOK
  AssertionsHold
  OvertakenHasFailed
PROPERTIES
  ImplementsRequestReply
  AnsweredUnlessHopeless
