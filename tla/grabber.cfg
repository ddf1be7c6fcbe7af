CONSTANT MaxFrames = 3
SPECIFICATION FairSpec
CHECK_DEADLOCK FALSE
INVARIANTS
  TypeOK
  GrabbedBufferIsNewest
  NewFrameIsAnnounced
PROPERTIES
  DepthFrameIsShown
  StopReturns
