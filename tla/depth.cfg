CONSTANT MaxFrames = 3
CONSTANT Word = 1000
CONSTANT StructSize = 18
CONSTANT MaxSide = 2
CONSTANT MaxSensor = 40000
SPECIFICATION DepthSpec
CHECK_DEADLOCK FALSE
INVARIANTS
  TypeOK
  DetectsNewestFrame
  PictureTypeOK
  FramesArrive
  DepthReachesCloud
PROPERTIES
  ResultsNeverGoBack
  FrameForWaiterIsDetected
  BusyWorkerIsJoined
