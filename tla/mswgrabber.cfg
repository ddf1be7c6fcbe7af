CONSTANTS
  MaxFrames = 2
SPECIFICATION FairSpec
CHECK_DEADLOCK FALSE
INVARIANTS
  TypeOK
  HandlesOutliveThread
  QuietPictureIsWhole
PROPERTIES
  FrameIsShown
