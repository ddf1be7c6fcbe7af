CONSTANT MaxFrames = 1
SPECIFICATION FairSpec
CHECK_DEADLOCK FALSE
PROPERTY AcceptedFrameIsReleased
