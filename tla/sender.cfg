CONSTANT MaxFrames = 3
SPECIFICATION FairSpec
CHECK_DEADLOCK FALSE
INVARIANTS
  TypeOK
  GuiNeverWaitsForNetwork
PROPERTIES
  ImplementsMailbox
  FrameForWaiterIsTaken
  StopEndsWaiter
