CONSTANT Backends = {"freenect", "msw"}
CONSTANT MaxClicks = 4
SPECIFICATION FairSpec
CHECK_DEADLOCK FALSE
INVARIANTS
  TypeOK
  GrabberPointerIsValid
  NothingIsOrphaned
PROPERTIES
  CallsReturn
