CONSTANTS
  p = p
  o = o
  x = x
  Events = {p, o, x}
  IO = {p, o}
  Persist = {p}
  Exits = {x}
  Intervals = {0, 1}
  DropsTimeouts = FALSE
  NoEvent = NoEvent
  MaxOps = 3
  MaxClock = 2
SPECIFICATION FairSpec
INVARIANTS
  TypeOK
PROPERTIES
  ImplementsEventApi
  LoopKeepsItsOrder
  CausedEventIsCalled
  LoopEndsInTime
CHECK_DEADLOCK FALSE
