CONSTANTS
  o = o
  x = x
  Events = {o, x}
  IO = {o}
  Persist = {}
  Exits = {x}
  Intervals = {0, 1}
  DropsTimeouts = TRUE
  NoEvent = NoEvent
  MaxOps = 2
  MaxClock = 3
SPECIFICATION Spec
PROPERTIES
  ImplementsEventApi
CHECK_DEADLOCK FALSE
