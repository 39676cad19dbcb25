SPECIFICATION RestartSpec
CONSTANTS
  a = a
  b = b
  d = d
  Components = {a, b}
  NoComponent = none
  Slots = {s1}
  NoSlot = noslot
  Links <- Edge
  Allocators = {a}
  RingDepth = 2
  HopLimit = 3
  MaxGeneration = 2
  Faults = FALSE
  Deadlines = FALSE
  Restartable = {a}
  MaxEpoch = 2
INVARIANT NothingStranded
CHECK_DEADLOCK FALSE
