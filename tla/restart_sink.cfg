SPECIFICATION RestartSpec
CONSTANTS
  a = a
  b = b
  d = d
  Components = {a, b}
  NoComponent = none
  Slots = {s1, s2}
  NoSlot = noslot
  Links <- Edge
  Allocators = {a}
  RingDepth = 2
  HopLimit = 3
  MaxGeneration = 2
  Faults = FALSE
  Deadlines = FALSE
  Restartable = {b}
  MaxEpoch = 2
INVARIANTS ExclusiveClaim RestartKeepsViews WindowKept NothingStranded
CHECK_DEADLOCK FALSE
