SPECIFICATION Spec
CONSTANTS
  a = a
  b = b
  d = d
  Components = {a, b, d}
  NoComponent = none
  Slots = {s1}
  NoSlot = noslot
  Links <- Chain
  Allocators = {a, d}
  RingDepth = 2
  HopLimit = 3
  MaxGeneration = 2
  Faults = FALSE
  Deadlines = FALSE
INVARIANT NoStrandedTransfer
CHECK_DEADLOCK FALSE
