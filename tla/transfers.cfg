SPECIFICATION InheritedSpec
CONSTANTS
  a = a
  b = b
  d = d
  Components = {a, b}
  NoComponent = none
  Slots = {s1, s2, s3}
  NoSlot = noslot
  Links <- Edge
  Allocators = {a}
  RingDepth = 2
  HopLimit = 3
  MaxGeneration = 1
  Faults = FALSE
  Deadlines = FALSE
INVARIANTS NoStrandedTransfer
PROPERTIES TransfersEnd
CHECK_DEADLOCK FALSE
