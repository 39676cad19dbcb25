SPECIFICATION AdminSpec
CONSTANTS
  a = a
  b = b
  Components = {a, b}
  NoComponent = none
  Slots = {s1}
  NoSlot = noslot
  Links <- Edge
  Allocators = {a}
  RingDepth = 2
  HopLimit = 3
  MaxGeneration = 2
  Faults = FALSE
  Deadlines = FALSE
  Mortal = {a, b}
  MaxEpoch = 2
SYMMETRY SlotSymmetry
INVARIANT ReclaimedUsable
CHECK_DEADLOCK FALSE
