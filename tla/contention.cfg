SPECIFICATION Spec
CONSTANTS
  a = a
  b = b
  d = d
  Components = {a, b, d}
  NoComponent = none
  Slots = {s1}
  NoSlot = noslot
  Links <- Cycle
  Allocators = {a, b, d}
  RingDepth = 2
  HopLimit = 3
  MaxGeneration = 2
  Faults = TRUE
  Deadlines = TRUE
INVARIANTS Inductive ViewsAreOwned NoLeakedToken HopsBounded
PROPERTIES RefinesOwnership CallsReturn
CHECK_DEADLOCK FALSE
