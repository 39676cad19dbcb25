SPECIFICATION MCAdminSpec
CONSTANTS
  a = a
  b = b
  Components = {a, b}
  NoComponent = none
  Slots = {s1, s2}
  NoSlot = noslot
  Links <- Edge
  Allocators = {a}
  RingDepth = 2
  HopLimit = 3
  MaxGeneration = 2
  Faults = TRUE
  Deadlines = FALSE
  Mortal = {a, b}
  MaxEpoch = 2
SYMMETRY SlotSymmetry
INVARIANTS AdminInductive SoleClaimant LiveViewsKept OrphansReclaimed
CHECK_DEADLOCK FALSE
