SPECIFICATION RestartSpec
CONSTANTS
  a = a
  b = b
  d = d
  Components = {a, b, d}
  NoComponent = none
  Slots = {s1}
  NoSlot = noslot
  Links <- Chain
  Allocators = {a}
  RingDepth = 2
  HopLimit = 3
  MaxGeneration = 2
  Faults = TRUE
  Deadlines = FALSE
  Restartable = {b}
  MaxEpoch = 2
INVARIANTS DeadBuffersAdopted 
CHECK_DEADLOCK FALSE
