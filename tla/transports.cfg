SPECIFICATION MCSpec
CONSTANTS
  Messages = {m1, m2, m3}
  NoMessage = none
  Depth = 2
  Wrap = 4
  MaxCrashes = 2
  Buffers = {b1, b2, b3}
  NoBuffer = nobuffer
  BoxDepth = 2
  MaxStops = 2
CHECK_DEADLOCK FALSE
INVARIANTS OnlyTransfers StrandedBounded EventsCover
PROPERTIES RefinesChannel Delivered PortDelivers
