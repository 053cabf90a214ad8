SPECIFICATION FairSpec
CONSTANTS
  FIFO_DEPTH = 3
  RX_TRIGGER = 2
  ARRIVALS = 2
  NONE = NONE
INVARIANTS
  SharedLinesHaveHandlers
  TicksAccounted
  WakeupFollowsBytes
PROPERTIES
  DevicesServed
