SPECIFICATION FairSpec
CONSTANTS
  MaxSession = 2
  Room = 1
  MaxTraffic = 2
INVARIANTS Inv Intact OneChunkLate
PROPERTIES EndingEndsSession NoThreadLeft
CHECK_DEADLOCK FALSE
