SPECIFICATION FairSpec
CONSTANTS
  Room = 1
  MaxSaid = 1
  MaxSent = 2
  MaxReports = 1
INVARIANTS Inv InOrder
PROPERTIES SilentAfterwards EndingEnds NobodyLeft
CHECK_DEADLOCK FALSE
