SPECIFICATION CPFairSpec
CONSTANTS
  Sampled <- MCSampled
  Output <- MCOutput
  MaxSession = 2
  MaxChange = 2
  MaxRequest = 2
INVARIANTS CPInv FlagsMatchReports
PROPERTIES Informed
CHECK_DEADLOCK FALSE
