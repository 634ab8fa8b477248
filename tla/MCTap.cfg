SPECIFICATION FairSpec
CONSTANTS
  Watcher = {v1, v2}
  Source <- MCSource
  Sink <- MCSink
  Backlog = 1
  None = None
  MaxFrames = 3
INVARIANTS Inv NoSilentLoss NobodyOverlooked
PROPERTIES WholeFrames NeverSlowsTheWire
CHECK_DEADLOCK FALSE
