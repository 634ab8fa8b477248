\* One request at a time saves: every power cut leaves a whole configuration.
CONSTANTS
  main = main
  w1 = w1
  w2 = w2
  i1 = i1
  i2 = i2
  i3 = i3
  i4 = i4
  i5 = i5
  None = None
  Bad = Bad
  Empty = Empty
  Torn = Torn
  Main = main
  Worker <- OneWorker
  Inode <- MCInode
  MaxChanges = 3
  MaxCuts = 2
SPECIFICATION Spec
INVARIANTS Inv AckedSurvives
PROPERTIES ImplementsStore
CHECK_DEADLOCK FALSE
