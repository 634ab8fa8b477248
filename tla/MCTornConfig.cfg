\* Expected to fail: the same with two workers saving at once.
CONSTANTS
  main = main
  w1 = w1
  w2 = w2
  i1 = i1
  i2 = i2
  i3 = i3
  i4 = i4
  i5 = i5
  None = None
  Bad = Bad
  Empty = Empty
  Torn = Torn
  Main = main
  Worker <- TwoWorkers
  Inode <- MCInode
  MaxChanges = 2
  MaxCuts = 1
SPECIFICATION Spec
INVARIANTS AllOrNothing
CHECK_DEADLOCK FALSE
