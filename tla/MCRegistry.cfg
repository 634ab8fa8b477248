\* What holds however two workers interleave.
CONSTANTS
  w1 = w1
  w2 = w2
  d1 = d1
  d2 = d2
  e1 = e1
  e2 = e2
  e3 = e3
  f1 = f1
  None = None
  Worker <- MCWorker
  Device <- MCDevice
  Entry <- MCEntry
  Field <- MCField
  TcpPort <- MCTcpPort
  MaxStarts = 2
  MaxRequests = 2
SPECIFICATION Spec
SYMMETRY MCSymmetry
INVARIANTS ControlIsLive NoLeak OneEntryPerDevice ShownIsReal
CHECK_DEADLOCK FALSE
