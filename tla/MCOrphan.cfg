\* Expected to fail: a removed port keeps no supervisor.
CONSTANTS
  w1 = w1
  w2 = w2
  d1 = d1
  d2 = d2
  e1 = e1
  e2 = e2
  e3 = e3
  f1 = f1
  None = None
  Worker <- MCWorker
  Device <- MCOneDevice
  Entry <- MCTwoEntries
  Field <- MCField
  TcpPort <- MCTcpPort
  MaxStarts = 2
  MaxRequests = 2
SPECIFICATION Spec
SYMMETRY MCSmallSymmetry
INVARIANTS NoOrphan
CHECK_DEADLOCK FALSE
