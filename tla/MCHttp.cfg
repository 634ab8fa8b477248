SPECIFICATION FairSpec
CONSTANTS
  w1 = w1
  w2 = w2
  Worker <- MCWorker
  MaxStreams = 2
  Peer <- MCPeer
  Rules <- MCRules
  Asked <- MCAsked
  MaxRequest = 3
  W4 = 3
  W6 = 5
  MappedTag = 1
  Loop4 <- MCLoop4
INVARIANTS Inv AsMeant
PROPERTIES SlotsComeBack EveryoneAnswered
CHECK_DEADLOCK FALSE
