\* Safety, refinement and liveness of one running port.
CONSTANTS
  c1 = c1
  c2 = c2
  c3 = c3
  NoClient = NoClient
  Client <- MCClient
  Permitted <- MCPermitted
  MaxSaid = 2
SPECIFICATION FairSpec
INVARIANTS Inv NothingStolen
PROPERTIES ImplementsPort StopPromptIfCuttable StopOnceClientsLeave
CHECK_DEADLOCK FALSE
