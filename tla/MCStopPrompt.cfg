\* Expected to fail: StopPrompt as the code's own comment states it.
CONSTANTS
  c1 = c1
  c2 = c2
  c3 = c3
  NoClient = NoClient
  Client <- MCTwo
  Permitted <- MCTwo
  MaxSaid = 0
SPECIFICATION FairSpec
PROPERTIES StopPrompt
CHECK_DEADLOCK FALSE
