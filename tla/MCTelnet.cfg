\* Both ends of the Telnet stream, of this program or one of them foreign.
CONSTANTS
  Text <- MCText
  Settings <- MCSettings
  Foreign <- MCForeign
  Found <- MCFound
  Option <- MCOption
  MaxWrites = 1
  MaxForeign = 2
SPECIFICATION FairSpec
INVARIANTS Inv Lossless Settled SettingsOnce ReportsTheLine
PROPERTIES QuietsDown
CHECK_DEADLOCK FALSE
