CONSTANTS
  c1 = c1
  c2 = c2
  g1 = g1
  g2 = g2
  Calls <- TwoCalls
  Groups <- TwoGroups
  Timeouts <- SomeTimeouts
  Settings <- SomeSettings
  Created <- SomeCreated
  Configs <- SomeConfigs
  IntBits = 8
  MaxSettings = 2
SYMMETRY CallsExchanged
SPECIFICATION ServedSpec
INVARIANT SyncJudgedAsMade
