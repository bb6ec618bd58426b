SPECIFICATION DeskSpec
CONSTANTS
  f1 = f1
  f2 = f2
  c1 = c1
  c2 = c2
  Form = {f1, f2}
  Code = {c1, c2}
  Selected <- Shared
  Copies = 2
  MaxVoid = 1
  MaxMint = 1
  MaxLoss = 2
  CrashAt = {"checked", "locked"}
  Evicts = FALSE
  Reverts = FALSE
PROPERTIES
  EveryPressEnds
  BonReachesItsPhone
  HealsInTheEnd
CHECK_DEADLOCK FALSE
