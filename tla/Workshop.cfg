SPECIFICATION DeskSpec
CONSTANTS
  f1 = f1
  f2 = f2
  c1 = c1
  c2 = c2
  Form = {f1, f2}
  Code = {c1, c2}
  Selected <- Shared
  Copies = 2
  MaxVoid = 1
  MaxMint = 2
  MaxLoss = 2
  CrashAt = {"checked", "locked"}
  Evicts = TRUE
  Reverts = TRUE
INVARIANTS
  OneBonPerCode
  DoneMeansBon
  PartsAccounted
  MarksStayClosed
  WashFiguresStand
PROPERTIES
  FactsStand
CHECK_DEADLOCK FALSE
