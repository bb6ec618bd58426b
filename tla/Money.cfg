SPECIFICATION DeskSpec
CONSTANTS
  Payment = {p1, p2}
  Refund = {r1, r2}
  Total = 3
  Overlap = {}
  PC = PC
  Idle = Idle
  p1 = p1
  p2 = p2
  r1 = r1
  r2 = r2
INVARIANTS
  NothingBilledTwice
  LinksAgree
  LedgerAddsUp
  DepositHolds
  PaymentsAgree
PROPERTIES
  ImplementsPurse
  HandedOverStaysSeen
CHECK_DEADLOCK FALSE
