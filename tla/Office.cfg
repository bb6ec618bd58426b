SPECIFICATION DeskSpec
CONSTANTS
  None = None
  k1 = k1
  k2 = k2
  k3 = k3
SYMMETRY Contracts3
INVARIANTS
  ScreensAgree
  BellsAgree
  BillsAgree
PROPERTIES
  StepsKeep
CHECK_DEADLOCK FALSE
