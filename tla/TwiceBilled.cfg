SPECIFICATION Spec
CONSTANTS
  MaxVisit = 1
  Days = 3
  MaxStays = 2
  Invoice = {i1, i2, i3}
  Free = 0
  Running = TRUE
  CountOut = TRUE
  Known = TRUE
  Outcomes = {TRUE}
  DeskEdits = FALSE
  NewestFirst = FALSE
  RepickNewest = TRUE
  None = None
INVARIANTS
  NoDayTwice
CHECK_DEADLOCK FALSE
