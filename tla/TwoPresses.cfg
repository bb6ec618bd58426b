SPECIFICATION Spec
CONSTANTS
  Finance = TRUE
  Form = {}
  Press = {p1, p2}
  Amount = {0, 1}
  Mode = {"Cash"}
  Agreement = {"None"}
  MaxInvoice = 2
  TankEdits = FALSE
INVARIANTS
  LiveInvoiceLinked
