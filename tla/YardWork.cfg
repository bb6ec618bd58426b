SPECIFICATION Spec
CONSTANTS
  t1 = t1
  t2 = t2
  in1 = in1
  in2 = in2
  out1 = out1
  out2 = out2
  NoBooking = NoBooking
  Tank = {t1}
  Booking = {in1, out1}
  InBooking = {in1}
  Lines <- AllTanks
  NoEIR <- OutExempt
  CashBooking = {}
  WorkKind = {"Cleaning", "M&R"}
  Switch = {TRUE, FALSE}
  Lapse = {"second bon", "past bon"}
  MaxBon = 2
  MaxEIR = 1
  MaxWork = 2
  MaxDeparture = 1
INVARIANTS
  StatusAgrees
PROPERTIES
  LeavesClear
CHECK_DEADLOCK FALSE
