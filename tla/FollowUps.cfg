SPECIFICATION Spec
CONSTANTS
  t1 = t1
  t2 = t2
  in1 = in1
  in2 = in2
  out1 = out1
  out2 = out2
  NoBooking = NoBooking
  Tank = {t1}
  Booking = {in1, in2, out1}
  InBooking = {in1, in2}
  Lines <- AllTanks
  NoEIR <- OutExempt
  CashBooking = {}
  WorkKind = {"Cleaning"}
  Switch = {FALSE}
  Lapse = {}
  MaxBon = 3
  MaxEIR = 2
  MaxWork = 1
  MaxDeparture = 1
PROPERTIES
  FollowUpHolds
CHECK_DEADLOCK FALSE
