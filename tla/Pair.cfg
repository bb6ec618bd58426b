SPECIFICATION Spec
CONSTANTS
  t1 = t1
  t2 = t2
  in1 = in1
  in2 = in2
  out1 = out1
  out2 = out2
  NoBooking = NoBooking
  Tank = {t1, t2}
  Booking = {in1, in2, out1}
  InBooking = {in1, in2}
  Lines <- SharedLines
  NoEIR <- AllTanks
  CashBooking = {out1}
  WorkKind = {}
  Switch = {TRUE}
  Lapse = {}
  MaxBon = 3
  MaxEIR = 0
  MaxWork = 0
  MaxDeparture = 2
INVARIANTS
  VisitsAgree
  MuatIsDeparture
PROPERTIES
  BonsArePaid
CHECK_DEADLOCK FALSE
