SPECIFICATION Spec
CONSTANTS
  t1 = t1
  t2 = t2
  in1 = in1
  in2 = in2
  out1 = out1
  out2 = out2
  NoBooking = NoBooking
  Tank = {t1}
  Booking = {in1, in2, out1, out2}
  InBooking = {in1, in2}
  Lines <- AllTanks
  NoEIR <- AllTanks
  CashBooking = {}
  WorkKind = {}
  Switch = {TRUE}
  Lapse = {"old departure"}
  MaxBon = 4
  MaxEIR = 0
  MaxWork = 0
  MaxDeparture = 3
SYMMETRY Alike
PROPERTIES
  ReturnsOnlyByBon
CHECK_DEADLOCK FALSE
