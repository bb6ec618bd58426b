SPECIFICATION Spec
CONSTANTS
  t1 = t1
  t2 = t2
  in1 = in1
  in2 = in2
  out1 = out1
  out2 = out2
  NoBooking = NoBooking
  Tank = {t1}
  Booking = {in1, in2, out1}
  InBooking = {in1, in2}
  Lines <- AllTanks
  NoEIR <- NoneExempt
  CashBooking = {}
  WorkKind = {}
  Switch = {TRUE}
  Lapse = {}
  MaxBon = 3
  MaxEIR = 3
  MaxWork = 0
  MaxDeparture = 2
SYMMETRY Alike
INVARIANTS
  TypeOK
  CodeOnOneLiveBon
  OneDraftEIR
  VisitsAgree
  BookingsAgree
  LinkIsFinished
  DepartureTakesEIR
PROPERTIES
  ReturnsOnlyByBon
  ImplementsYard
CHECK_DEADLOCK FALSE
