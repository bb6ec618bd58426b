SPECIFICATION DeskSpec
CONSTANTS
  b1 = b1
  b2 = b2
  None = None
  Lapse = {"take off"}
  Booking = {b1, b2}
  Tank = {t1, t2}
  SurveyDay <- Days
SYMMETRY Tanks
INVARIANTS
  StampsHold
  UrgentIsServed
  SurveysAgree
  PlacesAgree
PROPERTIES
  TasksKept
CHECK_DEADLOCK FALSE
