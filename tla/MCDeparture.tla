---------------------------- MODULE MCDeparture ----------------------------
(***************************************************************************)
(* What a departure booking sets going: its urgency and survey day on the  *)
(* tanks and their work (LiftOn), its survey day (SurveyOrder) and the     *)
(* search for where its tanks stand (TankPosition).  They share no state   *)
(* here, so a behaviour is about one of them, its part, chosen at the      *)
(* start; the others stay off.                                             *)
(***************************************************************************)
EXTENDS LiftOn, TLC

CONSTANTS b1, b2

(* The booking of the later day may be the urgent one.                     *)
Days == b1 :> 1 @@ b2 :> 2

Tanks == Permutations(Tank)

VARIABLES
  part,
  pickup, day, bon, eir,                       \* SurveyOrder
  now, reading, master, ask, hold, yard        \* TankPosition

(* Two tanks on one survey day under "Wajibkan Semua Order"; one tank whose*)
(* booking is reverted and confirmed into up to three days.                *)
TwoTanks == INSTANCE SurveyOrder WITH Lapse <- {}, Enforce <- TRUE, MaxDay <- 1, bk <- pickup
ThreeDays == INSTANCE SurveyOrder WITH
  Lapse <- {}, Tank <- {"t"}, Enforce <- FALSE, MaxDay <- 3, bk <- pickup

(* Two tanks and one moment, for readings of many tanks at once; one tank  *)
(* and three moments, for readings filed late, corrected and deleted.      *)
TwoPlaced == INSTANCE TankPosition WITH
  Lapse <- {}, Tank <- {"t", "u"}, Place <- {"A"}, RecheckAge <- 0, MaxTime <- 1, MaxReading <- 2
OnePlaced == INSTANCE TankPosition WITH
  Lapse <- {}, Tank <- {"t"}, Place <- {"A", "B"}, RecheckAge <- 1, MaxTime <- 3, MaxReading <- 2

ASSUME PositionBounds ==
  /\ TwoPlaced!LapseAssumption /\ TwoPlaced!BoundAssumption
  /\ OnePlaced!LapseAssumption /\ OnePlaced!BoundAssumption
ASSUME SurveyBounds ==
  /\ TwoTanks!TankAssumption /\ TwoTanks!LapseAssumption /\ TwoTanks!BoundAssumption
  /\ ThreeDays!TankAssumption /\ ThreeDays!LapseAssumption /\ ThreeDays!BoundAssumption

survey == <<pickup, day, bon, eir>>
position == <<now, reading, master, ask, hold, yard>>

surveyOff == pickup = "off" /\ day = "off" /\ bon = "off" /\ eir = "off"
positionOff ==
  now = "off" /\ reading = "off" /\ master = "off" /\ ask = "off" /\ hold = "off" /\ yard = "off"

DeskInit ==
  /\ Init
  /\ \/ part = "lift on" /\ surveyOff /\ positionOff
     \/ /\ \A t \in Tank : tank[t].here
        /\ \/ part = "two tanks" /\ TwoTanks!Init /\ positionOff
           \/ part = "three days" /\ ThreeDays!Init /\ positionOff
           \/ part = "two placed" /\ surveyOff /\ TwoPlaced!Init
           \/ part = "one placed" /\ surveyOff /\ OnePlaced!Init

LiftOnStep == part = "lift on" /\ Next /\ UNCHANGED <<survey, position>>
SurveyStep ==
  /\ \/ part = "two tanks" /\ TwoTanks!Next
     \/ part = "three days" /\ ThreeDays!Next
  /\ UNCHANGED <<vars, position>>
PositionStep ==
  /\ \/ part = "two placed" /\ TwoPlaced!Next
     \/ part = "one placed" /\ OnePlaced!Next
  /\ UNCHANGED <<vars, survey>>

DeskNext == (LiftOnStep \/ SurveyStep \/ PositionStep) /\ UNCHANGED part

deskVars == <<part, vars, survey, position>>

DeskSpec == DeskInit /\ [][DeskNext]_deskVars
-----------------------------------------------------------------------------
(* A survey row stands where its stamps say, its day shows its rows, every *)
(* tank to be taken with an EIR has its EIR-Out, a confirmed booking has   *)
(* one live day at most with every tank it asks to survey, and a void one  *)
(* leaves nothing in a queue (_true_status, refresh_progress,              *)
(* provision_survey_order_for_booking, close_survey_order_with_booking).   *)
SurveysAgree ==
  /\ part = "two tanks" => /\ TwoTanks!TypeOK /\ TwoTanks!StampsAgree /\ TwoTanks!DayShowsTanks
                           /\ TwoTanks!VoidIsQuiet /\ TwoTanks!EveryTankHasEIR /\ TwoTanks!DayFollowsBooking
  /\ part = "three days" => /\ ThreeDays!TypeOK /\ ThreeDays!StampsAgree /\ ThreeDays!DayShowsTanks
                            /\ ThreeDays!VoidIsQuiet /\ ThreeDays!EveryTankHasEIR /\ ThreeDays!DayFollowsBooking

(* Every tank shows its newest reading, however late it was filed or which *)
(* was deleted, and board, queue and search agree on who must be found     *)
(* (push_to_container, open_position_orders, position_board).              *)
PlacesAgree ==
  /\ part = "two placed" => TwoPlaced!TypeOK /\ TwoPlaced!MasterIsNewest /\ TwoPlaced!ScreensAgree
  /\ part = "one placed" => OnePlaced!TypeOK /\ OnePlaced!MasterIsNewest /\ OnePlaced!ScreensAgree

(* A lowering somebody did is lost only by being sent back by hand; a tank *)
(* that left on its bon is never queued for survey again; and a tank the   *)
(* yard must find leaves that queue by a reading, by leaving itself, or    *)
(* with its booking (_sync_rows, return_to_queue, needs_position).         *)
TasksKept ==
  [][/\ part = "two tanks" => TwoTanks!WorkKept /\ TwoTanks!GoneStaysDone
     /\ part = "three days" => ThreeDays!WorkKept /\ ThreeDays!GoneStaysDone
     /\ part = "two placed" => TwoPlaced!QueueClosesByReading
     /\ part = "one placed" => OnePlaced!QueueClosesByReading]_deskVars
=============================================================================
