----------------------------- MODULE MCWorkshop -----------------------------
(***************************************************************************)
(* The gate's bons and the orders of the workshop.  These components share *)
(* no state, so a behaviour is about one of them, its part, chosen at the  *)
(* start; the others stay off.  That reaches every state of each.  The     *)
(* gate has its variables to itself; the parts below share theirs.  A part *)
(* is instantiated with its proofs, which WorkshopProofs cites by name.    *)
(***************************************************************************)
EXTENDS GateIssue

CONSTANTS f1, f2, c1, c2

VARIABLES part, mr, entries, tested, typed, co, contract, clock

(* Two gate phones on one booking of two tanks: one form takes one tank,   *)
(* the other both.                                                         *)
Shared == [f \in Form |-> IF f = f1 THEN {c1} ELSE {c1, c2}]

(* Two M&R orders: p is a part, j a service; and two Periodic Tests.       *)
Estimate == INSTANCE RepairProofs WITH Order <- {"m1", "m2"}, Test <- {}, Item <- {"p", "j"},
  Stocked <- {"p"}, Supply <- [q \in {"p"} |-> 1], Dates <- 1, MaxEntry <- 3
Tests == INSTANCE RepairProofs WITH Order <- {"m1", "m2"}, Test <- {"m1", "m2"}, Item <- {},
  Stocked <- {}, Supply <- <<>>, Dates <- 3, MaxEntry <- 0

(* Two washes and one gudang; one wash, two people and four ticks; one     *)
(* wash whose lines are priced.                                            *)
Spares == INSTANCE WashProofs WITH Order <- {"o1", "o2"}, Item <- {"p"}, Part <- {"p"},
  Supply <- [q \in {"p"} |-> 1], User <- {"u1"}, Tariff <- {0}, Typed <- {}, MaxClock <- 1, MaxEntry <- 3
Times == INSTANCE WashProofs WITH Order <- {"o1"}, Item <- {"j"}, Part <- {},
  Supply <- <<>>, User <- {"u1", "u2"}, Tariff <- {0}, Typed <- {}, MaxClock <- 4, MaxEntry <- 0
Prices == INSTANCE WashProofs WITH Order <- {"o1"}, Item <- {"p", "j"}, Part <- {"p"},
  Supply <- [q \in {"p"} |-> 1], User <- {"u1"}, Tariff <- {0, 50}, Typed <- {40, 60}, MaxClock <- 1, MaxEntry <- 2

ASSUME RepairBounds ==
  /\ Estimate!OrderAssumption /\ Estimate!SupplyAssumption /\ Estimate!BoundAssumption
  /\ Tests!OrderAssumption /\ Tests!SupplyAssumption /\ Tests!BoundAssumption
ASSUME WashBounds ==
  /\ Spares!ItemAssumption /\ Spares!PriceAssumption /\ Spares!BoundAssumption
  /\ Times!ItemAssumption /\ Times!PriceAssumption /\ Times!BoundAssumption
  /\ Prices!ItemAssumption /\ Prices!PriceAssumption /\ Prices!BoundAssumption

repair == <<mr, tested, typed>>
wash == <<co, contract, clock>>


DeskInit ==
  /\ Init
  /\ \/ part = "gate" /\ mr = "off" /\ tested = "off" /\ typed = "off" /\ entries = "off"
        /\ co = "off" /\ contract = "off" /\ clock = "off"
     \/ part = "estimate" /\ Estimate!Init /\ co = "off" /\ contract = "off" /\ clock = "off"
     \/ part = "tests" /\ Tests!Init /\ co = "off" /\ contract = "off" /\ clock = "off"
     \/ part = "spares" /\ Spares!Init /\ mr = "off" /\ tested = "off" /\ typed = "off"
     \/ part = "times" /\ Times!Init /\ mr = "off" /\ tested = "off" /\ typed = "off"
     \/ part = "prices" /\ Prices!Init /\ mr = "off" /\ tested = "off" /\ typed = "off"

GateStep == part = "gate" /\ Next /\ UNCHANGED <<repair, wash, entries>>
RepairStep ==
  /\ \/ part = "estimate" /\ Estimate!Next
     \/ part = "tests" /\ Tests!Next
  /\ UNCHANGED <<vars, wash>>
WashStep ==
  /\ \/ part = "spares" /\ Spares!Next
     \/ part = "times" /\ Times!Next
     \/ part = "prices" /\ Prices!Next
  /\ UNCHANGED <<vars, repair>>

DeskNext == (GateStep \/ RepairStep \/ WashStep) /\ UNCHANGED part

deskVars == <<vars, part, repair, wash, entries>>

DeskSpec == DeskInit /\ [][DeskNext]_deskVars
-----------------------------------------------------------------------------
(* The warehouse is short of exactly the parts that agreed M&R orders and  *)
(* submitted washes carry, however they were undone, rewound or deleted    *)
(* (issue_parts_on_approval, _return_parts_if_rewound, revert_to_draft).   *)
PartsAccounted ==
  /\ part = "estimate" => Estimate!TypeOK /\ Estimate!PartsAccounted
  /\ part = "spares" => Spares!TypeOK /\ Spares!PartsAccounted

(* An invoice mark or an open Ajukan Revisi never stands on an order that  *)
(* some way back has opened again (reopen_completed, revert_to_draft).     *)
MarksStayClosed ==
  /\ part = "estimate" => Estimate!MarksOnClosed
  /\ part = "spares" => Spares!MarksOnSubmitted

(* A wash is timed by its last round, ends after it starts, and a price    *)
(* typed on it stands through every save (withdraw_review, revert_to_draft,*)
(* _resolve_cleaning_services).                                            *)
WashFiguresStand ==
  /\ part = "times" => Times!TypeOK /\ Times!FinishRetimed /\ Times!StartBeforeFinish
  /\ part = "prices" => Prices!TypeOK /\ Prices!TypedPriceStands

(* No step turns an owner's no into a yes, dates a tank's last test back   *)
(* but by undoing that test, or changes who did a wash and since when      *)
(* (approve_estimate, restore_test_date, start_cleaning).                  *)
FactsStand ==
  [][/\ part = "estimate" => Estimate!OwnersNoKept
     /\ part = "tests" => Tests!DateKept
     /\ part = "times" => Times!WorkKept]_deskVars
=============================================================================
