------------------------------- MODULE LiftOn -------------------------------
(***************************************************************************)
(* The lift-on priority: the days of a Tank Out booking, stamped on every  *)
(* tank it lists and mirrored on the tank's open orders and survey rows,   *)
(* which the worklists sort by; the stamp's release on the way out; and    *)
(* the booking's % Keluar, which closes it.  A stamp is named by the       *)
(* booking whose days it shows, and by whether it is urgent.  One tank is  *)
(* on each bon.                                                            *)
(* Sources: lift_on.py, worklist.py, gate.py, survey_order.py and the      *)
(* booking's hooks.                                                        *)
(***************************************************************************)
EXTENDS Integers, FiniteSetsExt

CONSTANTS
  Lapse,        \* what people do that they should not
  Booking,      \* Tank Out bookings
  Tank,
  None,         \* no booking
  SurveyDay     \* the survey day of each booking

ASSUME LapseAssumption == Lapse \subseteq {"rival draft", "late sync", "take off", "old bon"}
ASSUME SetAssumption == IsFiniteSet(Booking) /\ IsFiniteSet(Tank) /\ None \notin Booking
ASSUME DayAssumption == SurveyDay \in [Booking -> Nat]

VARIABLES
  bk,       \* bk[b]: its status, the tanks it lists, Mendesak, whether a bon was ever raised
  code,     \* code[b][t]: the Booking Code, Used while on a draft bon, Left once the bon is out
  tank,     \* tank[t]: in the yard or away, on which booking it last left, and its stamp
  order,    \* order[t]: its open order, whether of an earlier visit, and the stamp it shows
  row,      \* row[b][t]: the stamp its survey row shows
  header    \* header[b]: does its Survey Order read urgent?

vars == <<bk, code, tank, order, row, header>>

Stamp == {s \in [by : Booking \cup {None}, urgent : BOOLEAN] : s.by = None => ~s.urgent}
NoStamp == [by |-> None, urgent |-> FALSE]
NoOrder == [open |-> FALSE, old |-> FALSE, by |-> None, urgent |-> FALSE]
NoRow == [row |-> "none"]

Init ==
  /\ bk = [b \in Booking |-> [status |-> "New", tanks |-> {}, urgent |-> FALSE, bonned |-> FALSE]]
  /\ code = [b \in Booking |-> [t \in Tank |-> "None"]]
  /\ \E here \in [Tank -> BOOLEAN] :
       tank = [t \in Tank |-> [here |-> here[t], left |-> None, stamp |-> NoStamp]]
  /\ order = [t \in Tank |-> NoOrder]
  /\ row = [b \in Booking |-> [t \in Tank |-> NoRow]]
  /\ header = [b \in Booking |-> FALSE]

TypeOK ==
  /\ bk \in [Booking -> [status : {"New", "Draft", "Confirmed", "Completed", "Cancelled"},
                         tanks : SUBSET Tank, urgent : BOOLEAN, bonned : BOOLEAN]]
  /\ code \in [Booking -> [Tank -> {"None", "Active", "Used", "Left"}]]
  /\ tank \in [Tank -> [here : BOOLEAN, left : Booking \cup {None}, stamp : Stamp]]
  /\ order \in [Tank -> [open : BOOLEAN, old : BOOLEAN, by : Booking \cup {None}, urgent : BOOLEAN]]
  /\ row \in [Booking -> [Tank -> Stamp \cup {NoRow}]]
  /\ header \in [Booking -> BOOLEAN]

-----------------------------------------------------------------------------
Live(b) == b.status \in {"Draft", "Confirmed"}         \* _booking_is_live

(* container_open_orders: only this visit's work, while the tank is here.  *)
Current(t, here) == order[t].open /\ (here => ~order[t].old)

Shows(o, s) == [o EXCEPT !.by = s.by, !.urgent = s.urgent]

(* push_to_open_orders, of the tanks whose stamp was just written.         *)
Push(tk, touched) ==
  /\ order' = [t \in Tank |->
       IF t \in touched /\ Current(t, tk[t].here) THEN Shows(order[t], tk[t].stamp) ELSE order[t]]
  /\ row' = [b \in Booking |-> [t \in Tank |->
       IF t \in touched /\ row[b][t] # NoRow THEN tk[t].stamp ELSE row[b][t]]]
  /\ header' = [b \in Booking |->
       IF \E t \in touched : row[b][t] # NoRow
       THEN \E t \in Tank : row'[b][t] # NoRow /\ row'[b][t].urgent
       ELSE header[b]]

(* Fault: the tanks taken off the booking keep their stamp.                *)
ListedOnly(b, nb, tk) == IF Live(nb) THEN nb.tanks ELSE {t \in nb.tanks : tk[t].stamp.by = b}

(* sync_booking_targets: the tanks it writes, and what it writes on them.  *)
Touched(b, nb, tk) ==
  {t \in Tank : (Live(nb) /\ t \in nb.tanks) \/ tk[t].stamp.by = b}

Stamped(b, nb, tk) ==
  [t \in Tank |->
    IF t \notin Touched(b, nb, tk) THEN tk[t]
    ELSE [tk[t] EXCEPT !.stamp = IF Live(nb) /\ t \in nb.tanks THEN [by |-> b, urgent |-> nb.urgent] ELSE NoStamp]]

Sync(b, nb, tk) ==
  /\ tank' = Stamped(b, nb, tk)
  /\ Push(tank', Touched(b, nb, tk))

(* refresh_fulfilment                                                      *)
AllOut(nb, codes, tk) ==
  nb.tanks # {} /\ \A t \in nb.tanks : codes[t] \in {"Used", "Left"} /\ ~tk[t].here

Fulfilled(nb, codes, tk) ==
  IF nb.status = "Confirmed" /\ AllOut(nb, codes, tk) THEN [nb EXCEPT !.status = "Completed"]
  ELSE IF nb.status = "Completed" /\ ~AllOut(nb, codes, tk) THEN [nb EXCEPT !.status = "Confirmed"]
  ELSE nb

(* refresh_bookings_for_container                                          *)
Refreshed(t, codes, tk) ==
  [b \in Booking |-> IF t \in bk[b].tanks THEN Fulfilled(bk[b], codes[b], tk) ELSE bk[b]]

-----------------------------------------------------------------------------
(* The booking                                                             *)

(* _find_booking_conflicts                                                 *)
Holds(b, t) ==
  \/ code[b][t] = "Active"
  \/ code[b][t] = "Used" /\ tank[t].here
  \/ bk[b].status = "Draft" /\ t \in bk[b].tanks /\ tank[t].here

Free(b, ts) == \A x \in Booking \ {b}, t \in ts : ~Holds(x, t)

(* Two drafts may name a tank that is away, and only Confirm tells: the    *)
(* lapse is to save or mark either of them.                                *)
Alone(b, ts) ==
  \/ "rival draft" \in Lapse
  \/ \A x \in Booking \ {b} : Live(bk[x]) => \A t \in ts \cap bk[x].tanks : code[x][t] = "Left"

SaveDraft(b, ts) ==
  /\ bk[b].status \in {"New", "Draft"} /\ ts # {} /\ Free(b, ts)
  /\ Alone(b, ts)
  /\ bk' = [bk EXCEPT ![b].status = "Draft", ![b].tanks = ts]
  /\ code' = [code EXCEPT ![b] = [t \in Tank |-> IF t \in ts THEN @[t] ELSE "None"]]
  /\ Sync(b, bk'[b], tank)

(* The rows of a new survey day.  The booking is read without its          *)
(* urgent_date, so no new row is ever urgent.                              *)
NewRows(b) == [t \in Tank |-> IF t \in bk[b].tanks THEN [by |-> b, urgent |-> FALSE] ELSE NoRow]

Confirm(b) ==
  /\ bk[b].status = "Draft" /\ Free(b, bk[b].tanks)
  /\ bk' = [bk EXCEPT ![b].status = "Confirmed"]
  /\ code' = [code EXCEPT ![b] = [t \in Tank |-> IF t \in bk[b].tanks THEN "Active" ELSE @[t]]]
  /\ tank' = Stamped(b, bk'[b], tank)
  /\ LET touched == Touched(b, bk'[b], tank)
     IN  /\ order' = [t \in Tank |->
              IF t \in touched /\ Current(t, tank[t].here) THEN Shows(order[t], tank'[t].stamp) ELSE order[t]]
         /\ row' = [x \in Booking |->
              IF x = b THEN NewRows(b)
              ELSE [t \in Tank |-> IF t \in touched /\ row[x][t] # NoRow THEN tank'[t].stamp ELSE row[x][t]]]
         /\ header' = [x \in Booking |->
              IF x = b THEN FALSE
              ELSE IF \E t \in touched : row[x][t] # NoRow
              THEN \E t \in Tank : row'[x][t] # NoRow /\ row'[x][t].urgent ELSE header[x]]

(* Kembali ke Draft: no sync, the days stand; its survey day is void.      *)
revert_booking_to_draft(b) ==
  /\ bk[b].status = "Confirmed" /\ ~bk[b].bonned
  /\ bk' = [bk EXCEPT ![b].status = "Draft"]
  /\ row' = [row EXCEPT ![b] = [t \in Tank |-> NoRow]]
  /\ header' = [header EXCEPT ![b] = FALSE]
  /\ UNCHANGED <<code, tank, order>>

void_draft(b) ==
  /\ bk[b].status = "Draft"
  /\ bk' = [bk EXCEPT ![b].status = "Cancelled"]
  /\ code' = [code EXCEPT ![b] = [t \in Tank |-> "None"]]
  /\ Sync(b, bk'[b], tank)

(* The lapse: a booking is touched again after one of its tanks left.      *)
Early(b) == "late sync" \in Lapse \/ \A t \in bk[b].tanks : code[b][t] # "Left"

set_urgent(b) ==
  /\ Live(bk[b]) /\ ~bk[b].urgent /\ Early(b) /\ Alone(b, bk[b].tanks)
  /\ bk' = [bk EXCEPT ![b].urgent = TRUE]
  /\ Sync(b, bk'[b], tank)
  /\ UNCHANGED code

clear_urgent(b) ==
  /\ bk[b].urgent /\ Early(b) /\ Alone(b, bk[b].tanks)
  /\ bk' = [bk EXCEPT ![b].urgent = FALSE]
  /\ Sync(b, bk'[b], tank)
  /\ UNCHANGED code

(* The Administrator takes a wrong tank off: its row goes, % Keluar stays. *)
remove_tank(b, t) ==
  /\ "take off" \in Lapse
  /\ bk[b].status = "Confirmed" /\ t \in bk[b].tanks /\ bk[b].tanks # {t} /\ code[b][t] = "Active"
  /\ Early(b)
  /\ bk' = [bk EXCEPT ![b].tanks = @ \ {t}]
  /\ code' = [code EXCEPT ![b][t] = "None"]
  /\ tank' = Stamped(b, bk'[b], tank)
  /\ LET touched == Touched(b, bk'[b], tank)
     IN  /\ order' = [u \in Tank |->
              IF u \in touched /\ Current(u, tank[u].here) THEN Shows(order[u], tank'[u].stamp) ELSE order[u]]
         /\ row' = [x \in Booking |-> [u \in Tank |->
              IF x = b /\ u = t THEN NoRow
              ELSE IF u \in touched /\ row[x][u] # NoRow THEN tank'[u].stamp ELSE row[x][u]]]
         /\ header' = [x \in Booking |->
              IF \E u \in touched : row[x][u] # NoRow
              THEN \E u \in Tank : row'[x][u] # NoRow /\ row'[x][u].urgent ELSE header[x]]

-----------------------------------------------------------------------------
(* The bon and the gate                                                    *)

NewBon(b, t) ==
  /\ bk[b].status = "Confirmed" /\ code[b][t] = "Active" /\ tank[t].here
  /\ code' = [code EXCEPT ![b][t] = "Used"]
  /\ bk' = [bk EXCEPT ![b].bonned = TRUE]
  /\ UNCHANGED <<tank, order, row, header>>

VoidBon(b, t) ==
  /\ code[b][t] = "Used"
  /\ code' = [code EXCEPT ![b][t] = "Active"]
  /\ UNCHANGED <<bk, tank, order, row, header>>

(* mark_gate_out; refused while this visit's work is open.  The stamp goes *)
(* whichever booking owns it (release_on_gate_out).                        *)
mark_gate_out(b, t) ==
  /\ code[b][t] = "Used" /\ tank[t].here /\ ~Current(t, TRUE)
  /\ code' = [code EXCEPT ![b][t] = "Left"]
  /\ tank' = [tank EXCEPT ![t] = [here |-> FALSE, left |-> b, stamp |-> NoStamp]]
  /\ Push(tank', IF tank[t].stamp.by # None THEN {t} ELSE {})
  /\ bk' = Refreshed(t, code', tank')

(* A bon out goes back to draft.  A tank that came back since, or left on  *)
(* another bon, is not this bon's to move (reverse_bon_departures): taking *)
(* such a bon back at all is the lapse.                                    *)
RevertBon(b, t) ==
  /\ code[b][t] = "Left"
  /\ code' = [code EXCEPT ![b][t] = "Used"]
  /\ IF tank[t].here \/ tank[t].left # b
     THEN "old bon" \in Lapse /\ UNCHANGED <<bk, tank, order, row, header>>
     ELSE /\ Alone(b, {t})
          /\ bk' = Refreshed(t, code', [tank EXCEPT ![t].here = TRUE])
          /\ "late sync" \in Lapse \/ \A u \in bk[b].tanks \ {t} : code[b][u] # "Left"
          /\ Sync(b, bk'[b], [tank EXCEPT ![t].here = TRUE])

(* Tank In: the open order of the earlier visit stays, as that visit's.    *)
Arrive(t) ==
  /\ ~tank[t].here
  /\ tank' = [tank EXCEPT ![t].here = TRUE]
  /\ order' = [order EXCEPT ![t].old = order[t].open]
  /\ UNCHANGED <<bk, code, row, header>>

-----------------------------------------------------------------------------
(* The yard.  An order reads the tank's stamp at every save (fetch_from).  *)
OpenOrder(t) ==
  /\ tank[t].here /\ ~order[t].open
  /\ order' = [order EXCEPT ![t] = Shows([NoOrder EXCEPT !.open = TRUE], tank[t].stamp)]
  /\ UNCHANGED <<bk, code, tank, row, header>>

SaveOrder(t) ==
  /\ order[t].open
  /\ order' = [order EXCEPT ![t] = Shows(@, tank[t].stamp)]
  /\ UNCHANGED <<bk, code, tank, row, header>>

FinishOrder(t) ==
  /\ order[t].open
  /\ order' = [order EXCEPT ![t] = NoOrder]
  /\ UNCHANGED <<bk, code, tank, row, header>>

-----------------------------------------------------------------------------
BookingStep(b) ==
  \/ \E ts \in SUBSET Tank : SaveDraft(b, ts)
  \/ Confirm(b) \/ revert_booking_to_draft(b) \/ void_draft(b) \/ set_urgent(b) \/ clear_urgent(b)
  \/ \E t \in Tank : remove_tank(b, t) \/ NewBon(b, t) \/ VoidBon(b, t) \/ mark_gate_out(b, t) \/ RevertBon(b, t)

TankStep(t) == Arrive(t) \/ OpenOrder(t) \/ SaveOrder(t) \/ FinishOrder(t)

Next == (\E b \in Booking : BookingStep(b)) \/ (\E t \in Tank : TankStep(t))

Spec == Init /\ [][Next]_vars

-----------------------------------------------------------------------------
(* sort_by_priority, of the open work of two tanks: urgent first, then the *)
(* nearest survey day; work with no day comes last.                        *)
NoDate == 1 + Max({SurveyDay[b] : b \in Booking})

(* Fault: urgency sorts like any other day.                                *)
OneTier(o) == 0

Tier(o) == IF o.urgent THEN 0 ELSE 1
Due(o) == IF o.by = None THEN NoDate ELSE SurveyDay[o.by]
Precedes(o, p) == Tier(o) < Tier(p) \/ (Tier(o) = Tier(p) /\ Due(o) < Due(p))

-----------------------------------------------------------------------------
(* A stamp belongs to the booking it names: that booking lists the tank,   *)
(* is not cancelled, and is urgent exactly when the stamp is; rows         *)
(* deleted, drafts voided and urgency withdrawn all let go of it           *)
(* (sync_booking_targets).                                                 *)
StampIsOwned ==
  \A t \in Tank, b \in Booking :
    tank[t].stamp.by = b => /\ t \in bk[b].tanks /\ bk[b].status # "Cancelled"
                            /\ tank[t].stamp.urgent = bk[b].urgent

(* An open order of this visit shows its tank's stamp, whichever came      *)
(* first and whatever moved it since (push_to_open_orders, fetch_from).    *)
OrdersShowStamp ==
  \A t \in Tank :
    order[t].open /\ ~order[t].old => order[t].by = tank[t].stamp.by /\ order[t].urgent = tank[t].stamp.urgent

(* A tank a confirmed booking still waits for carries that booking's days, *)
(* through departures undone, rows dropped and other bookings' releases.   *)
WaitingIsStamped ==
  \A b \in Booking, t \in Tank :
    bk[b].status = "Confirmed" /\ t \in bk[b].tanks /\ code[b][t] # "Left" => tank[t].stamp.by = b

(* A Survey Order reads urgent exactly when one of its rows does: the list *)
(* shows only the header (refresh_urgency).                                *)
HeaderShowsRows ==
  \A b \in Booking :
    bk[b].status = "Confirmed" => (header[b] = \E t \in Tank : row[b][t] # NoRow /\ row[b][t].urgent)

(* The yard works an urgent booking first: an order of a tank an urgent    *)
(* booking waits for is above every order of a tank that only a booking    *)
(* not urgent waits for, however early that one's day is.                  *)
UrgentGoesFirst ==
  \A b, c \in Booking, t, u \in Tank :
    /\ bk[b].status = "Confirmed" /\ code[b][t] = "Active" /\ bk[b].urgent
    /\ bk[c].status = "Confirmed" /\ code[c][u] = "Active" /\ ~bk[c].urgent
    /\ order[t].open /\ ~order[t].old /\ order[u].open /\ ~order[u].old
    => Precedes(order[t], order[u])

(* No booking closes while a tank of it waits in the yard to be collected  *)
(* (refresh_fulfilment).                                                   *)
NothingWaitsBehindIt ==
  \A b \in Booking : bk[b].status = "Completed" => \A t \in bk[b].tanks : code[b][t] # "Active"

(* Every stamp belongs to a live booking that lists the tank and is urgent *)
(* exactly as the stamp is; open work, survey rows and survey headers show *)
(* it; a tank a confirmed booking waits for carries it                     *)
(* (sync_booking_targets, push_to_open_orders, refresh_urgency).           *)
StampsHold == TypeOK /\ StampIsOwned /\ OrdersShowStamp /\ WaitingIsStamped /\ HeaderShowsRows

(* The yard works an urgent booking's tanks above every tank only a calmer *)
(* booking waits for, and no booking closes while a tank of it waits in the*)
(* yard (sort_by_priority, refresh_fulfilment).                            *)
UrgentIsServed == UrgentGoesFirst /\ NothingWaitsBehindIt

(* What lift_on.py promises of CONTAINER_FIELD: no release clears a date   *)
(* another booking still needs.                                            *)
ReleaseSparesOthers ==
  [][\A b \in Booking, t \in Tank :
       bk[b].status # "Cancelled" /\ bk'[b].status = "Cancelled" /\ tank[t].stamp.by = b =>
         \A c \in Booking \ {b} : bk[c].status = "Confirmed" /\ t \in bk[c].tanks => code[c][t] = "Left"]_vars

(* What _DEAD_STATUS promises (lift_on.py): no deadline of a pickup that   *)
(* happened is handed back; here, to the work of the tank's next visit.    *)
NextVisitIsClean ==
  \A t \in Tank, b \in Booking : order[t].open /\ ~order[t].old /\ order[t].by = b => code[b][t] # "Left"

(* What provision_survey_order_for_booking promises (tank_survey.py): a    *)
(* new row carries the booking's urgency.                                  *)
NewRowsUrgent ==
  [][\A b \in Booking :
       bk[b].status = "Draft" /\ bk'[b].status = "Confirmed" /\ bk[b].urgent =>
         \A t \in bk[b].tanks : row'[b][t].urgent]_vars

(* What refresh_fulfilment promises (lift_on.py): a booking whose every    *)
(* tank left on it does not stay open.                                     *)
CollectedCloses ==
  \A b \in Booking : ~(bk[b].status = "Confirmed" /\ \A t \in bk[b].tanks : code[b][t] = "Left")

(* What refresh_fulfilment promises (lift_on.py): Completed is terminal,   *)
(* unless a departure of this very booking is taken back.                  *)
ClosedStaysClosed ==
  [][\A b \in Booking :
       bk[b].status = "Completed" /\ bk'[b].status = "Confirmed" => code'[b] # code[b]]_vars
=============================================================================
