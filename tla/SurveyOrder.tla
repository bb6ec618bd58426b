---------------------------- MODULE SurveyOrder ----------------------------
(***************************************************************************)
(* The field survey of one Tank Out booking: the Survey Order documents    *)
(* (day) that follow the booking both ways, their tank rows with the two   *)
(* steps of the yard (lowered, surveyed), the undo of either step, and the *)
(* EIR-Out each tank's booking raises and its finished survey claims.      *)
(* Sources: tank_survey.py, survey_order.py, eir.py, closing.py and the    *)
(* booking's hooks.                                                        *)
(***************************************************************************)
EXTENDS Integers, Sequences, FiniteSets

CONSTANTS
  Lapse,        \* "dead row": people send back rows nobody asks for any more
  Tank,         \* the tanks the booking may carry
  Enforce,      \* Wajibkan Semua Order: does an EIR-Out wait for its survey?
  MaxDay        \* bound: Survey Orders ever raised for the booking

TankAssumption == IsFiniteSet(Tank) /\ Tank # {}
LapseAssumption == Lapse \subseteq {"dead row"}
BoundAssumption == Enforce \in BOOLEAN /\ MaxDay \in Nat

VARIABLES
  bk,       \* the booking: its step, tanks, those taken without an EIR, and Pakai Survey
  day,      \* its Survey Orders, oldest first
  bon,      \* bon[t]: what became of the tank's Order Muat
  eir       \* eir[t]: the tank's EIR-Out that is not void

vars == <<bk, day, bon, eir>>

Waiting == "Waiting Lowering"
Lowered == "Lowered"
Done == "Survey Done"
Cancelled == "Cancelled"

By == {"nobody", "crew", "admin"}      \* who a stamp names
Row == [status : {Waiting, Lowered, Done, Cancelled}, lowered : By, surveyed : By, sentBack : BOOLEAN]
NoRow == [status |-> "none"]
NewRow == [status |-> Waiting, lowered |-> "nobody", surveyed |-> "nobody", sentBack |-> FALSE]

NoDay == 0
EIROut == [state : {"None", "Draft", "Submitted"}, claim : 0..MaxDay, filled : BOOLEAN]
NoEIR == [state |-> "None", claim |-> NoDay, filled |-> FALSE]
NewEIR == [state |-> "Draft", claim |-> NoDay, filled |-> FALSE]

Init ==
  /\ \E ts \in SUBSET Tank \ {{}}, survey \in BOOLEAN :
       bk = [status |-> "Draft", tanks |-> ts, bare |-> {}, survey |-> survey]
  /\ day = <<>>
  /\ bon = [t \in Tank |-> "None"]
  /\ eir = [t \in Tank |-> NoEIR]

TypeOK ==
  /\ bk \in [status : {"Draft", "Confirmed", "Cancelled"}, tanks : SUBSET Tank \ {{}},
             bare : SUBSET Tank, survey : BOOLEAN]
  /\ day \in Seq([docstatus : 0..2, status : {"Scheduled", "In Progress", "Completed", Cancelled},
                  row : [Tank -> Row \cup {NoRow}]])
  /\ Len(day) <= MaxDay
  /\ bon \in [Tank -> {"None", "Draft", "Out", "Void"}]
  /\ eir \in [Tank -> EIROut]

-----------------------------------------------------------------------------
(* What the documents say.  (Definitions no other here uses are plausible  *)
(* bugs of the code.)                                                      *)
LiveDays == {d \in DOMAIN day : day[d].docstatus # 2}

HasRow(o, t) == o.row[t] # NoRow
Open(r) == r # NoRow /\ r.status \in {Waiting, Lowered}
Worked(r) == r # NoRow /\ r.status \in {Lowered, Done}

WantedBy(b) == IF b.status = "Confirmed" THEN b.tanks \ b.bare ELSE {}
BonRaised == \E t \in Tank : bon[t] # "None"
OnBon(t) == bon[t] \in {"Draft", "Out"}
Left(t) == bon[t] = "Out"         \* _departed_for_code

Progress(o) ==
  LET live == {t \in Tank : HasRow(o, t) /\ o.row[t].status # Cancelled}
  IN  IF live = {} THEN IF \E t \in Tank : HasRow(o, t) THEN Cancelled ELSE "Scheduled"
      ELSE IF \A t \in live : o.row[t].status = Done THEN "Completed"
      ELSE IF \E t \in live : Worked(o.row[t]) THEN "In Progress"
      ELSE "Scheduled"

(* refresh_progress: a day already called off is left alone.               *)
Refreshed(o) ==
  IF o.status = Cancelled THEN o
  ELSE [o EXCEPT !.status = Progress(o), !.docstatus = IF Progress(o) = "Completed" THEN 1 ELSE 0]

(* _true_status                                                            *)
TrueStatus(r) ==
  IF r.surveyed # "nobody" THEN Done ELSE IF r.lowered # "nobody" THEN Lowered ELSE Waiting

(* _membership_plan: what a sync makes of a tank's row.                    *)
Member(r, wanted) ==
  IF wanted
  THEN IF r = NoRow THEN NewRow ELSE IF r.status = Cancelled THEN [r EXCEPT !.status = TrueStatus(r)] ELSE r
  ELSE IF ~Open(r) THEN r ELSE IF TrueStatus(r) = Waiting THEN NoRow ELSE [r EXCEPT !.status = Cancelled]

SyncedDay(o, wanted) ==
  LET rows == [t \in Tank |-> Member(o.row[t], t \in wanted)]
  IN  IF o.docstatus = 1 /\ rows = o.row THEN o ELSE Refreshed([o EXCEPT !.docstatus = 0, !.row = rows])

FreshDay(wanted) ==
  [docstatus |-> 0, status |-> "Scheduled", row |-> [t \in Tank |-> Member(NoRow, t \in wanted)]]

CancelledRows(o) ==
  [t \in Tank |-> IF HasRow(o, t) /\ o.row[t].status # Done THEN [o.row[t] EXCEPT !.status = Cancelled] ELSE o.row[t]]

(* close_survey_order_with_booking, the day's part.                        *)
ClosedDay(o) ==
  [docstatus |-> IF o.docstatus = 0 THEN 2 ELSE o.docstatus, status |-> Cancelled, row |-> CancelledRows(o)]

(* ... and its EIR-Outs: the drafts the day claimed are void with it.      *)
VoidClaims(d) == [t \in Tank |-> IF eir[t].state = "Draft" /\ eir[t].claim = d THEN NoEIR ELSE eir[t]]

(* provision_eir_out_for_booking                                           *)
BookedEIRs(es, b) ==
  [t \in Tank |->
    IF t \notin WantedBy(b) /\ es[t].state = "Draft" /\ es[t].claim = NoDay /\ ~es[t].filled THEN NoEIR
    ELSE IF t \in WantedBy(b) /\ es[t].state = "None" /\ ~Left(t) THEN NewEIR ELSE es[t]]

(* provision_survey_order_for_booking, then the EIR-Outs: after every save *)
(* of a confirmed booking, and when it goes back to draft or is voided.    *)
Provision(b) ==
  /\ bk' = b
  /\ LET open == LiveDays
         wanted == WantedBy(b)
     IN  IF wanted = {} \/ ~b.survey
         THEN \/ open = {} /\ day' = day /\ eir' = BookedEIRs(eir, b)
              \/ \E d \in open : /\ day' = [day EXCEPT ![d] = ClosedDay(@)]
                                 /\ eir' = BookedEIRs(VoidClaims(d), b)
         ELSE /\ \/ open = {} /\ day' = Append(day, FreshDay(wanted))
                 \/ \E d \in open : day' = [day EXCEPT ![d] = SyncedDay(@, wanted)]
              /\ eir' = BookedEIRs(eir, b)
  /\ Len(day') <= MaxDay
  /\ UNCHANGED bon

-----------------------------------------------------------------------------
(* The booking                                                             *)

SurveyUnderway == \E d \in LiveDays, t \in Tank : Worked(day[d].row[t])

(* A save of the draft: rows and switches; it leaves the survey alone.     *)
EditDraft ==
  /\ bk.status = "Draft"
  /\ \E ts \in SUBSET Tank \ {{}}, survey \in BOOLEAN :
       /\ ~survey => ~SurveyUnderway            \* _drop_survey_when_off
       /\ bk' = [bk EXCEPT !.tanks = ts, !.survey = survey, !.bare = @ \cap ts]
  /\ UNCHANGED <<day, bon, eir>>

Confirm == bk.status = "Draft" /\ Provision([bk EXCEPT !.status = "Confirmed"])

(* Kembali ke Draft: while no bon was ever raised.                         *)
revert_booking_to_draft ==
  bk.status = "Confirmed" /\ ~BonRaised /\ Provision([bk EXCEPT !.status = "Draft"])

(* _block_if_child_submitted                                               *)
ChildSubmitted ==
  \/ \E d \in LiveDays : day[d].docstatus = 1
  \/ \E t \in Tank : eir[t].state = "Submitted" /\ eir[t].claim \in LiveDays

void_draft ==
  /\ bk.status = "Draft" /\ ~BonRaised /\ ~ChildSubmitted
  /\ Provision([bk EXCEPT !.status = "Cancelled"])

(* Revisi Data, or create_from_booking: the same sync again.               *)
Resync == bk.status = "Confirmed" /\ Provision(bk)

(* Pakai EIR of a LADEN line, locked once the line is on a bon.            *)
SetUseEIR(t) ==
  /\ bk.status = "Confirmed" /\ t \in bk.tanks /\ ~OnBon(t)
  /\ Provision([bk EXCEPT !.bare = IF t \in @ THEN @ \ {t} ELSE @ \cup {t}])

(* The Administrator takes a wrong tank off.                               *)
remove_tank(t) ==
  /\ bk.status = "Confirmed" /\ t \in bk.tanks /\ bk.tanks # {t} /\ ~OnBon(t)
  /\ bon[t] = "Void" => eir[t].state # "Submitted"
  /\ Provision([bk EXCEPT !.tanks = @ \ {t}, !.bare = @ \ {t}])

Bon(t) ==
  /\ \/ bk.status = "Confirmed" /\ t \in bk.tanks /\ bon[t] \in {"None", "Void"} /\ bon' = [bon EXCEPT ![t] = "Draft"]
     \/ bon[t] = "Draft" /\ bon' = [bon EXCEPT ![t] = "Void"]
     \/ bon[t] = "Out" /\ bon' = [bon EXCEPT ![t] = "Draft"]
  /\ UNCHANGED <<bk, day, eir>>

(* The bon's submit is the departure; it adopts the EIR-Out.               *)
BonOut(t) ==
  /\ bon[t] = "Draft"
  /\ bon' = [bon EXCEPT ![t] = "Out"]
  /\ eir' = [eir EXCEPT ![t].filled = @ \/ eir[t].state = "Draft"]
  /\ UNCHANGED <<bk, day>>

-----------------------------------------------------------------------------
(* The yard.  No press looks at the day itself, only at the tank's row.    *)

Write(d, t, r) == day' = [day EXCEPT ![d] = Refreshed([@ EXCEPT !.row[t] = r])]

(* A second press on a tank already down changes nothing.                  *)
mark_lowered(d, t) ==
  /\ HasRow(day[d], t) /\ day[d].row[t].status = Waiting
  /\ Write(d, t, [day[d].row[t] EXCEPT !.status = Lowered, !.lowered = "crew", !.sentBack = FALSE])
  /\ UNCHANGED <<bk, bon, eir>>

(* provision_eir_out_for_survey: the tank's own draft is claimed, a        *)
(* submitted one it left on is only pointed at.                            *)
Claimed(t, d) ==
  IF eir[t].state = "Submitted" \/ eir[t].claim = d THEN eir[t]
  ELSE [eir[t] EXCEPT !.state = "Draft", !.claim = d]

finish_survey(d, t) ==
  /\ HasRow(day[d], t) /\ day[d].row[t].status = Lowered
  /\ Write(d, t, [day[d].row[t] EXCEPT !.status = Done, !.surveyed = "crew", !.sentBack = FALSE])
  /\ eir' = [eir EXCEPT ![t] = Claimed(t, d)]
  /\ UNCHANGED <<bk, bon>>

(* The lapse: nothing refuses a row of a day that was called off, or of a  *)
(* tank the booking dropped; Riwayat shows both.                           *)
Asked(d, t) == "dead row" \in Lapse \/ (day[d].status # Cancelled /\ t \in WantedBy(bk))

(* Faults: a tank that left may be sent back; the survey's stamp stays on  *)
(* a tank that goes up again.                                              *)
AnyMayGoBack(d, t, from) == HasRow(day[d], t) /\ day[d].row[t].status \in from /\ Asked(d, t)
KeepsSurvey(r) == [r EXCEPT !.status = Waiting, !.lowered = "nobody", !.sentBack = TRUE]

(* _reopen                                                                 *)
MayGoBack(d, t, from) == HasRow(day[d], t) /\ day[d].row[t].status \in from /\ ~Left(t) /\ Asked(d, t)

SentUp(r) == [r EXCEPT !.status = Waiting, !.lowered = "nobody", !.surveyed = "nobody", !.sentBack = TRUE]

reopen_lowering(d, t) ==
  /\ MayGoBack(d, t, {Lowered, Done})
  /\ Write(d, t, SentUp(day[d].row[t]))
  /\ UNCHANGED <<bk, bon, eir>>

reopen_survey(d, t) ==
  /\ MayGoBack(d, t, {Done})
  /\ Write(d, t, [day[d].row[t] EXCEPT !.status = Lowered, !.surveyed = "nobody", !.sentBack = TRUE])
  /\ UNCHANGED <<bk, bon, eir>>

(* Tutup Order of the picked rows: a stamp the crew left stays.            *)
StampedByAdmin(r) ==
  [r EXCEPT !.status = Done, !.surveyed = "admin", !.lowered = IF @ = "nobody" THEN "admin" ELSE @]

ClosedRow(r) == StampedByAdmin(r)

close_survey_rows(d) ==
  /\ d \in LiveDays
  /\ \E picked \in SUBSET {t \in Tank : Open(day[d].row[t])} \ {{}} :
       /\ day' = [day EXCEPT ![d] = Refreshed([@ EXCEPT !.row =
                   [t \in Tank |-> IF t \in picked THEN ClosedRow(@[t]) ELSE @[t]]])]
       /\ eir' = [t \in Tank |-> IF t \in picked /\ ~Left(t) THEN Claimed(t, d) ELSE eir[t]]
  /\ UNCHANGED <<bk, bon>>

(* Cancel or Discard of the day on the Desk: its rows leave the queues,    *)
(* its draft EIR-Outs stay with the booking.  The framework refuses to     *)
(* cancel a submitted day that a submitted EIR-Out names.                  *)
CancelDay(d) ==
  /\ d \in LiveDays
  /\ day[d].docstatus = 1 => \A t \in Tank : ~(eir[t].state = "Submitted" /\ eir[t].claim = d)
  /\ day' = [day EXCEPT ![d] = [docstatus |-> 2, status |-> Cancelled, row |-> CancelledRows(@)]]
  /\ eir' = [t \in Tank |-> IF eir[t].state = "Draft" /\ eir[t].claim = d THEN [eir[t] EXCEPT !.claim = NoDay]
                            ELSE eir[t]]
  /\ UNCHANGED <<bk, bon>>

-----------------------------------------------------------------------------
(* The EIR-Out                                                             *)

FillEIR(t) ==
  /\ eir[t].state = "Draft" /\ ~eir[t].filled
  /\ eir' = [eir EXCEPT ![t].filled = TRUE]
  /\ UNCHANGED <<bk, day, bon>>

(* unfinished_survey_row                                                   *)
Unfinished(t) == bk.survey /\ \E d \in LiveDays : Open(day[d].row[t])

SubmitEIR(t) ==
  /\ eir[t].state = "Draft" /\ eir[t].filled
  /\ Enforce => ~Unfinished(t)
  /\ eir' = [eir EXCEPT ![t].state = "Submitted"]
  /\ UNCHANGED <<bk, day, bon>>

RevertEIR(t) ==
  /\ eir[t].state = "Submitted"
  /\ eir' = [eir EXCEPT ![t].state = "Draft"]
  /\ UNCHANGED <<bk, day, bon>>

-----------------------------------------------------------------------------
BookingStep == EditDraft \/ Confirm \/ revert_booking_to_draft \/ void_draft \/ Resync

TankStep(t) == SetUseEIR(t) \/ remove_tank(t) \/ Bon(t) \/ BonOut(t) \/ FillEIR(t) \/ SubmitEIR(t) \/ RevertEIR(t)

YardStep(d) ==
  \/ close_survey_rows(d) \/ CancelDay(d)
  \/ \E t \in Tank : mark_lowered(d, t) \/ finish_survey(d, t) \/ reopen_lowering(d, t) \/ reopen_survey(d, t)

Next == BookingStep \/ (\E t \in Tank : TankStep(t)) \/ (\E d \in DOMAIN day : YardStep(d))

Spec == Init /\ [][Next]_vars

-----------------------------------------------------------------------------
(* A row's status and its stamps tell one story, whatever order steps,     *)
(* undos, drops and returns came in: a surveyed tank was lowered, and a    *)
(* row that is not called off stands where its stamps say (_true_status).  *)
StampsAgree ==
  \A d \in DOMAIN day, t \in Tank :
    LET r == day[d].row[t]
    IN  r # NoRow => /\ r.surveyed # "nobody" => r.lowered # "nobody"
                     /\ r.status # Cancelled => r.status = TrueStatus(r)

(* A day not called off shows what its tanks show, and is submitted        *)
(* exactly while every tank on it is finished: the EIR menus and the void  *)
(* of the booking both key on that docstatus (refresh_progress).           *)
DayShowsTanks ==
  \A d \in DOMAIN day :
    day[d].status # Cancelled => /\ day[d].status = Progress(day[d])
                                 /\ (day[d].docstatus = 1) = (day[d].status = "Completed")

(* A confirmed booking has at most one live day; every tank it asks to     *)
(* survey has a row there that is not called off, and a tank it no longer  *)
(* asks for is in nobody's queue (provision_survey_order_for_booking).     *)
DayFollowsBooking ==
  bk.status = "Confirmed" =>
    /\ Cardinality(LiveDays) <= 1
    /\ \A d \in LiveDays, t \in Tank :
         IF t \in WantedBy(bk) /\ bk.survey THEN HasRow(day[d], t) /\ day[d].row[t].status # Cancelled
         ELSE ~Open(day[d].row[t])

(* Once the booking is void no row of any day it ever had waits in a       *)
(* queue: nobody is sent into the yard for a pickup nobody makes           *)
(* (close_survey_order_with_booking).                                      *)
VoidIsQuiet ==
  bk.status = "Cancelled" => \A d \in DOMAIN day, t \in Tank : ~Open(day[d].row[t])

(* Every tank of a confirmed booking that takes an EIR and has not left    *)
(* has its EIR-Out, through drops, returns, closed days and re-confirms.   *)
EveryTankHasEIR ==
  \A t \in WantedBy(bk) : eir[t].state # "None" \/ bon[t] # "None"

(* A lowering somebody did is never lost to the booking's own edits: the   *)
(* row keeps who lowered the tank until that step is sent back by hand.    *)
WorkKept ==
  \A d \in DOMAIN day, t \in Tank :
    LET r == day[d].row[t]
        n == day'[d].row[t]
    IN  r # NoRow /\ r.lowered # "nobody" => n # NoRow /\ (n.lowered = r.lowered \/ n.sentBack)

(* A tank that left on this booking's bon is never put back in a queue.    *)
GoneStaysDone ==
  \A d \in DOMAIN day, t \in Tank :
    Left(t) /\ day[d].row[t] # NoRow /\ day[d].row[t].status = Done => day'[d].row[t].status = Done

(* What the booking's sync promises (container_booking.py): the day        *)
(* follows the booking both ways, so a tank the confirmed booking still    *)
(* waits for is on a day that is not called off, where the queues show it. *)
QueuedIsVisible ==
  bk.status = "Confirmed" /\ bk.survey =>
    \A d \in LiveDays, t \in WantedBy(bk) : Open(day[d].row[t]) => day[d].status # Cancelled

(* What _true_status promises (tank_survey.py): a tank that comes back     *)
(* resumes where it stood and never queues for a lowering it already had;  *)
(* here when Kembali ke Draft is followed by a new Confirm.                *)
ResumesWhereItStood ==
  [][bk.status = "Draft" /\ bk'.status = "Confirmed" =>
       \A d \in DOMAIN day, n \in DOMAIN day', t \in Tank :
         HasRow(day[d], t) /\ TrueStatus(day[d].row[t]) = Lowered /\ HasRow(day'[n], t) =>
           day'[n].row[t].status # Waiting]_vars

(* What Kembali ke Draft promises (container_booking.py): an EIR-Out that  *)
(* was filled in stays.                                                    *)
FilledStays ==
  [][bk.status = "Confirmed" /\ bk'.status = "Draft" =>
       \A t \in Tank : eir[t].state = "Draft" /\ eir[t].filled => eir'[t].state = "Draft"]_vars

(* What _block_if_child_submitted promises (container_booking.py): the     *)
(* booking waits while an EIR-Out its survey raised is submitted.          *)
VoidWaits ==
  [][bk.status # "Cancelled" /\ bk'.status = "Cancelled" =>
       \A t \in Tank : ~(eir[t].state = "Submitted" /\ eir[t].claim # NoDay)]_vars

(* What _release_eir_outs promises (survey_order.py): no draft EIR-Out is  *)
(* linked to a voided day, for every later save of it would be refused.    *)
ClaimsLive ==
  \A t \in Tank : eir[t].state = "Draft" /\ eir[t].claim # NoDay => day[eir[t].claim].docstatus # 2
=============================================================================
