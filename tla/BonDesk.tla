------------------------------ MODULE BonDesk ------------------------------
(***************************************************************************)
(* The bon: an Order Bongkar brings its one or two tanks in, an Order Muat *)
(* takes them out.  Submitting a bon IS the movement; Kembalikan ke Draft  *)
(* takes a departure back but leaves an arrival standing, and only voiding *)
(* the draft (or striking a row off it) undoes an arrival.                 *)
(* Sources: order_generation.py, order_bongkar.py, order_muat.py, gate.py, *)
(* eir.py (the EIRs a bon raises, adopts and lets go).                     *)
(***************************************************************************)
EXTENDS DepotRecords

(* A later visit of the tank than the one the row r records.               *)
VisitedSince(t, r) ==
    \E q \in gate[t] : /\ q.st # "Cancelled" /\ q.arr # r.arr
                       /\ q.st = "Open" \/ q.out > r.out

(* Has a tank of the bon since left on the visit this arrival bon opened,  *)
(* or come back from the absence this departure bon began?                 *)
PastVisitBon(b) ==
    \E t \in bon[b].tanks : \E r \in gate[t] :
        /\ r.st = "Closed"
        /\ \/ bon[b].booking \in InBooking /\ r.arr = b
           \/ bon[b].booking \notin InBooking /\ r.muat = b /\ VisitedSince(t, r)

(* The draft of such a bon is left alone, unless the office lapses.         *)
Undisturbed(b) == "past bon" \in Lapse \/ ~PastVisitBon(b)

(* OrderMuat/OrderBongkar._validate_tank_position and                      *)
(* OrderMuat._validate_no_open_work, for the rows S of bon b.              *)
RowsFit(b, k, S) ==
    IF k \in InBooking
    THEN \A t \in S : \/ status[t] \notin Present
                      \/ LastIn(t) = b
                      \/ ~Conflict(k, t, "Out", status[t])
    ELSE \A t \in S : status[t] \in Present /\ ~Blocked(t)

-----------------------------------------------------------------------------
(* Order Bongkar submit                                                    *)

(* _record_gate_in: one row per visit, the open one is kept.               *)
ArrivalGate(t, b) ==
    IF OpenEntries(gate[t]) # {} THEN gate[t]
    ELSE gate[t] \cup {[arr |-> b, muat |-> 0, out |-> 0, eout |-> 0, st |-> "Open"]}

(* Fault: the arrival does not ask whether a draft EIR-In is still open.   *)
AnotherEIR(t, b, k) ==
    IF \/ t \in NoEIR[k]
       \/ \E i \in DOMAIN eir[t] :
             eir[t][i].type = "In" /\ eir[t][i].bon = b /\ eir[t][i].ds # "Void"
    THEN eir[t]
    ELSE Append(eir[t], [type |-> "In", ds |-> "Draft", bon |-> b, booking |-> k,
                         started |-> FALSE, snap |-> "In_Depot", born |-> departures[t]])

(* provision_eirs_for_order_bongkar: one draft EIR-In per tank that owes   *)
(* one, unless a draft is open or this bon already has its EIR.            *)
ArrivalEIR(t, b, k) ==
    IF \/ t \in NoEIR[k] \/ Drafts(t, "In") # {}
       \/ \E i \in DOMAIN eir[t] :
             eir[t][i].type = "In" /\ eir[t][i].bon = b /\ eir[t][i].ds # "Void"
    THEN eir[t]
    ELSE Append(eir[t], [type |-> "In", ds |-> "Draft", bon |-> b, booking |-> k,
                         started |-> FALSE, snap |-> "In_Depot", born |-> departures[t]])

(* A tank in the yard is on no second arrival bon, nor an away one on an   *)
(* older, unless the office lapses.                                        *)
OnlyArrivalBon(b, S) ==
    \/ "second bon" \in Lapse
    \/ \A t \in S : LastIn(t) <= b /\ (status[t] \in Present => LastIn(t) = b)

Arrive(b, k, S) ==
    /\ OnlyArrivalBon(b, S)
    /\ gate' = [t \in Tank |-> IF t \in S THEN ArrivalGate(t, b) ELSE gate[t]]
    /\ eir' = [t \in Tank |-> IF t \in S THEN ArrivalEIR(t, b, k) ELSE eir[t]]
    /\ \A t \in Tank : Len(eir'[t]) <= MaxEIR
    /\ status' = [t \in Tank |->
                    IF t \in S
                    THEN Settled("In_Depot", ArrivalGate(t, b), ArrivalEIR(t, b, k), work[t])
                    ELSE status[t]]
    /\ inDate' = [t \in Tank |-> t \in S \/ inDate[t]]
    /\ UNCHANGED departures

-----------------------------------------------------------------------------
(* Order Muat submit                                                       *)

(* Fault: an EIR-Out finished before its bon is not looked for.            *)
AttachedDraftOnly(t, b, k) ==
    LET draft == Newest(Drafts(t, "Out"))
    IN  IF draft # 0 THEN [eir[t] EXCEPT ![draft].bon = b, ![draft].booking = k] ELSE eir[t]

(* attach_order_muat_to_eirs: the tank's draft EIR-Out, else the finished  *)
(* one of this booking that no bon carries yet, is pointed at the bon.     *)
AttachedEIR(t, b, k) ==
    LET draft == Newest(Drafts(t, "Out"))
        known == \E i \in DOMAIN eir[t] : eir[t][i].type = "Out" /\ eir[t][i].bon = b
        done == Newest({i \in DOMAIN eir[t] :
                          /\ eir[t][i].type = "Out" /\ eir[t][i].ds = "Submitted"
                          /\ eir[t][i].booking = k /\ eir[t][i].bon = 0})
    IN  IF draft # 0 THEN [eir[t] EXCEPT ![draft].bon = b, ![draft].booking = k]
        ELSE IF known \/ done = 0 THEN eir[t]
        ELSE [eir[t] EXCEPT ![done].bon = b]

FinishedEIROut(t, b, es) ==
    Newest({i \in DOMAIN es : es[i].type = "Out" /\ es[i].ds = "Submitted" /\ es[i].bon = b})

(* gate.mark_gate_out stamps the open row of the visit, or files one.      *)
DepartureGate(t, b, es) ==
    LET stamp(r) == [r EXCEPT !.muat = b, !.out = departures[t] + 1, !.st = "Closed",
                              !.eout = FinishedEIROut(t, b, es)]
    IN  IF OpenEntries(gate[t]) = {}
        THEN gate[t] \cup {stamp([arr |-> 0, muat |-> 0, out |-> 0, eout |-> 0, st |-> "Open"])}
        ELSE LET cur == CHOOSE r \in OpenEntries(gate[t]) : TRUE
             IN  (gate[t] \ {cur}) \cup {stamp(cur)}

Depart(b, k, S) ==
    /\ \A t \in S : departures[t] < MaxDeparture
    /\ eir' = [t \in Tank |-> IF t \in S THEN AttachedEIR(t, b, k) ELSE eir[t]]
    /\ gate' = [t \in Tank |-> IF t \in S THEN DepartureGate(t, b, AttachedEIR(t, b, k))
                               ELSE gate[t]]
    /\ status' = [t \in Tank |-> IF t \in S THEN "Gate_Out" ELSE status[t]]
    /\ departures' = [t \in Tank |-> IF t \in S THEN departures[t] + 1 ELSE departures[t]]
    /\ UNCHANGED inDate

-----------------------------------------------------------------------------
(* make_order(submit = True): the office, the gate and the kiosk all issue *)
(* a bon that is submitted in the same transaction.                        *)

IssueGuard(k, S) ==
    /\ bk[k] = "Confirmed"
    /\ PaymentAllowsBon(k)
    /\ S # {} /\ Cardinality(S) <= 2
    /\ \A t \in S : code[k][t] = "Active"
    /\ Len(bon) < MaxBon
    /\ RowsFit(Len(bon) + 1, k, S)

Consumed(k, S) == [code EXCEPT ![k] = [t \in Tank |-> IF t \in S THEN "Used" ELSE @[t]]]

IssueBongkar(k, S) ==
    /\ k \in InBooking /\ IssueGuard(k, S)
    /\ LET b == Len(bon) + 1
           r == [booking |-> k, tanks |-> S, ds |-> "Submitted", completed |-> S \subseteq NoEIR[k]]
       IN  bon' = Append(bon, r) /\ Arrive(b, k, S)
    /\ code' = Consumed(k, S)
    /\ UNCHANGED <<bk, paid, work, enforceAll>>

IssueMuat(k, S) ==
    /\ k \notin InBooking /\ IssueGuard(k, S)
    /\ LET b == Len(bon) + 1
           r == [booking |-> k, tanks |-> S, ds |-> "Submitted", completed |-> TRUE]
       IN  bon' = Append(bon, r) /\ Depart(b, k, S)
    /\ code' = Consumed(k, S)
    /\ UNCHANGED <<bk, paid, work, enforceAll>>

(* A bon sent back to draft is submitted again from its form; nothing asks *)
(* for the money of an Order Bongkar then, the gate asks for that of a     *)
(* departure.                                                              *)
ResubmitBongkar(b) ==
    /\ bon[b].ds = "Draft" /\ bon[b].booking \in InBooking
    /\ Undisturbed(b)
    /\ RowsFit(b, bon[b].booking, bon[b].tanks)
    /\ Arrive(b, bon[b].booking, bon[b].tanks)
    /\ bon' = [bon EXCEPT ![b].ds = "Submitted",
                          ![b].completed = AllInspected(b, bon[b], eir')]
    /\ UNCHANGED <<bk, code, paid, work, enforceAll>>

(* Fault: a departure sent back and submitted again is not asked for its   *)
(* money, as an arrival is not.                                            *)
ResubmitMuatOnCredit(b) ==
    /\ bon[b].ds = "Draft" /\ bon[b].booking \notin InBooking
    /\ Undisturbed(b)
    /\ RowsFit(b, bon[b].booking, bon[b].tanks)
    /\ Depart(b, bon[b].booking, bon[b].tanks)
    /\ bon' = [bon EXCEPT ![b].ds = "Submitted", ![b].completed = TRUE]
    /\ UNCHANGED <<bk, code, paid, work, enforceAll>>

ResubmitMuat(b) ==
    /\ bon[b].ds = "Draft" /\ bon[b].booking \notin InBooking
    /\ Undisturbed(b)
    /\ RowsFit(b, bon[b].booking, bon[b].tanks)
    /\ PaymentAllowsBon(bon[b].booking)
    /\ Depart(b, bon[b].booking, bon[b].tanks)
    /\ bon' = [bon EXCEPT ![b].ds = "Submitted", ![b].completed = TRUE]
    /\ UNCHANGED <<bk, code, paid, work, enforceAll>>
-----------------------------------------------------------------------------
(* Kembalikan ke Draft                                                     *)

(* gate.reverse_bon_departures, per tank: only a tank still away on this   *)
(* very bon comes back.                                                    *)
Reversible(b, t) ==
    /\ t \in bon[b].tanks /\ status[t] = "Gate_Out"
    /\ LastOut(t) \in {0, b}
    /\ \E r \in gate[t] : r.st = "Closed" /\ r.muat = b

(* What comes back left last of all on this bon, off its newest arrival    *)
(* bon, unless the office lapses.                                          *)
LatestDeparture(b) ==
    \/ "old departure" \in Lapse
    \/ \A t \in Tank : Reversible(b, t) =>
          \E r \in gate[t] : /\ r.st = "Closed" /\ r.muat = b
                            /\ r.out = departures[t] /\ r.arr = LastIn(t)

(* Fault: a new visit is opened beside the closed row.                     *)
ReopenedBeside(b, t) ==
    gate[t] \cup {[r EXCEPT !.muat = 0, !.out = 0, !.eout = 0, !.st = "Open"] :
                     r \in {q \in gate[t] : q.st = "Closed" /\ q.muat = b}}

(* reopen_gate_entry: the row of this bon's departure is open again.       *)
ReversedGate(b, t) ==
    LET mine == {r \in gate[t] : r.st = "Closed" /\ r.muat = b}
    IN  {IF r \in mine /\ \A q \in mine : q.out <= r.out
         THEN [r EXCEPT !.muat = 0, !.out = 0, !.eout = 0, !.st = "Open"] ELSE r : r \in gate[t]}

(* order_undoable: an Order Bongkar whose tanks are all inspected is       *)
(* closed; the EIR-In goes back first.                                     *)
Undoable(b) ==
    \/ bon[b].booking \notin InBooking \/ ~bon[b].completed
    \/ bon[b].tanks \subseteq NoEIR[bon[b].booking]

RevertBongkar(b) ==
    /\ bon[b].ds = "Submitted" /\ bon[b].booking \in InBooking /\ Undoable(b)
    /\ bon' = [bon EXCEPT ![b].ds = "Draft", ![b].completed = FALSE]
    /\ UNCHANGED <<status, inDate, bk, code, paid, gate, eir, work, departures, enforceAll>>

RevertMuat(b) ==
    /\ bon[b].ds = "Submitted" /\ bon[b].booking \notin InBooking /\ Undoable(b)
    /\ LatestDeparture(b)
    /\ gate' = [t \in Tank |-> IF Reversible(b, t) THEN ReversedGate(b, t) ELSE gate[t]]
    /\ status' = [t \in Tank |->
                    IF Reversible(b, t)
                    THEN Settled("Available", ReversedGate(b, t), eir[t], work[t])
                    ELSE status[t]]
    /\ bon' = [bon EXCEPT ![b].ds = "Draft", ![b].completed = FALSE]
    /\ UNCHANGED <<inDate, bk, code, paid, eir, work, departures, enforceAll>>

-----------------------------------------------------------------------------
(* Undoing an arrival: the draft bon is voided, or a row is struck off it. *)

(* _arrived_on: the tank's arrival is still this bon's to undo.            *)
ArrivedOn(b, t) == status[t] \in Present /\ LastIn(t) \in {0, b}

(* release_eirs_for_cancelled_order: an EIR of type d that pointed at bon  *)
(* b.  A draft is handed to the newest submitted bon raised after b, else  *)
(* deleted when nobody started it (EIR-In only), else kept without a bon.  *)
(* A finished EIR-Out is freed for the next bon.                           *)
LetGo(e, b, d, next) ==
    IF ~(e.type = d /\ e.bon = b) THEN e
    ELSE CASE e.ds = "Draft" /\ next > b ->
                [e EXCEPT !.bon = next, !.booking = bon[next].booking]
           [] e.ds = "Draft" /\ next <= b /\ d = "In" /\ ~e.started -> [e EXCEPT !.ds = "Void"]
           [] e.ds = "Draft" /\ next <= b /\ (d = "Out" \/ e.started) -> [e EXCEPT !.bon = 0]
           [] e.ds = "Submitted" /\ d = "Out" -> [e EXCEPT !.bon = 0]
           [] OTHER -> e

ReleasedEIR(t, b, d) ==
    LET next == Newest(BonsOf(t, d, {"Submitted"}))
    IN  [i \in DOMAIN eir[t] |-> LetGo(eir[t][i], b, d, next)]


(* Fault: the visit of an undone arrival stays open.                       *)
GateKept(t, b) == IF b \in DOMAIN bon THEN gate[t] ELSE {}

(* _release_gate_in: the open row this bon opened is cancelled.            *)
ReleasedGate(t, b) ==
    {IF r.arr = b /\ r.st = "Open" THEN [r EXCEPT !.st = "Cancelled"] ELSE r : r \in gate[t]}

(* _cancel_unstarted_work: this visit's orders nobody has started.         *)
ReleasedWork(t, b) ==
    LET since == LastDeparture(status[t], gate[t])
    IN  [i \in DOMAIN work[t] |->
            IF ArrivedOn(b, t) /\ i \in HoldingWork(work[t], since) /\ work[t][i].st = "Unstarted"
            THEN [work[t][i] EXCEPT !.st = "Cancelled"] ELSE work[t][i]]

(* Fault: the tank goes back to the status the earlier bon flow gave it.   *)
RolledBackToGate(t, b) == IF ArrivedOn(b, t) THEN "Gate_In" ELSE status[t]

(* _release_container_arrival: where roll_back_arrival puts the tank; one  *)
(* whose arrival is not this bon's is only recomputed.                     *)
RolledBack(t, b) ==
    IF ~ArrivedOn(b, t)
    THEN Settled(status[t], ReleasedGate(t, b), ReleasedEIR(t, b, "In"), work[t])
    ELSE IF LiveBooking(bon[b].booking) THEN "Booked" ELSE "Gate_Out"

UndoArrival(b, S) ==
    /\ eir' = [t \in Tank |-> IF t \in S THEN ReleasedEIR(t, b, "In") ELSE eir[t]]
    /\ gate' = [t \in Tank |-> IF t \in S THEN ReleasedGate(t, b) ELSE gate[t]]
    /\ work' = [t \in Tank |-> IF t \in S THEN ReleasedWork(t, b) ELSE work[t]]
    /\ status' = [t \in Tank |-> IF t \in S THEN RolledBack(t, b) ELSE status[t]]
    /\ inDate' = [t \in Tank |-> inDate[t] /\ ~(t \in S /\ ArrivedOn(b, t))]

(* Fault: the code stays consumed by the voided bon.                       *)
NotFreed(k, S) == [code EXCEPT ![k] = [t \in Tank |-> IF t \in S THEN "Used" ELSE @[t]]]

Freed(k, S) ==
    [code EXCEPT ![k] = [t \in Tank |-> IF t \in S /\ @[t] = "Used" THEN "Active" ELSE @[t]]]

(* void_order: drafts only; it runs the whole on_cancel by hand.           *)
VoidBongkar(b) ==
    /\ bon[b].ds = "Draft" /\ bon[b].booking \in InBooking /\ Undisturbed(b)
    /\ UndoArrival(b, bon[b].tanks)
    /\ code' = Freed(bon[b].booking, bon[b].tanks)
    /\ bon' = [bon EXCEPT ![b].ds = "Voided"]
    /\ UNCHANGED <<bk, paid, departures, enforceAll>>

VoidMuat(b) ==
    /\ bon[b].ds = "Draft" /\ bon[b].booking \notin InBooking /\ Undisturbed(b)
    /\ LatestDeparture(b)
    /\ gate' = [t \in Tank |-> IF Reversible(b, t) THEN ReversedGate(b, t) ELSE gate[t]]
    /\ eir' = [t \in Tank |-> IF t \in bon[b].tanks THEN ReleasedEIR(t, b, "Out") ELSE eir[t]]
    /\ status' = [t \in Tank |->
                    IF Reversible(b, t)
                    THEN Settled("Available", ReversedGate(b, t), eir[t], work[t])
                    ELSE status[t]]
    /\ code' = Freed(bon[b].booking, bon[b].tanks)
    /\ bon' = [bon EXCEPT ![b].ds = "Voided"]
    /\ UNCHANGED <<inDate, bk, paid, work, departures, enforceAll>>

-----------------------------------------------------------------------------
(* Saving a draft bon with other rows: a code newly placed on it must be   *)
(* Active and is consumed, the code of a row struck off is given back      *)
(* (_validate_booking_code, _reconcile_codes); on an Order Bongkar the     *)
(* tank struck off is un-arrived (_release_removed_tanks).                 *)
EditGuard(b, S) ==
    LET k == bon[b].booking
    IN  /\ bon[b].ds = "Draft" /\ Undisturbed(b)
        /\ S # {} /\ S # bon[b].tanks /\ Cardinality(S) <= 2
        /\ \A t \in S \ bon[b].tanks : code[k][t] = "Active"
        /\ RowsFit(b, k, S)

Recoded(k, was, S) ==
    [code EXCEPT ![k] = [t \in Tank |->
        CASE t \in S \ was -> "Used"
          [] t \in was \ S /\ @[t] = "Used" -> "Active"
          [] OTHER -> @[t]]]

EditBongkar(b, S) ==
    /\ bon[b].booking \in InBooking /\ EditGuard(b, S)
    /\ "second bon" \in Lapse \/ \A t \in S \ bon[b].tanks : status[t] \notin Present
    /\ UndoArrival(b, bon[b].tanks \ S)
    /\ code' = Recoded(bon[b].booking, bon[b].tanks, S)
    /\ bon' = [bon EXCEPT ![b].tanks = S]
    /\ UNCHANGED <<bk, paid, departures, enforceAll>>

EditMuat(b, S) ==
    /\ bon[b].booking \notin InBooking /\ EditGuard(b, S)
    /\ code' = Recoded(bon[b].booking, bon[b].tanks, S)
    /\ bon' = [bon EXCEPT ![b].tanks = S]
    /\ UNCHANGED <<status, inDate, bk, paid, gate, eir, work, departures, enforceAll>>

BonStep ==
    \/ \E k \in Booking : \E S \in SUBSET Lines[k] : IssueBongkar(k, S) \/ IssueMuat(k, S)
    \/ \E b \in DOMAIN bon :
         \/ ResubmitBongkar(b) \/ ResubmitMuat(b) \/ RevertBongkar(b) \/ RevertMuat(b)
         \/ VoidBongkar(b) \/ VoidMuat(b)
         \/ \E S \in SUBSET Lines[bon[b].booking] : EditBongkar(b, S) \/ EditMuat(b, S)
=============================================================================
