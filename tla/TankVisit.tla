------------------------------ MODULE TankVisit ------------------------------
(***************************************************************************)
(* The depot as one system: the booking desk, the bon desk, the inspection *)
(* desk and the yard's work orders, all writing the same tank's papers.    *)
(***************************************************************************)
EXTENDS BookingDesk, BonDesk, InspectionDesk

(* The admin's switch "Wajibkan Semua Order".                              *)
ToggleEnforceAll ==
    /\ enforceAll' \in Switch \ {enforceAll}
    /\ UNCHANGED <<status, inDate, bk, code, paid, bon, gate, eir, work, departures>>

Next ==
    \/ \E k \in Booking : BookingStep(k)
    \/ BonStep
    \/ \E t \in Tank : EIRStep(t) \/ WorkStep(t)
    \/ ToggleEnforceAll

Spec == Init /\ [][Next]_vars

-----------------------------------------------------------------------------
(* Safety                                                                  *)

(* A tank has at most one open Gate Entry: a second one would count one     *)
(* visit twice in the yard's register (gate.GATE_ENTRY_CLOSED).             *)
OneOpenVisit == \A t \in Tank : Cardinality(OpenEntries(gate[t])) <= 1

(* The Container status (written by five documents' saves) and the Gate    *)
(* Entry log (written by the bons) tell the same story: a tank is in the   *)
(* depot exactly while a visit of it is open.                              *)
PresentIffOpenVisit ==
    \A t \in Tank : status[t] \in Present <=> OpenEntries(gate[t]) # {}

(* The yard's register and the tank's status tell one story: one open Gate *)
(* Entry at most, and exactly while the tank is in the depot               *)
(* (gate.GATE_ENTRY_CLOSED, container_status.PRESENT).                     *)
VisitsAgree == OneOpenVisit /\ PresentIffOpenVisit

(* In_Depot / Available is a cache of container_open_orders; no request    *)
(* that starts, ends, adopts or releases work leaves it stale.             *)
StatusAgrees ==
    \A t \in Tank : status[t] = Settled(status[t], gate[t], eir[t], work[t])

(* A consumed Booking Code stands on exactly one live bon of its booking,  *)
(* and a tank on a live bon has its code consumed: the code is what stops  *)
(* a second bon for the same move.                                         *)
CodeOnOneLiveBon ==
    \A k \in Booking, t \in Tank :
        LET live == {b \in DOMAIN bon : /\ bon[b].booking = k /\ t \in bon[b].tanks
                                        /\ bon[b].ds # "Voided"}
        IN  IF code[k][t] = "Used" THEN Cardinality(live) = 1 ELSE live = {}

(* One booking per move: no tank ever has two Active Booking Codes of one   *)
(* direction, which would let it come in or go out twice                    *)
(* (_find_booking_conflicts, asked by every save and Confirm of a booking). *)
OneLiveCode ==
    \A t \in Tank, j, k \in Booking :
        code[j][t] = "Active" /\ code[k][t] = "Active" /\ DirectionOf(j) = DirectionOf(k)
            => j = k

(* The PWA's open_draft returns "the" draft EIR of a tank: there is at     *)
(* most one of each type, whoever raised it.                               *)
OneDraftEIR == \A t \in Tank, d \in Direction : Cardinality(Drafts(t, d)) <= 1

(* An Order Bongkar's Completed badge is a cache of its EIR-Ins' state.    *)
CompletedAgrees ==
    \A b \in DOMAIN bon :
        bon[b].booking \in InBooking =>
            (bon[b].completed <=> bon[b].ds = "Submitted" /\ AllInspected(b, bon[b], eir))

(* A submitted Order Muat IS the departure of its tanks: each left once on *)
(* it, on one Gate Entry row, however often the bon went back to draft, was *)
(* edited and was submitted again (gate.depart_bon, reverse_bon_departures). *)
MuatIsDeparture ==
    \A b \in DOMAIN bon : \A t \in bon[b].tanks :
        bon[b].ds = "Submitted" /\ bon[b].booking \notin InBooking =>
            Cardinality({r \in gate[t] : r.st = "Closed" /\ r.muat = b}) = 1

(* The finished EIR-Outs of a tank on one of its bons.                      *)
FinishedOn(t, b) ==
    {i \in DOMAIN eir[t] : /\ eir[t][i].type = "Out" /\ eir[t][i].ds = "Submitted"
                           /\ eir[t][i].bon = b}

(* What the Gate Entry of a standing departure shows as its EIR-Out is one  *)
(* of this tank, finished, and on this very bon, whatever was reverted,     *)
(* voided, freed or adopted since it was linked (unwind_submitted_eir,      *)
(* release_eirs_for_cancelled_order, attach_order_muat_to_eirs).            *)
LinkIsFinished ==
    \A t \in Tank : \A r \in gate[t] :
        r.st = "Closed" /\ r.eout # 0 /\ bon[r.muat].ds = "Submitted" =>
            r.eout \in FinishedOn(t, r.muat)

(* The Gate Entries of standing departures that show no EIR-Out.            *)
Unshown(t) == {r \in gate[t] : r.st = "Closed" /\ r.eout = 0 /\ bon[r.muat].ds = "Submitted"}

(* "An EIR-Out already submitted for this bon is linked on the Gate Entry   *)
(* below; one finished later links itself" (gate.mark_gate_out): a Gate     *)
(* Entry shows none only while its bon has none.  A bon that has adopted    *)
(* the draft of a second booking has two, and reverting the one shown       *)
(* leaves the other unshown.                                                *)
FinishedIsShown == \A t \in Tank : \A r \in Unshown(t) : FinishedOn(t, r.muat) = {}

OneWayOut(t) == Cardinality({k \in Booking \ InBooking : t \in Lines[k]}) <= 1

(* A finished EIR-Out is not left behind by the departure it was drawn up   *)
(* for: where the Gate Entry of a standing departure shows none, the bon    *)
(* has none and its booking has none of that tank still free for a bon, or  *)
(* held by a void one that lists the tank, whether it was finished before   *)
(* the bon or after it, undone or let go since (attach_order_muat_to_eirs,  *)
(* link_eir_out, release_eirs_for_cancelled_order).  Two bookings to leave  *)
(* on take each other's drafts, and a row struck off a draft bon leaves its *)
(* EIR-Out there: of those this says nothing.                               *)
DepartureTakesEIR ==
    \A t \in Tank : OneWayOut(t) => \A r \in Unshown(t) : \A i \in DOMAIN eir[t] :
        LET e == eir[t][i]
        IN  e.type = "Out" /\ e.ds = "Submitted" /\ e.booking = bon[r.muat].booking =>
                /\ e.bon \notin {0, r.muat}
                /\ bon[e.bon].ds = "Voided" => t \notin bon[e.bon].tanks

(* Booked means expected: a live Tank In booking still names the tank.     *)
BookedIsExpected ==
    \A t \in Tank : status[t] = "Booked" =>
        \E k \in InBooking : t \in Lines[k] /\ bk[k] \in {"Draft", "Confirmed"}

(* An arrival bon reads Completed exactly while its tanks' EIR-Ins stand,  *)
(* and a tank reads Booked only while a live booking expects it            *)
(* (refresh_completion, _release_containers).                              *)
BookingsAgree == CompletedAgrees /\ BookedIsExpected

-----------------------------------------------------------------------------
(* What a step may never do                                                *)

(* A booking with any bon to its name, even a voided one, never leaves     *)
(* Confirmed (_block_if_bon_raised).                                       *)
BonsConfirmed == \A b \in DOMAIN bon : bk[bon[b].booking] = "Confirmed"

(* The tank's departure of this very step is stamped with the bon b.       *)
StampedBy(t, b) == \E r \in gate'[t] : r.muat = b /\ r.out = departures'[t]

(* Money is asked for each time, not once.  A bon is born, and a tank      *)
(* leaves, on a confirmed booking whose money is in at that moment: a      *)
(* booking can owe again after its bon was raised, the bon be sent back,   *)
(* given other tanks and submitted again, and the departure still waits    *)
(* for the money (assert_payment_allows_bon, asked by make_order and by    *)
(* gate.mark_gate_out; _reopen_cash_payment).  Of an arrival sent back and *)
(* submitted again the code does not ask it.                               *)
BonsArePaid ==
    [][/\ BonsConfirmed'
       /\ \A b \in DOMAIN bon' \ DOMAIN bon : PaymentAllowsBon(bon'[b].booking)
       /\ \A t \in Tank : departures'[t] # departures[t] =>
             \E b \in DOMAIN bon' : /\ StampedBy(t, b)
                                    /\ t \in bon'[b].tanks
                                    /\ bon'[b].booking \notin InBooking
                                    /\ PaymentAllowsBon(bon'[b].booking)]_vars

(* An away tank comes back by a bon's submit, or by taking back its newest *)
(* departure; never by an EIR's or a work order's save.                    *)
ReturnsOnlyByBon ==
    [][\A t \in Tank :
          status[t] \notin Present /\ status'[t] \in Present =>
              \/ \E b \in DOMAIN bon' :
                    /\ bon'[b].ds = "Submitted" /\ bon'[b].booking \in InBooking
                    /\ t \in bon'[b].tanks /\ (b \in DOMAIN bon => bon[b].ds = "Draft")
              \/ \E r \in gate[t] \ gate'[t] : r.out = departures[t]]_vars

(* A departure finds the tank in the yard with no EIR-In of this visit left *)
(* as a draft and, with the switch on, reading Available: the gate's own     *)
(* list of blocking orders never contradicts the status everybody reads.    *)
LeavesClear ==
    [][\A t \in Tank :
          departures'[t] # departures[t] =>
              /\ status[t] \in Present
              /\ HoldingEIR(eir[t], LastDeparture(status[t], gate[t])) = {}
              /\ enforceAll => status[t] = "Available"]_vars

(* An EIR-In that files a Cleaning or an M&R keeps its tank In_Depot, until *)
(* that order is finished (inspection.on_submit).                           *)
FollowUpHolds ==
    [][\A t \in Tank : \A i \in DOMAIN eir[t] : \A tick \in SUBSET WorkKind \ {{}} :
          /\ SubmitEIRIn(t, i, tick) /\ status[t] \in Present
          /\ \A w \in DOMAIN work[t] : work[t][w].src # i
          => status'[t] = "In_Depot"]_vars

-----------------------------------------------------------------------------
(* What the papers amount to: the yard as YardPresence tells it, the stays *)
(* counted off the closed Gate Entries.                                    *)
Yard == INSTANCE YardPresence WITH
    Strict <- Switch = {TRUE},
    here <- {t \in Tank : status[t] \in Present},
    ready <- {t \in Tank : status[t] = "Available"},
    stays <- [t \in Tank |-> Cardinality({r \in gate[t] : r.st = "Closed"})]

(* Every request of the program is one step of the yard, or none.          *)
ImplementsYard == Yard!YardSpec
=============================================================================
