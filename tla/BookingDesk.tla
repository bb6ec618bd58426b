----------------------------- MODULE BookingDesk -----------------------------
(***************************************************************************)
(* Container Booking: the customer's announcement of a move.  Confirming   *)
(* it issues one Booking Code per line and, for a Tank Out, raises one     *)
(* draft EIR-Out per tank.  Draft -> Confirmed -> Draft -> Cancelled; a    *)
(* confirmed booking is never cancelled directly (before_cancel).          *)
(***************************************************************************)
EXTENDS DepotRecords

(* _mark_pre_arrival: an inbound line reserves a tank that never gated in. *)
PreArrival(k, t) ==
    IF k \in InBooking /\ t \in Lines[k] /\ ~inDate[t] /\ status[t] \in {"Available", "Gate_Out"}
    THEN "Booked" ELSE status[t]

(* _validate_no_open_booking, run by every save and again at Confirm.      *)
NoRival(k) == \A t \in Lines[k] : ~Conflict(k, t, DirectionOf(k), PreArrival(k, t))

(* _find_status_mismatches: the tank must stand on the side it moves from, *)
(* unless a booking of the opposite move is already there to bring it.     *)
PositionFits(k, t) ==
    LET st == PreArrival(k, t)
        fits == IF k \in InBooking THEN st \notin Present ELSE st \in Present
    IN  fits \/ Conflict(k, t, Opposite(DirectionOf(k)), st)

NewEIROut(k, t) ==
    [type |-> "Out", ds |-> "Draft", bon |-> 0, booking |-> k, started |-> FALSE,
     snap |-> "Gate_Out", born |-> departures[t]]

(* provision_eir_out_for_booking on Confirm, for one tank: adopt the open  *)
(* draft EIR-Out unless another live booking owns it, else raise one.      *)
ProvisionedEIROut(k, t) ==
    LET has == \E i \in DOMAIN eir[t] : /\ eir[t][i].type = "Out"
                                        /\ eir[t][i].ds # "Void"
                                        /\ eir[t][i].booking = k
        i == Newest(Drafts(t, "Out"))
    IN  CASE \/ k \in InBooking \/ t \notin Lines[k] \ NoEIR[k]
             \/ has \/ status[t] = "Gate_Out" -> eir[t]
          [] OTHER ->
             IF i = 0 THEN Append(eir[t], NewEIROut(k, t))
             ELSE IF eir[t][i].booking # k /\ LiveBooking(eir[t][i].booking) THEN eir[t]
             ELSE [eir[t] EXCEPT ![i].booking = k]

(* Kembali ke Draft and void withdraw the drafts Confirm raised: one that  *)
(* nobody started and no bon carries is deleted, the others are kept.      *)
WithdrawnEIROut(k, t) ==
    [i \in DOMAIN eir[t] |->
        IF /\ eir[t][i].type = "Out" /\ eir[t][i].ds = "Draft" /\ eir[t][i].booking = k
           /\ ~eir[t][i].started /\ eir[t][i].bon = 0
        THEN [eir[t][i] EXCEPT !.ds = "Void"] ELSE eir[t][i]]

CreateBooking(k) ==
    /\ bk[k] = "New"
    /\ NoRival(k)
    /\ bk' = [bk EXCEPT ![k] = "Draft"]
    /\ status' = [t \in Tank |-> PreArrival(k, t)]
    /\ UNCHANGED <<inDate, code, paid, bon, gate, eir, work, departures, enforceAll>>

ConfirmBooking(k) ==
    /\ bk[k] = "Draft"
    /\ NoRival(k)
    /\ \A t \in Lines[k] : PositionFits(k, t)
    /\ bk' = [bk EXCEPT ![k] = "Confirmed"]
    /\ status' = [t \in Tank |-> PreArrival(k, t)]
    /\ code' = [code EXCEPT ![k] =
                   [t \in Tank |-> IF t \in Lines[k] /\ @[t] = "None" THEN "Active" ELSE @[t]]]
    /\ eir' = [t \in Tank |-> ProvisionedEIROut(k, t)]
    /\ \A t \in Tank : Len(eir'[t]) <= MaxEIR
    /\ UNCHANGED <<inDate, paid, bon, gate, work, departures, enforceAll>>

(* revert_booking_to_draft: refused once any bon, even a voided one, was   *)
(* raised.  The codes stay as they are.                                    *)
RevertBooking(k) ==
    /\ bk[k] = "Confirmed"
    /\ ~BonRaised(k)
    /\ \A t \in Tank : code[k][t] # "Used"
    /\ bk' = [bk EXCEPT ![k] = "Draft"]
    /\ eir' = [t \in Tank |-> WithdrawnEIROut(k, t)]
    /\ UNCHANGED <<status, inDate, code, paid, bon, gate, work, departures, enforceAll>>

(* _block_if_partner_waits: an opposite booking counts on this one moving  *)
(* the tank first.                                                         *)
PartnerWaits(k) ==
    \E t \in Lines[k] :
        /\ (status[t] \in Present) <=> (k \notin InBooking)
        /\ Conflict(k, t, Opposite(DirectionOf(k)), status[t])

(* _release_reserved_container: a tank that never came is expected by      *)
(* nobody once no other live Tank In booking names it.                     *)
Released(k, t) ==
    IF /\ t \in Lines[k] /\ status[t] = "Booked" /\ ~inDate[t]
       /\ ~\E j \in InBooking \ {k} : t \in Lines[j] /\ bk[j] \in {"Draft", "Confirmed"}
    THEN "Gate_Out" ELSE status[t]

VoidBooking(k) ==
    /\ bk[k] = "Draft"
    /\ ~BonRaised(k)
    /\ ~PartnerWaits(k)
    /\ bk' = [bk EXCEPT ![k] = "Cancelled"]
    /\ code' = [code EXCEPT ![k] =
                   [t \in Tank |-> IF @[t] = "Active" THEN "Cancelled" ELSE @[t]]]
    /\ status' = [t \in Tank |-> Released(k, t)]
    /\ eir' = [t \in Tank |-> WithdrawnEIROut(k, t)]
    /\ UNCHANGED <<inDate, paid, bon, gate, work, departures, enforceAll>>

(* The money is in: the Cashier settles the invoice, the admin says so     *)
(* (set_payment_status), the charges bill nothing any more, or Revisi Data *)
(* turns the booking to TOP, which may be issued bons on credit.           *)
MarkPaid(k) ==
    /\ k \in CashBooking \ paid /\ bk[k] \in {"Draft", "Confirmed"}
    /\ paid' = paid \cup {k}
    /\ UNCHANGED <<status, inDate, bk, code, bon, gate, eir, work, departures, enforceAll>>

(* A draft is un-paid: the admin's switch, refused once it is confirmed,   *)
(* or the end of its payment or of its invoice.                            *)
MarkUnpaid(k) ==
    /\ k \in CashBooking \cap paid /\ bk[k] = "Draft"
    /\ paid' = paid \ {k}
    /\ UNCHANGED <<status, inDate, bk, code, bon, gate, eir, work, departures, enforceAll>>

(* A confirmed booking owes again, its bons raised or not: its charges or  *)
(* its payment type were revised (_reopen_cash_payment), its payment or    *)
(* its invoice was cancelled.                                              *)
ReopenPayment(k) ==
    /\ k \in CashBooking \cap paid /\ bk[k] = "Confirmed"
    /\ paid' = paid \ {k}
    /\ UNCHANGED <<status, inDate, bk, code, bon, gate, eir, work, departures, enforceAll>>

BookingStep(k) ==
    \/ CreateBooking(k) \/ ConfirmBooking(k) \/ RevertBooking(k)
    \/ VoidBooking(k) \/ MarkPaid(k) \/ MarkUnpaid(k) \/ ReopenPayment(k)
=============================================================================
