--------------------------- MODULE BookingPayment ---------------------------
(***************************************************************************)
(* The money of one Container Booking: its charges, the payment type it    *)
(* inherits or keeps, the Sales Invoice raised for it, the Cashier's       *)
(* payment that confirms it, and every way back (container_booking.py,     *)
(* order_generation.payment_block_reason, consolidated_billing's marks).   *)
(*                                                                         *)
(* The system's own writes are db_set without a new `modified`, so a form  *)
(* opened before one of them can still be saved after it: form[f] is what  *)
(* the open form f holds.  A press is a Generate Invoice that has read the *)
(* booking and not yet committed.                                          *)
(***************************************************************************)
EXTENDS Integers, Sequences

CONSTANTS
  Finance,      \* Aktifkan Finance: are invoices raised at all?
  Form,         \* the forms people keep open while others work
  Press,        \* the presses of Generate Invoice that may overlap
  Amount,       \* the totals the charge lines may reach; 0: nothing billed
  Mode,         \* the payment types a person may pick
  Agreement,    \* what a running contract may say
  TankEdits,    \* TRUE: tanks join or leave a draft whose invoice stands
  MaxInvoice    \* bound: invoices ever raised

AmountAssumption == Amount \subseteq Nat /\ 0 \in Amount
ModeAssumption == Mode \subseteq {"Cash", "TOP"}
AgreementAssumption == Agreement \subseteq {"None", "Both", "Cash", "TOP"}
SwitchAssumption == {Finance, TankEdits} \subseteq BOOLEAN /\ MaxInvoice \in Nat

VARIABLES
  bk,         \* the booking as the database has it
  inv,        \* the Sales Invoices raised so far
  form,       \* form[f]: the booking as an open form holds it; {}: closed, or refused as outdated
  press,      \* press[p]: the amount a running press read
  contract,   \* the payment type of the customer's running contract
  bon         \* has a bon ever been raised?

vars == <<bk, inv, form, press, contract, bon>>

Editable == {"Draft", "Pengajuan"}
Status == {"Pending Payment", "Pending Confirmation", "Confirmed", "Cancelled"} \cup Editable
NoPress == -1
NoInvoice == 0

Booking == [docstatus : 0..2, status : Status, mode : {"Cash", "TOP"}, si : 0..MaxInvoice,
            pay : {"Unpaid", "Invoiced", "Paid", "Cancelled"}, charge : Amount, portal : BOOLEAN]

Blank(portal) == [docstatus |-> 0, status |-> "Draft", mode |-> "Cash", si |-> NoInvoice,
                  pay |-> "Unpaid", charge |-> 0, portal |-> portal]

Init ==
  /\ \E portal \in BOOLEAN : bk = Blank(portal)
  /\ inv = <<>>
  /\ form = [f \in Form |-> {}]
  /\ press = [p \in Press |-> NoPress]
  /\ contract \in Agreement
  /\ bon = FALSE

TypeOK ==
  /\ bk \in Booking
  /\ inv \in Seq([docstatus : 0..2, paid : BOOLEAN, amount : Amount, kind : {"booking", "bill"}])
  /\ Len(inv) <= MaxInvoice
  /\ form \in [Form -> SUBSET Booking]
  /\ press \in [Press -> Amount \cup {NoPress}]
  /\ contract \in Agreement
  /\ bon \in BOOLEAN

Same == UNCHANGED <<contract, press, bon>>
Kept == UNCHANGED form
Closed == form' = [f \in Form |-> {}]   \* a real save: older forms are refused from here on

-----------------------------------------------------------------------------
(* What a booking's invoice says.  (Definitions no other here uses are     *)
(* plausible bugs of the code.)                                            *)
Live(i) == inv[i].docstatus # 2

Settlement(i) ==
  IF i = NoInvoice \/ inv[i].docstatus # 1 THEN {} ELSE {IF inv[i].paid THEN "Paid" ELSE "Invoiced"}

Settled(b) == IF Settlement(b.si) = {} THEN b.pay ELSE CHOOSE s \in Settlement(b.si) : TRUE

ChargesOpen(b) == ~Finance \/ b.si = NoInvoice

(* A signed contract decides the payment type, otherwise a person does.    *)
Agreed(mode) == IF contract \in {"Cash", "TOP"} THEN contract ELSE mode

(* validate on the form b, with the charges and the type typed on it.      *)
Validated(b, charge, mode) == [b EXCEPT !.charge = charge, !.mode = Agreed(mode)]

(* Frappe refuses to save a document that links a cancelled one.           *)
Savable(b, charge) ==
  /\ bk.docstatus = 0
  /\ b.docstatus = 0
  /\ b.si # NoInvoice => Live(b.si)
  /\ charge # bk.charge => ChargesOpen(b)

(* The charges typed on the form are compared with the saved ones first;   *)
(* only then does the quantity of a line that bills every tank follow the  *)
(* tanks of the draft, and the total with it.  The answer is never zero    *)
(* from something, nor something from zero.                                *)
FollowsTanks(b, charge) == TankEdits /\ Savable(b, bk.charge) /\ charge > 0 /\ bk.charge > 0

SaveDraft(b, charge, mode) ==
  /\ Savable(b, charge) \/ FollowsTanks(b, charge)
  /\ bk' = LET v == Validated(b, charge, mode) IN [v EXCEPT !.pay = Settled(v)]
  /\ Closed
  /\ UNCHANGED inv
  /\ Same

OpenForm(f) ==
  /\ form' = [form EXCEPT ![f] = {bk}]
  /\ UNCHANGED <<bk, inv>>
  /\ Same

-----------------------------------------------------------------------------
(* Submit.                                                                 *)

MoneyIn(b) ==
  \/ b.mode = "TOP"
  \/ ~Finance /\ b.pay = "Paid"
  \/ Finance /\ b.charge = 0
  \/ Finance /\ b.si # NoInvoice /\ Settlement(b.si) = {"Paid"}

(* on_submit stamps the payment only while finance is on.                  *)
Confirmed(b) ==
  [b EXCEPT !.docstatus = 1, !.status = "Confirmed",
            !.pay = IF ~Finance THEN @ ELSE IF b.mode = "Cash" THEN "Paid" ELSE "Unpaid"]

Submit(b, charge, mode) ==
  LET v == Validated(b, charge, mode)
  IN /\ Savable(b, charge)
     /\ MoneyIn(v)
     /\ bk' = Confirmed(v)
     /\ Closed
     /\ UNCHANGED inv
     /\ Same

(* A Submit ahead of the payment is refused, and only its new status is    *)
(* committed.                                                              *)
HoldPendingPayment(b, charge, mode) ==
  LET v == Validated(b, charge, mode)
  IN /\ Savable(b, charge)
     /\ ~MoneyIn(v)
     /\ Finance
     /\ v.si # NoInvoice
     /\ bk' = [bk EXCEPT !.status = "Pending Payment"]
     /\ Kept
     /\ UNCHANGED inv
     /\ Same

-----------------------------------------------------------------------------
(* Raising an invoice and taking it back.                                  *)
Raised(amount, kind) ==
  Append(inv, [docstatus |-> 0, paid |-> FALSE, amount |-> amount, kind |-> kind])

Raise(amount, b) ==
  /\ Len(inv) < MaxInvoice
  /\ inv' = Raised(amount, "booking")
  /\ bk' = [b EXCEPT !.si = Len(inv) + 1, !.pay = "Unpaid"]
  /\ Kept

MayGenerate ==
  /\ Finance
  /\ bk.docstatus = 0
  /\ bk.status \in Editable
  /\ bk.si = NoInvoice
  /\ bk.mode = "Cash"
  /\ bk.charge > 0

generate_invoice ==
  /\ MayGenerate
  /\ Raise(bk.charge, [bk EXCEPT !.status = "Pending Payment"])
  /\ Same

PressGenerate(p) ==
  /\ press[p] = NoPress
  /\ MayGenerate
  /\ press' = [press EXCEPT ![p] = bk.charge]
  /\ UNCHANGED <<bk, inv, form, contract, bon>>

FinishGenerate(p) ==
  /\ press[p] # NoPress
  /\ Raise(press[p], [bk EXCEPT !.status = "Pending Payment"])
  /\ press' = [press EXCEPT ![p] = NoPress]
  /\ UNCHANGED <<contract, bon>>

MayRegenerate ==
  /\ Finance
  /\ bk.docstatus = 1
  /\ bk.mode # "TOP"
  /\ bk.si # NoInvoice => ~Live(bk.si)
  /\ bk.charge > 0

regenerate_invoice ==
  /\ MayRegenerate
  /\ Raise(bk.charge, bk)
  /\ Same

CancelledInv(i) == [inv EXCEPT ![i].docstatus = 2]

(* An invoice that dies lets go of its booking (on_cancel, on_discard).    *)
Unlinked(b, i) ==
  IF b.si = i /\ b.docstatus # 2 THEN [b EXCEPT !.si = NoInvoice, !.pay = "Unpaid"] ELSE b

(* Kembali ke Draft (batalkan invoice), on a draft.                        *)
PlainDraft == "Draft"

RollbackTarget == IF bk.portal THEN "Pengajuan" ELSE "Draft"

rollback_to_draft ==
  /\ bk.docstatus = 0
  /\ bk.status \notin Editable
  /\ bk.si # NoInvoice => inv[bk.si].docstatus # 1
  /\ inv' = IF bk.si # NoInvoice THEN CancelledInv(bk.si) ELSE inv
  /\ bk' = [bk EXCEPT !.si = NoInvoice, !.pay = "Unpaid", !.status = RollbackTarget]
  /\ Kept
  /\ Same

(* Batalkan Invoice, on a Confirmed booking.                               *)
cancel_draft_invoice ==
  /\ Finance
  /\ bk.docstatus = 1
  /\ bk.mode # "TOP"
  /\ bk.si # NoInvoice
  /\ inv[bk.si].docstatus = 0
  /\ inv' = CancelledInv(bk.si)
  /\ bk' = [bk EXCEPT !.si = NoInvoice, !.pay = "Unpaid"]
  /\ Kept
  /\ Same

MayVoid == ~bon /\ (Finance /\ bk.si # NoInvoice => ~Live(bk.si))

void_draft ==
  /\ bk.docstatus = 0
  /\ MayVoid
  /\ bk' = [bk EXCEPT !.status = "Cancelled", !.pay = "Cancelled", !.docstatus = 2]
  /\ UNCHANGED inv
  /\ Kept
  /\ Same

(* Kembali ke Draft, on a Confirmed booking: payment, invoice and codes    *)
(* stay as they are.                                                       *)
revert_booking_to_draft ==
  /\ bk.docstatus = 1
  /\ ~bon
  /\ bk' = [bk EXCEPT !.docstatus = 0, !.status = "Pending Confirmation"]
  /\ UNCHANGED inv
  /\ Kept
  /\ Same

-----------------------------------------------------------------------------
(* The invoice's own life, at the Cashier.                                 *)

(* sync_bookings_for_invoice: a paid Cash booking is submitted on the spot,*)
(* or left for the admin when something else refuses.                      *)
AutoSubmitted(b) ==
  IF b.docstatus = 0 /\ b.mode = "Cash" /\ b.status \in {"Pending Payment", "Pending Confirmation"}
  THEN {Confirmed(Validated(b, b.charge, b.mode)), [b EXCEPT !.status = "Pending Confirmation"]}
  ELSE {b}

SubmitInvoice(i) ==
  /\ inv[i].docstatus = 0
  /\ inv' = [inv EXCEPT ![i].docstatus = 1]
  /\ bk' = IF bk.si = i THEN [bk EXCEPT !.pay = "Invoiced"] ELSE bk
  /\ Kept
  /\ Same

Pay(i) ==
  /\ inv[i].docstatus = 1
  /\ ~inv[i].paid
  /\ inv' = [inv EXCEPT ![i].paid = TRUE]
  /\ IF bk.si = i THEN bk' \in AutoSubmitted([bk EXCEPT !.pay = "Paid"]) ELSE bk' = bk
  /\ IF bk'.docstatus # bk.docstatus THEN Closed ELSE Kept
  /\ Same

CancelPayment(i) ==
  /\ inv[i].paid
  /\ inv' = [inv EXCEPT ![i].paid = FALSE]
  /\ bk' = IF bk.si = i THEN [bk EXCEPT !.pay = "Invoiced"] ELSE bk
  /\ Kept
  /\ Same

(* Cancel or Discard on the invoice itself; a paid one is refused.         *)
EndInvoice(i) ==
  /\ Live(i)
  /\ ~inv[i].paid
  /\ inv' = CancelledInv(i)
  /\ bk' = Unlinked(bk, i)
  /\ Kept
  /\ Same

(* A consolidated run sweeps Confirmed TOP bookings that link no invoice.  *)
Sweep ==
  /\ Finance
  /\ bk.docstatus = 1
  /\ bk.mode = "TOP"
  /\ bk.si = NoInvoice
  /\ bk.charge > 0
  /\ Len(inv) < MaxInvoice
  /\ inv' = Raised(bk.charge, "bill")
  /\ bk' = [bk EXCEPT !.si = Len(inv) + 1, !.pay = "Invoiced"]
  /\ Kept
  /\ Same

-----------------------------------------------------------------------------
(* A Confirmed booking: charges until an invoice carries them, and Revisi  *)
(* Data once a bon exists.                                                 *)
StaysPaid(b) == b

Reopened(b) ==
  IF ~Finance \/ b.mode # "Cash" \/ b.si # NoInvoice THEN b
  ELSE [b EXCEPT !.pay = IF b.charge > 0 THEN "Unpaid" ELSE "Paid"]

(* Frappe refuses an update after submit that carries other system fields. *)
SaveCharges(b, charge) ==
  /\ bk.docstatus = 1
  /\ [b EXCEPT !.charge = 0] = [bk EXCEPT !.charge = 0]
  /\ charge # bk.charge
  /\ ChargesOpen(b)
  /\ bk' = Reopened([bk EXCEPT !.charge = charge])
  /\ Closed
  /\ UNCHANGED inv
  /\ Same

Revise(mode) ==
  /\ bk.docstatus = 1
  /\ bon
  /\ mode # bk.mode
  /\ ~(Finance /\ bk.si # NoInvoice)
  /\ contract \in {"None", "Both", mode}
  /\ bk' = Reopened([bk EXCEPT !.mode = mode,
                               !.pay = IF mode = "TOP" /\ Finance THEN "Unpaid" ELSE @])
  /\ Closed
  /\ UNCHANGED inv
  /\ Same

-----------------------------------------------------------------------------
(* Ajukan, the hand-set label while finance is off, and the bon.           *)
submit_request ==
  /\ bk.portal
  /\ bk.docstatus = 0
  /\ bk.status = "Draft"
  /\ bk' = [bk EXCEPT !.status = "Pengajuan"]
  /\ UNCHANGED inv
  /\ Kept
  /\ Same

MayLabel(pay) == bk.docstatus # 2 /\ (pay = "Unpaid" => bk.docstatus = 0)

set_payment_status(pay) ==
  /\ ~Finance
  /\ MayLabel(pay)
  /\ bk' = [bk EXCEPT !.pay = pay]
  /\ UNCHANGED inv
  /\ Kept
  /\ Same

(* payment_block_reason: a Cash booking's bon waits for the money.         *)
make_order ==
  /\ bk.docstatus = 1
  /\ bk.mode = "Cash" => bk.pay = "Paid"
  /\ bon' = TRUE
  /\ UNCHANGED <<bk, inv, form, press, contract>>

NewContract(c) ==
  /\ contract' = c
  /\ UNCHANGED <<bk, inv, form, press, bon>>

Held == UNION {form[f] : f \in Form}

Next ==
  \/ \E b \in Held \cup {bk}, charge \in Amount :
       \/ SaveCharges(b, charge)
       \/ \E mode \in Mode \cup {b.mode} :
            SaveDraft(b, charge, mode) \/ Submit(b, charge, mode) \/ HoldPendingPayment(b, charge, mode)
  \/ generate_invoice \/ regenerate_invoice \/ rollback_to_draft \/ cancel_draft_invoice
  \/ void_draft \/ revert_booking_to_draft \/ submit_request \/ make_order \/ Sweep
  \/ \E p \in Press : PressGenerate(p) \/ FinishGenerate(p)
  \/ \E i \in DOMAIN inv : SubmitInvoice(i) \/ Pay(i) \/ CancelPayment(i) \/ EndInvoice(i)
  \/ \E mode \in Mode : Revise(mode)
  \/ \E pay \in {"Paid", "Unpaid"} : set_payment_status(pay)
  \/ \E c \in Agreement : NewContract(c)
  \/ \E f \in Form : OpenForm(f)

Spec == Init /\ [][Next]_vars

-----------------------------------------------------------------------------
(* A Confirmed Cash booking that reads Paid is backed: it bills nothing,   *)
(* or the invoice it links is settled, whatever was reverted, re-charged,  *)
(* cancelled or re-invoiced on the way (on_submit, _reopen_cash_payment).  *)
PaidIsBacked ==
  Finance /\ bk.docstatus = 1 /\ bk.mode = "Cash" /\ bk.pay = "Paid" /\ bk.charge > 0 =>
    bk.si # NoInvoice /\ Settlement(bk.si) = {"Paid"}

(* "The amount the Cashier sees cannot move under them", while nobody adds *)
(* or strikes a tank on the draft behind it: every invoice that can be     *)
(* collected asks what the booking's charges say (_guard_locked_charges,   *)
(* generate_invoice).                                                      *)
AmountFrozen == \A i \in DOMAIN inv : Live(i) => inv[i].amount = bk.charge

(* There is one live invoice at most, and the booking links it: no way     *)
(* back, void or re-raise leaves a bill nobody follows.                    *)
LiveInvoiceLinked == \A i \in DOMAIN inv : Live(i) => bk.si = i

(* A booking the customer has handed over never returns to the Draft that  *)
(* hides it from every internal list (rollback_to_draft, submit_request).  *)
HandedOverKept == bk.portal /\ bk.status # "Draft" => bk'.status # "Draft"

(* The money of a Cash booking moves it on: no draft waits in Pending      *)
(* Payment behind a paid invoice (sync_bookings_for_invoice).              *)
NotLeftWaiting ==
  bk.docstatus = 0 /\ bk.status = "Pending Payment" => Settlement(bk.si) # {"Paid"}

(* Finance off: a Confirmed Cash booking reads Paid from its confirmation  *)
(* on, so no code is issued into a bon that is refused                     *)
(* (_require_manual_paid, set_payment_status).                             *)
ConfirmedIsPaid == ~Finance /\ bk.docstatus = 1 /\ bk.mode = "Cash" => bk.pay = "Paid"

(* "A TOP booking carries no per-booking draft" (cancel_draft_invoice).    *)
TopCarriesNoDraft ==
  bk.docstatus = 1 /\ bk.mode = "TOP" /\ bk.si # NoInvoice => inv[bk.si].kind = "bill"

(* Pending Payment "now means invoice raised" (_enforce_cash_paid_invoice).*)
PendingMeansInvoice == bk.status = "Pending Payment" => bk.si # NoInvoice
=============================================================================
