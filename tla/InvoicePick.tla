----------------------------- MODULE InvoicePick -----------------------------
(***************************************************************************)
(* Pilih Order: the dialog that picks which orders a draft Sales Invoice   *)
(* bills, and what every currency converts at (sales_invoice.js).  The     *)
(* list and the kurs are read when it opens; the press sends the ticked    *)
(* keys and the kurs, and the server edits the draft in place              *)
(* (consolidated_billing.py).  An unsaved form's press raises a new        *)
(* invoice.                                                                *)
(*                                                                         *)
(* An order charges one currency here, one line; an amount is left out, a  *)
(* kurs is a small number, 0 while unknown.  The invoices other than the   *)
(* draft are the set of orders they bill.  The line typed by hand stands   *)
(* for all of those.                                                       *)
(***************************************************************************)
EXTENDS Naturals, FiniteSets

CONSTANTS
  Order,    \* the customer's orders of the invoice's type
  CcyOf,    \* CcyOf[o]: what order o charges in
  Ccy,      \* the currencies
  Base,     \* the ledger's currency, whose kurs is 1
  User,     \* those who may have the dialog open
  Typed,    \* the line typed by hand
  MaxKurs,  \* the highest kurs
  MaxEdit,  \* how often a kurs, a list or an order's work is changed
  Lapse     \* what users are let do: see Lapses

Lapses ==
  {"two dialogs",     \* two of them pick the orders of one draft at a time
   "types a line",    \* a line in a foreign currency is typed by hand
   "one line's kurs"} \* the kurs of a single line is changed

PickAssumption ==
  /\ Lapse \subseteq Lapses
  /\ Base \in Ccy
  /\ CcyOf \in [Order -> Ccy]
  /\ Typed \notin Order
  /\ MaxKurs \in Nat /\ MaxEdit \in Nat

Line == Order \cup {Typed}
Kurs == 0..MaxKurs

VARIABLES
  stage,     \* of the draft: none, draft, posted
  ccy,       \* the invoice's currency
  conv,      \* what it converts at
  on,        \* the orders it bills
  line,      \* line[l]: the currency and the kurs of its line l
  elsewhere, \* the orders other invoices bill
  ready,     \* the finished orders
  exchange,  \* exchange[c]: the Currency Exchange master
  dialog,    \* dialog[u]: what u's dialog shows
  edits      \* changes made so far

draftVars == <<stage, ccy, conv, on, line>>
deskVars == <<elsewhere, ready, exchange>>
vars == <<draftVars, deskVars, dialog, edits>>

NoLine == [ccy |-> Base, kurs |-> 0]
Closed == [up |-> FALSE, editing |-> FALSE, cur |-> {}, offer |-> {}, tick |-> {}, hidden |-> {},
           ccy |-> Base, kurs |-> [c \in Ccy |-> 0], default |-> [c \in Ccy |-> 0]]

Init ==
  /\ stage = "none" /\ ccy = Base /\ conv = 1
  /\ on = {} /\ line = [l \in Line |-> NoLine]
  /\ elsewhere = {} /\ ready \in SUBSET Order
  /\ exchange \in {x \in [Ccy -> Kurs] : x[Base] = 1}
  /\ dialog = [u \in User |-> Closed]
  /\ edits = 0

TypeOK ==
  /\ stage \in {"none", "draft", "posted"}
  /\ ccy \in Ccy /\ conv \in 1..MaxKurs
  /\ on \subseteq Order
  /\ line \in [Line -> [ccy : Ccy, kurs : Kurs]]
  /\ elsewhere \subseteq Order /\ ready \subseteq Order
  /\ exchange \in [Ccy -> Kurs]
  /\ \A u \in User : /\ dialog[u].tick \subseteq dialog[u].cur \cup dialog[u].offer
                     /\ dialog[u].hidden \subseteq dialog[u].offer
                     /\ dialog[u].kurs \in [Ccy -> Kurs]
  /\ edits \in 0..MaxEdit

Present == on \cup (IF line[Typed].kurs > 0 THEN {Typed} ELSE {})

Counted == edits < MaxEdit /\ edits' = edits + 1

-----------------------------------------------------------------------------
(* The dialog.                                                             *)

\* What a live invoice of the customer bills.
BilledPairs == elsewhere \cup on

Collect == ready \ BilledPairs

SavedDraft == stage = "draft"

KursIdr(c) == IF c = Base THEN 1 ELSE exchange[c]

\* preview_bill: what the invoice converts at already comes before the master.
Defaults ==
  [c \in Ccy |->
     LET lines == {l \in Present : line[l].ccy = c}
     IN IF SavedDraft /\ c = ccy THEN conv
        ELSE IF SavedDraft /\ lines # {} THEN line[CHOOSE l \in lines : TRUE].kurs
        ELSE KursIdr(c)]

\* The draft's own orders start ticked; for a new invoice all do.
Opened ==
  [up |-> TRUE, editing |-> SavedDraft, cur |-> on, offer |-> Collect,
   tick |-> IF SavedDraft THEN on ELSE Collect, hidden |-> {},
   ccy |-> ccy, kurs |-> Defaults, default |-> Defaults]

Preview(u) ==
  /\ ~dialog[u].up
  /\ stage # "posted"
  /\ "two dialogs" \in Lapse \/ \A v \in User : ~dialog[v].up
  /\ on \cup Collect # {}
  /\ dialog' = [dialog EXCEPT ![u] = Opened]
  /\ UNCHANGED <<draftVars, deskVars, edits>>

\* Only what the filters leave on screen is sent.
SelectedKeys(d) == d.tick \ d.hidden

\* The currencies whose kurs the run asks for.
Need(d) == ({CcyOf[o] : o \in SelectedKeys(d)} \cup {d.ccy}) \ {Base}

\* A kurs typed for a currency no longer asked for is forgotten.
Rendered(d) ==
  [d EXCEPT !.kurs = [c \in Ccy |-> IF c \in Need(d) THEN d.kurs[c] ELSE d.default[c]]]

Tick(u, o) ==
  /\ dialog[u].up
  /\ o \in (dialog[u].cur \cup dialog[u].offer) \ dialog[u].hidden
  /\ dialog' = [dialog EXCEPT ![u] =
       Rendered([@ EXCEPT !.tick = IF o \in @ THEN @ \ {o} ELSE @ \cup {o}])]
  /\ UNCHANGED <<draftVars, deskVars, edits>>

\* The orders already on the draft always stay in view.
MayHide(d) == d.offer

ApplyFilters(u) ==
  /\ dialog[u].up
  /\ Counted
  /\ \E hidden \in SUBSET MayHide(dialog[u]) :
       dialog' = [dialog EXCEPT ![u] = Rendered([@ EXCEPT !.hidden = hidden])]
  /\ UNCHANGED <<draftVars, deskVars>>

SetCurrency(u, c) ==
  /\ dialog[u].up
  /\ c \in {ccy, Base} \cup {CcyOf[o] : o \in SelectedKeys(dialog[u])}
  /\ dialog' = [dialog EXCEPT ![u] = Rendered([@ EXCEPT !.ccy = c])]
  /\ UNCHANGED <<draftVars, deskVars, edits>>

SetKurs(u, c, k) ==
  /\ dialog[u].up
  /\ c \in Need(dialog[u])
  /\ Counted
  /\ dialog' = [dialog EXCEPT ![u].kurs[c] = k]
  /\ UNCHANGED <<draftVars, deskVars>>

Shut(u) ==
  /\ dialog[u].up
  /\ dialog' = [dialog EXCEPT ![u] = Closed]
  /\ UNCHANGED <<draftVars, deskVars, edits>>

-----------------------------------------------------------------------------
(* The press.                                                              *)

\* _refill: the sent kurs is what the whole bill converts at.
Reconverted(l, header, rate, sent, kurs) ==
  CASE l.ccy = header -> [l EXCEPT !.kurs = rate]
    [] l.ccy # header /\ l.ccy \in sent -> [l EXCEPT !.kurs = kurs[l.ccy]]
    [] OTHER -> l

\* Fault: the list is trusted.
Offered(d) == d.offer

\* What joins is collected afresh, not taken from the list.
Fresh(d) == Collect

Sendable(d) ==
  /\ SelectedKeys(d) # {}
  /\ \A c \in Need(d) : d.kurs[c] > 0

\* A line converts at the invoice's kurs if it is in its currency, else at the
\* one stated for it, else at the master's.
LineKurs(c, header, rate, stated) ==
  CASE c = header -> rate
    [] c # header /\ stated > 0 -> stated
    [] OTHER -> KursIdr(c)

Bill(d, kept) ==
  LET new == SelectedKeys(d) \cap Fresh(d)
      rate == IF d.ccy = Base THEN 1 ELSE d.kurs[d.ccy]
      sent == Need(d)
      old == kept \cup (Present \cap {Typed})
      fresh(o) == [ccy |-> CcyOf[o],
                   kurs |-> LineKurs(CcyOf[o], d.ccy, rate,
                                     IF CcyOf[o] \in sent THEN d.kurs[CcyOf[o]] ELSE 0)]
  IN /\ old \cup new # {}
     /\ stage' = "draft"
     /\ on' = kept \cup new
     /\ ccy' = d.ccy /\ conv' = rate
     /\ line' = [l \in Line |-> IF l \in new THEN fresh(l)
                                ELSE IF l \in old THEN Reconverted(line[l], d.ccy, rate, sent, d.kurs)
                                ELSE NoLine]

\* A draft of this customer is edited in place.
RefillDraft(u) ==
  LET d == dialog[u]
  IN /\ d.up /\ d.editing
     /\ Sendable(d)
     /\ stage = "draft"
     /\ Bill(d, on \cap SelectedKeys(d))
     /\ dialog' = [dialog EXCEPT ![u] = Closed]
     /\ UNCHANGED <<deskVars, edits>>

\* An unsaved form raises an invoice: this one, or one more.
RaiseInvoice(u) ==
  LET d == dialog[u]
  IN /\ d.up /\ ~d.editing
     /\ Sendable(d)
     /\ IF stage = "none"
        THEN Bill(d, {}) /\ UNCHANGED elsewhere
        ELSE elsewhere' = elsewhere \cup (SelectedKeys(d) \cap Fresh(d)) /\ UNCHANGED draftVars
     /\ dialog' = [dialog EXCEPT ![u] = Closed]
     /\ UNCHANGED <<ready, exchange, edits>>

-----------------------------------------------------------------------------
(* Meanwhile.                                                              *)

BilledElsewhere(o) ==
  /\ o \in Collect
  /\ Counted
  /\ elsewhere' = elsewhere \cup {o}
  /\ UNCHANGED <<draftVars, ready, exchange, dialog>>

\* An order is finished, or reopened while no invoice bills it.
Works(o) ==
  /\ o \notin on \cup elsewhere
  /\ Counted
  /\ ready' = (ready \ {o}) \cup ({o} \ ready)
  /\ UNCHANGED <<draftVars, elsewhere, exchange, dialog>>

Exchange(c, k) ==
  /\ c # Base
  /\ Counted
  /\ exchange' = [exchange EXCEPT ![c] = k]
  /\ UNCHANGED <<draftVars, elsewhere, ready, dialog>>

\* The form behind the dialog cannot be typed on while it is open.
AtTheForm == SavedDraft /\ \A u \in User : ~dialog[u].up

\* A new line takes the master's kurs, in the invoice's currency the invoice's.
TypeLine(c) ==
  /\ AtTheForm
  /\ c = ccy \/ "types a line" \in Lapse
  /\ Typed \notin Present
  /\ LineKurs(c, ccy, conv, 0) > 0
  /\ line' = [line EXCEPT ![Typed] = [ccy |-> c, kurs |-> LineKurs(c, ccy, conv, 0)]]
  /\ UNCHANGED <<stage, ccy, conv, on, deskVars, dialog, edits>>

\* The invoice's own kurs: every line in its currency follows.
ChangeConversion(k) ==
  /\ AtTheForm
  /\ ccy # Base
  /\ Counted
  /\ conv' = k
  /\ line' = [l \in Line |-> IF l \in Present /\ line[l].ccy = ccy THEN [line[l] EXCEPT !.kurs = k]
                             ELSE line[l]]
  /\ UNCHANGED <<stage, ccy, on, deskVars, dialog>>

ChangeLineKurs(l, k) ==
  /\ AtTheForm
  /\ "one line's kurs" \in Lapse
  /\ l \in Present /\ line[l].ccy # ccy
  /\ Counted
  /\ line' = [line EXCEPT ![l].kurs = k]
  /\ UNCHANGED <<stage, ccy, conv, on, deskVars, dialog>>

Submit ==
  /\ stage = "draft"
  /\ ccy = Base \/ conv > 1
  /\ stage' = "posted"
  /\ UNCHANGED <<ccy, conv, on, line, deskVars, dialog, edits>>

Next ==
  \/ \E u \in User :
       \/ Preview(u) \/ ApplyFilters(u) \/ Shut(u) \/ RefillDraft(u) \/ RaiseInvoice(u)
       \/ \E o \in Order : Tick(u, o)
       \/ \E c \in Ccy : SetCurrency(u, c) \/ \E k \in 1..MaxKurs : SetKurs(u, c, k)
  \/ \E o \in Order : BilledElsewhere(o) \/ Works(o)
  \/ \E c \in Ccy, k \in 1..MaxKurs : Exchange(c, k)
  \/ \E c \in Ccy : TypeLine(c)
  \/ \E k \in 1..MaxKurs : ChangeConversion(k) \/ \E l \in Line : ChangeLineKurs(l, k)
  \/ Submit

Spec == Init /\ [][Next]_vars

-----------------------------------------------------------------------------
(* Properties.                                                             *)

\* However old the list, an order is on the draft or on another invoice, never
\* on both.
BilledOnce == on \cap elsewhere = {}

\* One bill converts a currency at one kurs, whichever way its lines came and
\* however often it was picked again.
OneKursPerCurrency ==
  \A l, m \in Present : line[l].ccy = line[m].ccy => line[l].kurs = line[m].kurs

\* An order leaves the draft only by the press of a dialog that listed it as
\* on this invoice and in which it was unticked; it joins only ticked.
MovesAsTicked ==
  on' # on =>
    \E u \in User :
      /\ dialog[u].up /\ ~dialog'[u].up
      /\ on \ on' \subseteq dialog[u].cur \ dialog[u].tick
      /\ on' \ on \subseteq dialog[u].tick \ dialog[u].hidden
PicksMoveAsTicked == [][MovesAsTicked]_vars
=============================================================================
