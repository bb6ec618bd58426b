---------------------------- MODULE CleaningOrder ----------------------------
(***************************************************************************)
(* Cleaning Orders: the services and parts Admin Ops puts on the order and *)
(* their prices, the team's wash, review and Submit, the parts issued at   *)
(* Submit, and every way back or out: pull-back, Kembalikan ke Draft,      *)
(* Cancel, Revisi Data, Tutup Order (cleaning.py, cleaning_order.py,       *)
(* revision.py, closing.py).                                               *)
(*                                                                         *)
(* A line is one unit of an item.  Time is the tick of a clock, 0 is an    *)
(* empty field.  The last two fields of an order are history: the tick it  *)
(* last went back to work, and the price a person typed on each line.      *)
(***************************************************************************)
EXTENDS Integers, Sequences, FiniteSets

CONSTANTS
  Order,      \* the Cleaning Orders that may be raised
  Item,       \* the catalogue
  Part,       \* its stock items
  Supply,     \* Supply[p]: units of p the gudang ever gets
  User,       \* who presses the buttons
  Tariff,     \* the prices a contract may name; 0: the contract names none
  Typed,      \* the prices a person types on a line; a typed 0 reads as none
  MaxClock,   \* bound: ticks 1..MaxClock
  MaxEntry    \* bound: Stock Entries ever submitted

ItemAssumption == Part \subseteq Item /\ Supply \in [Part -> Nat]
PriceAssumption == Tariff \subseteq Nat /\ 0 \in Tariff /\ Typed \subseteq Nat
BoundAssumption == MaxClock \in Nat \ {0} /\ MaxEntry \in Nat

VARIABLES
  co,        \* co[o]: the Cleaning Order o
  entries,   \* the Material Issues submitted so far
  contract,  \* contract[i]: what the owner's running contract asks for i
  clock

vars == <<co, entries, contract, clock>>

NoLine == -1
Nobody == "nobody"

ServiceSetup == "Service Setup"
PendingReview == "Pending Review"

Open == {ServiceSetup, "Pending", "In_Progress", PendingReview}
Status == {"New", "Completed", "Cancelled"} \cup Open
Price == Tariff \cup Typed

Fresh == [status |-> "New", docstatus |-> 0, rate |-> [i \in Item |-> NoLine], plan |-> 0,
          washer |-> Nobody, start |-> 0, by |-> Nobody, finish |-> 0, entry |-> 0,
          billed |-> FALSE, asked |-> FALSE, closed |-> FALSE,
          back |-> 0, typed |-> [i \in Item |-> NoLine]]

Init ==
  /\ co = [o \in Order |-> Fresh]
  /\ entries = <<>>
  /\ contract \in [Item -> Tariff]
  /\ clock = 1

TypeOK ==
  /\ co \in [Order -> [status : Status, docstatus : 0..2, rate : [Item -> Price \cup {NoLine}],
                       plan : 0..MaxClock, washer : User \cup {Nobody}, start : 0..MaxClock,
                       by : User \cup {Nobody}, finish : 0..MaxClock, entry : 0..Len(entries),
                       billed : BOOLEAN, asked : BOOLEAN, closed : BOOLEAN,
                       back : 0..MaxClock, typed : [Item -> Typed \cup {NoLine}]]]
  /\ entries \in Seq([parts : SUBSET Part, live : BOOLEAN])
  /\ Len(entries) <= MaxEntry
  /\ contract \in [Item -> Tariff]
  /\ clock \in 1..MaxClock

-----------------------------------------------------------------------------
(* Lines and prices.  (Definitions no other here uses are plausible bugs.) *)
Lines(r) == {i \in Item : r.rate[i] # NoLine}
Parts(r) == Lines(r) \cap Part

(* A line without a price takes the contract's; a priced one keeps its own.*)
Seed(r) == [r EXCEPT !.rate = [i \in Item |-> IF r.rate[i] = 0 THEN contract[i] ELSE r.rate[i]]]

(* The form's rows: those in S stay or are added at price 0, the others    *)
(* go, and a person types price on those of T, some of S.                  *)
WithRows(r, S, T, price) ==
  [r EXCEPT !.rate = [i \in Item |-> CASE i \in T -> price
                                       [] i \in (S \ T) \cap Lines(r) -> r.rate[i]
                                       [] i \in S \ (T \cup Lines(r)) -> 0
                                       [] OTHER -> NoLine],
            !.typed = [i \in Item |-> CASE i \in T -> price
                                        [] i \in S \ T -> r.typed[i]
                                        [] OTHER -> NoLine]]

-----------------------------------------------------------------------------
(* Stock.                                                                  *)
OnHand(p, es) == Supply[p] - Cardinality({k \in DOMAIN es : es[k].live /\ p \in es[k].parts})

Covered(r, es) == \A p \in Parts(r) : OnHand(p, es) >= 1

(* _validate_parts_stock: an order still being set up may run short.       *)
StockRefuses(r, es) == r.entry = 0 /\ r.status # ServiceSetup /\ ~Covered(r, es)

CancelEntry(es, k) == IF k = 0 THEN es ELSE [es EXCEPT ![k].live = FALSE]

Issues(r) == r.entry = 0 /\ Parts(r) # {}

CanIssue(r, es) == Issues(r) => Covered(r, es) /\ Len(es) < MaxEntry

AfterIssue(r, es) == IF Issues(r) THEN Append(es, [parts |-> Parts(r), live |-> TRUE]) ELSE es

Issued(r, es) == IF Issues(r) THEN [r EXCEPT !.entry = Len(es) + 1] ELSE r

Same == UNCHANGED <<contract, clock>>

(* A save of a draft: the stock is checked and the lines are priced.       *)
Save(o, r) ==
  /\ ~StockRefuses(r, entries)
  /\ co' = [co EXCEPT ![o] = Seed(r)]
  /\ UNCHANGED entries
  /\ Same

-----------------------------------------------------------------------------
(* Admin Ops raises the order, fills it and forwards it to the team.       *)
Create(o, day) ==
  /\ co[o].status = "New"
  /\ co' = [co EXCEPT ![o] = [Fresh EXCEPT !.status = ServiceSetup, !.plan = day]]
  /\ UNCHANGED entries
  /\ Same

EditLines(o, S, T, price) ==
  /\ co[o].docstatus = 0
  /\ co[o].status \in Open
  /\ Save(o, WithRows(co[o], S, T, price))

forward_to_team(o) ==
  /\ co[o].status = ServiceSetup
  /\ Lines(co[o]) # {}
  /\ Save(o, [co[o] EXCEPT !.status = "Pending"])

-----------------------------------------------------------------------------
(* The team.  Mulai on a wash that runs joins it.                          *)

Starts(o) == co[o].status # "In_Progress"

start_cleaning(o, u) ==
  /\ co[o].status \in {ServiceSetup, "Pending", "In_Progress"}
  /\ IF Starts(o)
     THEN Save(o, [co[o] EXCEPT !.status = "In_Progress", !.start = clock, !.washer = u])
     ELSE UNCHANGED vars

(* The form is open on a running wash only; the finish and its author are  *)
(* stamped where they are empty.                                           *)
submit_for_review(o, u) ==
  /\ co[o].status = "In_Progress"
  /\ Save(o, [co[o] EXCEPT !.status = PendingReview,
                           !.finish = IF @ = 0 THEN clock ELSE @,
                           !.by = IF @ = Nobody THEN u ELSE @])

KeepsFinish(r) == [r EXCEPT !.status = "In_Progress", !.back = clock]

BackToWork(r) == [r EXCEPT !.status = "In_Progress", !.finish = 0, !.back = clock]

(* The team's own pull-back, or Admin Ops' Tolak Review.                   *)
withdraw_review(o) ==
  /\ co[o].status = PendingReview
  /\ Save(o, BackToWork(co[o]))

-----------------------------------------------------------------------------
(* Submit: the parts leave the gudang and what is empty is stamped.        *)

Finished(r, u) ==
  [r EXCEPT !.status = "Completed", !.docstatus = 1,
            !.by = IF @ = Nobody THEN u ELSE @,
            !.start = IF @ = 0 THEN clock ELSE @, !.finish = IF @ = 0 THEN clock ELSE @]

(* r is the order as Submit leaves it but for the parts.                   *)
Submit(o, r) ==
  /\ CanIssue(r, entries)
  /\ co' = [co EXCEPT ![o] = Issued(Seed(r), entries)]
  /\ entries' = AfterIssue(r, entries)
  /\ Same

DeskSubmit(o, u) ==
  /\ co[o].status \in Open
  /\ Submit(o, Finished(co[o], u))

(* Tutup Order dates the wash by the order's own day.                      *)
LaterOf(a, b) == IF a > b THEN a ELSE b

OwnDates(r) ==
  LET started == IF r.start = 0 THEN r.plan ELSE r.start
  IN [r EXCEPT !.start = started,
               !.finish = IF @ = 0 THEN LaterOf(r.plan, started) ELSE @,
               !.closed = TRUE]

close_cleaning(o, u) ==
  /\ co[o].status \in Open
  /\ Submit(o, Finished(OwnDates(co[o]), u))

-----------------------------------------------------------------------------
(* The way back from a submitted order, and the way out of a draft.        *)

PartsBack(r) == CancelEntry(entries, r.entry)

MayRevert(r) == ~r.billed

revert_to_draft(o) ==
  /\ co[o].docstatus = 1
  /\ MayRevert(co[o])
  /\ entries' = PartsBack(co[o])
  /\ co' = [co EXCEPT ![o] = [BackToWork(co[o]) EXCEPT !.docstatus = 0, !.entry = 0,
                                                       !.closed = FALSE, !.asked = FALSE]]
  /\ Same

cancel_order(o) ==
  /\ co[o].docstatus = 0
  /\ co[o].status \in Open
  /\ co' = [co EXCEPT ![o].status = "Cancelled", ![o].docstatus = 2, ![o].asked = FALSE]
  /\ entries' = CancelEntry(entries, co[o].entry)
  /\ Same

-----------------------------------------------------------------------------
(* A finished order: Ajukan Revisi, its answers, and the invoice.          *)
request_revision(o) ==
  /\ co[o].docstatus = 1
  /\ ~co[o].billed
  /\ co' = [co EXCEPT ![o].asked = TRUE]
  /\ UNCHANGED entries
  /\ Same

reject_revision(o) ==
  /\ co[o].asked
  /\ co' = [co EXCEPT ![o].asked = FALSE]
  /\ UNCHANGED entries
  /\ Same

(* Revisi Data: rows and prices of a finished order.  Changed parts go     *)
(* back and are issued anew, if the gudang holds them then.                *)
Revise(o, S, T, price) ==
  LET r == [WithRows(co[o], S, T, price) EXCEPT !.asked = FALSE]
      back == CancelEntry(entries, r.entry)
      bare == [r EXCEPT !.entry = 0]
  IN /\ co[o].docstatus = 1
     /\ ~co[o].billed
     /\ IF Parts(r) = Parts(co[o])
        THEN /\ co' = [co EXCEPT ![o] = Seed(r)]
             /\ UNCHANGED entries
        ELSE /\ CanIssue(bare, back)
             /\ co' = [co EXCEPT ![o] = Issued(Seed(bare), back)]
             /\ entries' = AfterIssue(bare, back)
     /\ Same

Bill(o) ==
  /\ co[o].status = "Completed"
  /\ ~co[o].billed
  /\ co' = [co EXCEPT ![o].billed = TRUE]
  /\ UNCHANGED entries
  /\ Same

Unbill(o) ==
  /\ co[o].billed
  /\ co' = [co EXCEPT ![o].billed = FALSE]
  /\ UNCHANGED entries
  /\ Same

NewContract(i, price) ==
  /\ contract' = [contract EXCEPT ![i] = price]
  /\ UNCHANGED <<co, entries, clock>>

Tick ==
  /\ clock < MaxClock
  /\ clock' = clock + 1
  /\ UNCHANGED <<co, entries, contract>>

(* Rows are edited with no price typed, or with one.                       *)
Edited(S) == {<<{}, 0>>} \cup ((SUBSET S \ {{}}) \X Typed)

Next ==
  \/ \E o \in Order :
       \/ \E day \in 1..MaxClock : Create(o, day)
       \/ \E S \in SUBSET Item : \E e \in Edited(S) : EditLines(o, S, e[1], e[2]) \/ Revise(o, S, e[1], e[2])
       \/ forward_to_team(o) \/ withdraw_review(o) \/ revert_to_draft(o) \/ cancel_order(o)
       \/ request_revision(o) \/ reject_revision(o) \/ Bill(o) \/ Unbill(o)
       \/ \E u \in User : start_cleaning(o, u) \/ submit_for_review(o, u) \/ DeskSubmit(o, u)
                          \/ close_cleaning(o, u)
  \/ \E i \in Item, price \in Tariff : NewContract(i, price)
  \/ Tick

Spec == Init /\ [][Next]_vars

-----------------------------------------------------------------------------
(* The gudang is short of exactly what submitted orders carry: one live    *)
(* issue of the order's parts while it is submitted, none otherwise, and   *)
(* never more than it had (_issue_parts, revert_to_draft, revision_apply). *)
PartsAccounted ==
  /\ \A o \in Order :
       IF co[o].docstatus = 1 /\ Parts(co[o]) # {}
       THEN co[o].entry # 0 /\ entries[co[o].entry] = [parts |-> Parts(co[o]), live |-> TRUE]
       ELSE co[o].entry = 0
  /\ \A k \in DOMAIN entries :
       entries[k].live => Cardinality({o \in Order : co[o].entry = k}) = 1
  /\ \A p \in Part : OnHand(p, entries) >= 0

(* An order on an invoice, or with an open Ajukan Revisi, stays submitted: *)
(* no way back takes the work from under either.                           *)
MarksOnSubmitted == \A o \in Order : co[o].billed \/ co[o].asked => co[o].docstatus = 1

(* A finish is the one of the last round of work: whatever sent the order  *)
(* back, the next sign-off times it anew (withdraw_review,                 *)
(* revert_to_draft); Tutup Order alone dates it by the order's day.        *)
FinishRetimed ==
  \A o \in Order : co[o].finish # 0 /\ ~co[o].closed => co[o].finish >= co[o].back

(* The wash never ends before it starts, however it was finished and redone*)
(* (only a Tutup Order ahead of the order's day can date a start later).   *)
StartBeforeFinish ==
  \A o \in Order : co[o].start # 0 /\ co[o].finish # 0 =>
     co[o].start <= co[o].finish \/ co[o].start = co[o].plan

(* Who opened the wash, when, and who did the work are facts: a second     *)
(* Mulai, a reviewer's Submit and every redo leave them (start_cleaning,   *)
(* before_submit).                                                         *)
WorkKept ==
  \A o \in Order : /\ co[o].start # 0 => co'[o].start = co[o].start
                   /\ co[o].washer # Nobody => co'[o].washer = co[o].washer
                   /\ co[o].by # Nobody => co'[o].by = co[o].by

(* A price a person typed stands until a person changes it, whatever the   *)
(* contract does and however often the order is saved ("never overwritten  *)
(* afterwards", _resolve_cleaning_services).                               *)
TypedPriceStands ==
  \A o \in Order, i \in Item : co[o].typed[i] # NoLine => co[o].rate[i] = co[o].typed[i]

(* "An accepted request would only sit as Revisi Diminta with nothing      *)
(* anybody could do about it" (revision.request): an order with an open    *)
(* request is not on an invoice.                                           *)
NoRequestOnInvoiced == \A o \in Order : ~(co[o].asked /\ co[o].billed)
=============================================================================
