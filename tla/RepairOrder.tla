---------------------------- MODULE RepairOrder ----------------------------
(***************************************************************************)
(* M&R orders: the estimate and the owner's approval, the team's work, the *)
(* parts taken from stock at approval and put back by every way back, the  *)
(* correction of a finished order, and the test date a finished Periodic   *)
(* Test writes on its tank (mr.py, repair_order.py, revision.py).          *)
(*                                                                         *)
(* A line of an order is one unit of an item.  A Stock Entry is kept as    *)
(* ERPNext keeps it, submitted or cancelled, so what is on hand follows    *)
(* from the entries and not from the orders.  All orders are on one tank.  *)
(* Every request is one transaction: its saves happen together.            *)
(***************************************************************************)
EXTENDS Integers, Sequences, FiniteSets

CONSTANTS
  Order,      \* the Repair Orders that may be raised
  Test,       \* those whose job_type is Periodic Test
  Item,       \* the catalogue
  Stocked,    \* its stock items: the parts
  Supply,     \* Supply[p]: units of p the warehouse ever gets
  Dates,      \* bound: dates are 1..Dates, 0 is an empty date
  MaxEntry    \* bound: Stock Entries ever submitted

OrderAssumption == Test \subseteq Order /\ Stocked \subseteq Item
SupplyAssumption == Supply \in [Stocked -> Nat]
BoundAssumption == Dates \in Nat \ {0} /\ MaxEntry \in Nat

VARIABLES
  mr,       \* mr[o]: the Repair Order o
  entries,  \* the Material Issues submitted so far
  tested,   \* Container.last_test_date
  typed     \* the test dates a person has typed on the tank

vars == <<mr, entries, tested, typed>>

Editable == {"Draft", "Revision Requested"}
Team == {"Pending", "In Progress", "Pending Review"}
Agreed == {"Approved", "Completed"} \cup Team
Final == {"Completed", "Cancelled", "Rejected"}
Status == {"New", "Deleted", "Pending Approval"} \cup Editable \cup Agreed \cup Final

Decision == {"none", "Pending", "Approved", "Rejected"}

Fresh == [status |-> "New", line |-> [i \in Item |-> "none"], entry |-> 0,
          plan |-> 0, replaced |-> 0, billed |-> FALSE, asked |-> FALSE]

Init ==
  /\ mr = [o \in Order |-> Fresh]
  /\ entries = <<>>
  /\ tested = 0
  /\ typed = {0}

TypeOK ==
  /\ mr \in [Order -> [status : Status, line : [Item -> Decision], entry : 0..Len(entries),
                       plan : 0..Dates, replaced : 0..Dates, billed : BOOLEAN, asked : BOOLEAN]]
  /\ entries \in Seq([parts : SUBSET Stocked, live : BOOLEAN])
  /\ Len(entries) <= MaxEntry
  /\ tested \in 0..Dates
  /\ typed \subseteq 0..Dates

(* MR_TRANSITIONS.                                                         *)
MR_TRANSITIONS ==
  [s \in Status |->
     CASE s = "Draft" -> {"Pending Approval", "Approved", "Cancelled"}
       [] s = "Revision Requested" -> {"Pending Approval", "Approved", "Draft", "Cancelled"}
       [] s = "Pending Approval" -> {"Approved", "Rejected", "Revision Requested", "Draft", "Cancelled"}
       [] s = "Approved" -> {"Pending", "Completed", "Draft", "Cancelled"}
       [] s = "Pending" -> {"In Progress", "Draft", "Cancelled"}
       [] s = "In Progress" -> {"Pending Review", "Draft", "Cancelled"}
       [] s = "Pending Review" -> {"Completed", "In Progress", "Draft", "Cancelled"}
       [] s = "Completed" -> {"In Progress"}
       [] s = "Rejected" -> {"Draft"}
       [] OTHER -> {}]

-----------------------------------------------------------------------------
(* Stock.  (Definitions that no other here uses are plausible bugs.)       *)
OnHand(p, es) == Supply[p] - Cardinality({k \in DOMAIN es : es[k].live /\ p \in es[k].parts})

(* What an order takes from stock: its part lines that nobody refused.     *)
Wanted(r) == {p \in Stocked : r.line[p] \in {"Pending", "Approved"}}

Covered(r) == \A p \in Wanted(r) : OnHand(p, entries) >= 1

(* issue_parts_on_approval leaves an order that carries an entry alone.    *)
Issues(r) == r.entry = 0 /\ Wanted(r) # {}

CanIssue(r) == Issues(r) => Covered(r) /\ Len(entries) < MaxEntry

Issued(r) == IF Issues(r) THEN [r EXCEPT !.entry = Len(entries) + 1] ELSE r

AfterIssue(r) == IF Issues(r) THEN Append(entries, [parts |-> Wanted(r), live |-> TRUE]) ELSE entries

Cancelled(es, k) == IF k = 0 THEN es ELSE [es EXCEPT ![k].live = FALSE]

-----------------------------------------------------------------------------
(* A save.  r is the order as the request leaves it, es the Stock Entries  *)
(* and date the tank's test date by then; parts come home when the order   *)
(* goes back to Draft or is dropped, and a Periodic Test that is Completed *)
(* stamps its date on the tank if it is newer.                             *)
StockRefuses(r) == r.entry = 0 /\ r.status \notin Editable \cup Final /\ ~Covered(r)

RewoundToDraft == {"Draft", "Rejected"}

Rewound == {"Draft", "Cancelled", "Rejected"}

ComesHome(o, r) == mr[o].entry # 0 /\ r.status \in Rewound

Stamps(o, r, date) == o \in Test /\ r.status = "Completed" /\ r.plan > date

Save(o, r, es, date) ==
  /\ ~StockRefuses(r)
  /\ entries' = IF ComesHome(o, r) THEN Cancelled(es, r.entry) ELSE es
  /\ mr' = [mr EXCEPT ![o] =
              [r EXCEPT !.entry = IF ComesHome(o, r) THEN 0 ELSE @,
                        !.replaced = IF Stamps(o, r, date) THEN date ELSE @]]
  /\ tested' = IF Stamps(o, r, date) THEN r.plan ELSE date
  /\ typed' = typed

Goes(o, to) == to \in MR_TRANSITIONS[mr[o].status]

(* restore_test_date: only while the tank still carries the order's date.  *)
Restores(o, r) == o \in Test /\ r.plan # 0 /\ tested = r.plan
DateWithout(o, r) == IF Restores(o, r) THEN r.replaced ELSE tested
Without(o, r) == IF Restores(o, r) THEN [r EXCEPT !.replaced = 0] ELSE r

-----------------------------------------------------------------------------
(* The desk: raise, edit, send to the owner, take back.                    *)
Create(o, d) ==
  /\ mr[o].status = "New"
  /\ mr' = [mr EXCEPT ![o] = [Fresh EXCEPT !.status = "Draft", !.plan = d]]
  /\ UNCHANGED <<entries, tested, typed>>

(* The estimate is edited before the owner is asked; the PWA rebuilds the  *)
(* rows (fresh), the Desk grid keeps those that stay.                      *)
EditLines(o, S, fresh) ==
  /\ mr[o].status \in Editable
  /\ LET row(i) == IF i \notin S THEN "none"
                   ELSE IF fresh \/ mr[o].line[i] = "none" THEN "Pending" ELSE mr[o].line[i]
     IN Save(o, [mr[o] EXCEPT !.line = [i \in Item |-> row(i)]], entries, tested)

EditDate(o, d) ==
  /\ mr[o].status \notin Final \cup {"New", "Deleted"}
  /\ Save(o, [mr[o] EXCEPT !.plan = d], entries, tested)

Undecided(r) == [r EXCEPT !.line = [i \in Item |-> IF r.line[i] = "none" THEN "none" ELSE "Pending"]]

publish_to_owner(o) ==
  /\ mr[o].status \in Editable
  /\ Save(o, [Undecided(mr[o]) EXCEPT !.status = "Pending Approval"], entries, tested)

withdraw_from_owner(o) ==
  /\ mr[o].status = "Pending Approval"
  /\ Save(o, [Undecided(mr[o]) EXCEPT !.status = "Draft"], entries, tested)

reopen_to_draft(o) ==
  /\ mr[o].status \in {"Pending Approval", "Approved", "Rejected", "Revision Requested"} \cup Team
  /\ Save(o, [Undecided(mr[o]) EXCEPT !.status = "Draft"], entries, tested)

Cancel(o) ==
  /\ Goes(o, "Cancelled")
  /\ Save(o, [mr[o] EXCEPT !.status = "Cancelled"], entries, tested)

-----------------------------------------------------------------------------
(* Approval.  Lines left undecided become Approved; an estimate with lines *)
(* needs one that is.                                                      *)
ApproveAll(r) ==
  [r EXCEPT !.status = "Approved",
            !.line = [i \in Item |-> IF r.line[i] = "none" THEN "none" ELSE "Approved"]]

Approve(r) ==
  [r EXCEPT !.status = "Approved",
            !.line = [i \in Item |-> IF r.line[i] = "Pending" THEN "Approved" ELSE r.line[i]]]

SomeApproved(r) ==
  (\E i \in Item : r.line[i] # "none") => \E i \in Item : r.line[i] = "Approved"

CanApprove(r) == SomeApproved(Approve(r)) /\ CanIssue(Approve(r))

bypass_approval(o) ==
  /\ mr[o].status \in Editable
  /\ CanApprove(mr[o])
  /\ Save(o, Issued(Approve(mr[o])), AfterIssue(Approve(mr[o])), tested)

(* The owner's answer, with a decision per line.                           *)
record_decision(o, decision, line) ==
  LET answered == [mr[o] EXCEPT !.line = line] IN
  /\ mr[o].status = "Pending Approval"
  /\ \A i \in Item : line[i] = "none" <=> mr[o].line[i] = "none"
  /\ \/ /\ decision = "Revision Requested"
        /\ Save(o, [answered EXCEPT !.status = decision], entries, tested)
     \/ /\ decision = "Rejected"
        /\ Save(o, [answered EXCEPT !.status = decision,
                      !.line = [i \in Item |-> IF line[i] = "none" THEN "none" ELSE "Rejected"]],
                entries, tested)
     \/ /\ decision = "Approved"
        /\ CanApprove(answered)
        /\ Save(o, Issued(Approve(answered)), AfterIssue(Approve(answered)), tested)

-----------------------------------------------------------------------------
(* The team, and the desk that closes the job.                             *)
(* An estimate still on the desk is approved in the same request.          *)
Onward(o) == IF mr[o].status \in Editable \cup {"Pending Approval"} THEN Approve(mr[o]) ELSE mr[o]

forward_to_team(o) ==
  /\ mr[o].status \in Editable \cup {"Approved"}
  /\ mr[o].status \in Editable => CanApprove(mr[o])
  /\ Save(o, [Issued(Onward(o)) EXCEPT !.status = "Pending"], AfterIssue(Onward(o)), tested)

start_repair(o) ==
  /\ mr[o].status = "Pending"
  /\ Save(o, [mr[o] EXCEPT !.status = "In Progress"], entries, tested)

submit_for_review(o) ==
  /\ mr[o].status = "In Progress"
  /\ Save(o, [mr[o] EXCEPT !.status = "Pending Review"], entries, tested)

(* The team's own pull-back, or the desk's Tolak Review.                   *)
withdraw_review(o) ==
  /\ mr[o].status = "Pending Review"
  /\ Save(o, [mr[o] EXCEPT !.status = "In Progress"], entries, tested)

finalize_repair(o) ==
  /\ mr[o].status \in {"Pending Review", "Approved"}
  /\ Save(o, [mr[o] EXCEPT !.status = "Completed", !.asked = FALSE], entries, tested)

(* Submit from wherever the order stands, every stage's own function run   *)
(* in one request (also Tutup Order's _close_repair).                      *)
submit_direct(o) ==
  /\ mr[o].status \in Editable \cup {"Pending Approval", "Approved"} \cup Team
  /\ mr[o].status \in Editable \cup {"Pending Approval"} => CanApprove(mr[o])
  /\ Save(o, [Issued(Onward(o)) EXCEPT !.status = "Completed", !.asked = FALSE],
          AfterIssue(Onward(o)), tested)

-----------------------------------------------------------------------------
(* A finished order: the team asks, Admin Ops reopens, corrects or says no.*)
request_revision(o) ==
  /\ mr[o].status = "Completed"
  /\ ~mr[o].billed
  /\ mr' = [mr EXCEPT ![o].asked = TRUE]
  /\ UNCHANGED <<entries, tested, typed>>

RejectRevision(o) ==
  /\ mr[o].asked
  /\ mr' = [mr EXCEPT ![o].asked = FALSE]
  /\ UNCHANGED <<entries, tested, typed>>

ReopenBilled(o) ==
  /\ mr[o].status = "Completed"
  /\ Save(o, [Without(o, mr[o]) EXCEPT !.status = "In Progress", !.asked = FALSE],
          entries, DateWithout(o, mr[o]))

reopen_completed(o) ==
  /\ mr[o].status = "Completed"
  /\ ~mr[o].billed
  /\ Save(o, [Without(o, mr[o]) EXCEPT !.status = "In Progress", !.asked = FALSE],
          entries, DateWithout(o, mr[o]))

(* Revisi Data: the lines and the date of a finished order.  Rows that     *)
(* stay keep their decision; changed parts go back and are issued anew;    *)
(* a moved date first takes the old one off the tank.                      *)
Revise(o, S, d) ==
  LET b == mr[o]
      row(i) == IF i \notin S THEN "none" ELSE IF b.line[i] = "none" THEN "Pending" ELSE b.line[i]
      moved == IF d # b.plan THEN Without(o, b).replaced ELSE b.replaced
      r == [b EXCEPT !.line = [i \in Item |-> row(i)], !.plan = d, !.asked = FALSE, !.replaced = moved]
      back == Cancelled(entries, b.entry)
      date == IF d # b.plan THEN DateWithout(o, b) ELSE tested
  IN /\ b.status = "Completed"
     /\ ~b.billed
     /\ \/ /\ Wanted(r) = Wanted(b)
           /\ Save(o, r, entries, date)
        \/ /\ Wanted(r) # Wanted(b)
           /\ Wanted(r) = {}
           /\ Save(o, [r EXCEPT !.entry = 0], back, date)
        \/ /\ Wanted(r) # Wanted(b)
           /\ Wanted(r) # {}
           /\ Len(entries) < MaxEntry
           /\ \A p \in Wanted(r) : OnHand(p, back) >= 1
           /\ Save(o, [r EXCEPT !.entry = Len(back) + 1],
                   Append(back, [parts |-> Wanted(r), live |-> TRUE]), date)

(* Deleting an order undoes what its life did; a billed one is refused.    *)
Delete(o) ==
  /\ mr[o].status \notin {"New", "Deleted"}
  /\ ~mr[o].billed
  /\ entries' = Cancelled(entries, mr[o].entry)
  /\ tested' = IF mr[o].status = "Completed" THEN DateWithout(o, mr[o]) ELSE tested
  /\ mr' = [mr EXCEPT ![o] = [Fresh EXCEPT !.status = "Deleted"]]
  /\ UNCHANGED typed

-----------------------------------------------------------------------------
(* Consolidated billing sweeps a finished order onto an invoice and gives  *)
(* it back; a person types a test date read off the plate.                 *)
Bill(o) ==
  /\ mr[o].status = "Completed"
  /\ ~mr[o].billed
  /\ mr' = [mr EXCEPT ![o].billed = TRUE]
  /\ UNCHANGED <<entries, tested, typed>>

Unbill(o) ==
  /\ mr[o].billed
  /\ mr' = [mr EXCEPT ![o].billed = FALSE]
  /\ UNCHANGED <<entries, tested, typed>>

set_last_test_date(d) ==
  /\ tested' = d
  /\ typed' = typed \cup {d}
  /\ UNCHANGED <<mr, entries>>

Next ==
  \/ \E o \in Order :
       \/ publish_to_owner(o) \/ withdraw_from_owner(o) \/ reopen_to_draft(o) \/ Cancel(o)
       \/ bypass_approval(o) \/ forward_to_team(o) \/ start_repair(o) \/ submit_for_review(o)
       \/ withdraw_review(o) \/ finalize_repair(o) \/ submit_direct(o)
       \/ request_revision(o) \/ RejectRevision(o) \/ reopen_completed(o)
       \/ Delete(o) \/ Bill(o) \/ Unbill(o)
       \/ \E d \in 1..Dates : Create(o, d) \/ EditDate(o, d)
       \/ \E S \in SUBSET Item, fresh \in BOOLEAN : EditLines(o, S, fresh)
       \/ \E decision \in {"Approved", "Rejected", "Revision Requested"}, line \in [Item -> Decision] :
            record_decision(o, decision, line)
       \/ \E S \in SUBSET Item, d \in 1..Dates : Revise(o, S, d)
  \/ \E d \in 1..Dates : set_last_test_date(d)

Spec == Init /\ [][Next]_vars

-----------------------------------------------------------------------------
(* The warehouse is short of exactly what agreed orders carry: an order    *)
(* from Approved to Completed has one submitted issue of the part lines    *)
(* nobody refused, an order anywhere else has none, and every submitted    *)
(* issue stands on one order (issue_parts_on_approval,                     *)
(* _return_parts_if_rewound, revision_apply, on_trash).                    *)
PartsAccounted ==
  /\ \A o \in Order :
       IF mr[o].status \in Agreed /\ Wanted(mr[o]) # {}
       THEN /\ mr[o].entry # 0
            /\ entries[mr[o].entry] = [parts |-> Wanted(mr[o]), live |-> TRUE]
       ELSE mr[o].entry = 0
  /\ \A k \in DOMAIN entries :
       entries[k].live => Cardinality({o \in Order : mr[o].entry = k}) = 1

(* An invoice mark or an open Ajukan Revisi stands on a Completed order    *)
(* only: no undo leaves an order billed, or asked about, while it is open. *)
MarksOnClosed == \A o \in Order : mr[o].billed \/ mr[o].asked => mr[o].status = "Completed"

(* A line the owner refused becomes agreed only through a new round (back  *)
(* to Pending first): neither the bypass, the hand-over nor a submit turns *)
(* the no into a yes.                                                      *)
OwnersNoKept ==
  \A o \in Order, i \in Item :
    mr[o].line[i] = "Rejected" => mr'[o].line[i] \in {"Rejected", "Pending", "none"}

(* Nothing but a hand, or the undoing of the very test the tank shows,     *)
(* makes its test date older (_stamp_last_test_date, restore_test_date).   *)
DateKept ==
  tested' < tested =>
    \/ \E d \in 1..Dates : set_last_test_date(d)
    \/ \E o \in Test : /\ mr[o].status = "Completed" /\ mr[o].plan = tested
                       /\ \/ mr'[o].status # "Completed"
                          \/ mr'[o].plan # mr[o].plan

(* The date a tank shows was typed by a person or is that of a test that   *)
(* still stands finished ("the completion is undone, so is the date it     *)
(* wrote", reopen_completed).                                              *)
DateIsBacked == tested \in typed \/ \E o \in Test : mr[o].status = "Completed" /\ mr[o].plan = tested

(* While nobody types a date, the tank's is no older than any test that    *)
(* stands finished ("Uji berkala yang SELESAI di depo ini adalah tanggal   *)
(* uji baru tank itu", _stamp_last_test_date).                             *)
DateIsNewest ==
  typed = {0} => \A o \in Test : mr[o].status = "Completed" => tested >= mr[o].plan
=============================================================================
