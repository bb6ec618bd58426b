----------------------------- MODULE InvoiceRows -----------------------------
(***************************************************************************)
(* The charge rows of one draft Sales Invoice.  The header has a box for   *)
(* labour, PPN and Materai; the native rows are derived from the boxes     *)
(* twice: by the form as the boxes change (sales_invoice.js) and by the    *)
(* server on every save (invoicing.py).  Rows of anything else, the        *)
(* extras, are kept, after the derived ones.  A row may rest on an earlier *)
(* one, by its number, and numbers move when rows come and go.             *)
(*                                                                         *)
(* Amounts are left out: a box is filled or not, and a row is known by     *)
(* what it charges and what it rests on.  PPh behaves as PPN does.         *)
(***************************************************************************)
EXTENDS Naturals, Sequences, SequencesExt, FiniteSets

CONSTANTS
  Extras,   \* the sequence of rows a taxes template brings
  RestsOn,  \* RestsOn[x]: what the template charges x on: Net, Flat or an earlier extra
  Branch,   \* the branches an invoice may belong to
  None,     \* no branch
  Lapse     \* what users are let do: see Lapses

Lapses ==
  {"rebuilds over extras",  \* a box is changed on the form of an invoice with extra rows
   "deletes under extras",  \* the labour row is deleted by hand there
   "moves branch"}          \* a draft's branch is filled in or changed

Net == "net total"
Flat == "flat"
Company == "company"
Extra == ToSet(Extras)
Boxes == {"Manhour", "PPN", "Materai"}

RowsAssumption ==
  /\ Lapse \subseteq Lapses
  /\ None \notin Branch \cup {Company} /\ Company \notin Branch
  /\ Extra \cap (Boxes \cup {Net, Flat}) = {}
  /\ IsInjective(Extras)
  /\ \A i \in DOMAIN Extras :
       RestsOn[Extras[i]] \in {Net, Flat} \cup {Extras[j] : j \in 1..(i - 1)}

VARIABLES
  doc,    \* the invoice as saved: its boxes and its rows
  form,   \* the same on the screen
  stage,  \* none, draft, posted, cancelled
  branch, \* the branch it belongs to
  number, \* the series its number was drawn from
  struck  \* the labour row was deleted by hand, and no box brought it back since

vars == <<doc, form, stage, branch, number, struck>>

Empty == [box |-> {}, labour |-> FALSE, rows |-> << >>]

-----------------------------------------------------------------------------
(* The rows.                                                               *)

\* labour: the lines carry labour tariffs; box "Manhour": Tagih Manhour.
Charged(d) == {b \in d.box : b = "Manhour" => d.labour}

Basis(charged) ==
  IF "Manhour" \in charged THEN [on |-> "previous total", row |-> 1] ELSE [on |-> Net, row |-> 0]

Row(what, place) == [what |-> what, on |-> place.on, row |-> place.row]

Managed(charged) ==
  LET flat == [on |-> Flat, row |-> 0]
      place == [b \in Boxes |-> IF b = "PPN" THEN Basis(charged) ELSE flat]
      chosen == SelectSeq(<<"Manhour", "PPN", "Materai">>, LAMBDA b : b \in charged)
  IN [i \in DOMAIN chosen |-> Row(chosen[i], place[chosen[i]])]

EveryOther(rows) == SelectSeq(rows, LAMBDA r : r.what # "Manhour")

Kept(rows) == SelectSeq(rows, LAMBDA r : r.what \in Extra)

Chained(r) == r.on \in {"previous total", "previous amount"}

AsTyped(rows, charged, r) ==
  IF r.on = Net THEN Row(r.what, Basis(charged)) ELSE r

\* A chained row goes on resting on the row it named; one that stood on a
\* derived row or on the net total moves to where the percentages are.
Repointed(rows, charged, r) ==
  LET rest == {i \in DOMAIN rows : i = r.row /\ rows[i].what \in Extra}
      at(x) == CHOOSE i \in DOMAIN Kept(rows) : Kept(rows)[i].what = x
  IN CASE r.on = Net \/ (Chained(r) /\ rest = {}) -> Row(r.what, Basis(charged))
       [] Chained(r) /\ rest # {} -> [r EXCEPT !.row = Len(Managed(charged)) + at(rows[r.row].what)]
       [] OTHER -> r

\* _rebuild_tax_rows
RebuildTaxRows(rows, charged) ==
  LET kept == Kept(rows)
  IN Managed(charged) \o [i \in DOMAIN kept |-> Repointed(rows, charged, kept[i])]

\* rebuild_charges of the form moves rows that stood on the net total only.
RebuildCharges(rows, charged) ==
  LET kept == Kept(rows)
  IN Managed(charged) \o [i \in DOMAIN kept |-> AsTyped(rows, charged, kept[i])]

Has(rows, what) == \E i \in DOMAIN rows : rows[i].what = what

\* A labour row the saved invoice has and this save lacks was deleted by hand.
DeletedLabour(old, new) ==
  /\ "Manhour" \in Charged(new)
  /\ Has(old.rows, "Manhour")
  /\ ~Has(new.rows, "Manhour")

\* build_charges
BuildCharges(old, new) ==
  LET box == IF DeletedLabour(old, new) THEN new.box \ {"Manhour"} ELSE new.box
      d == [new EXCEPT !.box = box]
  IN [d EXCEPT !.rows = RebuildTaxRows(new.rows, Charged(d))]

\* What the accounting library accepts: a row rests on an earlier one.
Acceptable(rows) == \A i \in DOMAIN rows : Chained(rows[i]) => rows[i].row \in 1..(i - 1)

-----------------------------------------------------------------------------
(* Saves, on the form and of the server's own.                             *)

Init ==
  /\ doc = Empty /\ form = Empty
  /\ stage = "none"
  /\ branch = None /\ number = None
  /\ struck = FALSE

TypeOK ==
  LET Shape(d) == /\ d.box \subseteq Boxes
                  /\ d.labour \in BOOLEAN
                  /\ \A i \in DOMAIN d.rows :
                       /\ d.rows[i].what \in Boxes \cup Extra
                       /\ d.rows[i].on \in {Net, Flat, "previous total", "previous amount"}
                       /\ d.rows[i].row \in 0..(Len(Extras) + Cardinality(Boxes))
  IN /\ Shape(doc) /\ Shape(form)
     /\ stage \in {"none", "draft", "posted", "cancelled"}
     /\ branch \in Branch \cup {None} /\ number \in Branch \cup {Company, None}
     /\ struck \in BOOLEAN

\* An invoice without a branch gets that of its maker, if they work one only,
\* or of the first order it bills that has one.
DefaultBranch(given) == IF given # None THEN {given} ELSE Branch \cup {None}

\* A branch counts its invoices in a series of its own, those without a branch
\* are in the company's.
SeriesOf(b) == IF b = None THEN Company ELSE b

\* The number is drawn when the draft is inserted, for the branch it has then.
CreateDraftSalesInvoice ==
  /\ stage = "none"
  /\ \E labour \in BOOLEAN, box \in SUBSET Boxes, given \in Branch \cup {None} :
       LET d == BuildCharges(Empty, [Empty EXCEPT !.labour = labour, !.box = box])
       IN /\ doc' = d /\ form' = d
          /\ branch' \in DefaultBranch(given)
  /\ number' = SeriesOf(branch')
  /\ stage' = "draft"
  /\ UNCHANGED struck

\* The party's taxes template lands on the form.
TakeTemplate ==
  /\ stage = "draft"
  /\ Extras # << >> /\ Kept(form.rows) = << >>
  /\ LET n == Len(form.rows)
         place(i) == IF RestsOn[Extras[i]] \in {Net, Flat}
                     THEN [on |-> RestsOn[Extras[i]], row |-> 0]
                     ELSE [on |-> "previous amount",
                           row |-> n + CHOOSE j \in DOMAIN Extras : Extras[j] = RestsOn[Extras[i]]]
     IN form' = [form EXCEPT !.rows = @ \o [i \in DOMAIN Extras |-> Row(Extras[i], place(i))]]
  /\ UNCHANGED <<doc, stage, branch, number, struck>>

FormMayRebuild == Kept(form.rows) = << >> \/ "rebuilds over extras" \in Lapse

\* A box, or a line's labour tariff, changes: the rows follow at once.
ChangeBox ==
  /\ stage = "draft"
  /\ FormMayRebuild
  /\ \E labour \in BOOLEAN, box \in SUBSET Boxes :
       LET d == [form EXCEPT !.labour = labour, !.box = box]
       IN /\ d # form
          /\ form' = [d EXCEPT !.rows = RebuildCharges(form.rows, Charged(d))]
          /\ struck' = (struck /\ "Manhour" \notin form.box \cup box)
  /\ UNCHANGED <<doc, stage, branch, number>>

\* The row goes, the rows after it move up, and nobody renumbers the chains.
DeleteLabourRow ==
  /\ stage = "draft"
  /\ form = doc
  /\ Has(form.rows, "Manhour")
  /\ Kept(form.rows) = << >> \/ "deletes under extras" \in Lapse
  /\ form' = [form EXCEPT !.rows = EveryOther(@)]
  /\ struck' = TRUE
  /\ UNCHANGED <<doc, stage, branch, number>>

Save ==
  /\ stage = "draft"
  /\ form # doc
  /\ LET d == BuildCharges(doc, form)
     IN /\ Acceptable(d.rows)
        /\ doc' = d /\ form' = d
  /\ UNCHANGED <<stage, branch, number, struck>>

\* A draft's orders are picked again: its lines, and with them the labour
\* they carry, change on the server, whose save the form then loads.
Refill ==
  /\ stage = "draft"
  /\ form = doc
  /\ LET d == BuildCharges(doc, [doc EXCEPT !.labour = ~@])
     IN /\ Acceptable(d.rows)
        /\ doc' = d /\ form' = d
  /\ UNCHANGED <<stage, branch, number, struck>>

MoveBranch ==
  /\ stage = "draft"
  /\ "moves branch" \in Lapse
  /\ branch' \in Branch \ {branch}
  /\ UNCHANGED <<doc, form, stage, number, struck>>

Submit ==
  /\ stage = "draft"
  /\ form = doc
  /\ branch # None
  /\ stage' = "posted"
  /\ LET d == BuildCharges(doc, doc)
     IN /\ Acceptable(d.rows)
        /\ doc' = d /\ form' = d
  /\ UNCHANGED <<branch, number, struck>>

Cancel ==
  /\ stage \in {"draft", "posted"}
  /\ stage' = "cancelled"
  /\ form' = doc
  /\ struck' = (struck /\ form = doc)
  /\ UNCHANGED <<doc, branch, number>>

Next ==
  \/ CreateDraftSalesInvoice \/ TakeTemplate \/ ChangeBox \/ DeleteLabourRow
  \/ Save \/ Refill \/ MoveBranch \/ Submit \/ Cancel

Spec == Init /\ [][Next]_vars

-----------------------------------------------------------------------------
(* Properties.                                                             *)

\* What the row at i of the invoice is charged on.
Stands(rows, i) ==
  IF ~Chained(rows[i]) THEN rows[i].on
  ELSE IF rows[i].row \notin DOMAIN rows THEN None
  ELSE IF rows[rows[i].row].what = "Manhour" THEN Net
  ELSE rows[rows[i].row].what

\* However the derived rows came and went, every extra row of the saved
\* invoice is charged on what its template charged it on, where "net total"
\* includes the labour charged.
ExtrasStand ==
  \A i \in DOMAIN doc.rows :
    doc.rows[i].what \in Extra => Stands(doc.rows, i) = RestsOn[doc.rows[i].what]

\* A saved draft is settled: saving it once more, as the submit does, changes
\* no row and no box, so what was seen is what is posted.
SavedIsSettled == stage = "draft" => BuildCharges(doc, doc) = doc

\* Nothing is charged twice, PPN and labour least of all, and every box the
\* invoice fills is charged.
ChargedOnce ==
  /\ \A i, j \in DOMAIN doc.rows : doc.rows[i].what = doc.rows[j].what => i = j
  /\ \A b \in Boxes : Has(doc.rows, b) <=> b \in Charged(doc)

\* A labour row deleted by hand stays off the saved invoice until somebody
\* ticks Tagih Manhour again, though every save derives the row afresh.
DeletedStaysOff == struck /\ form = doc => ~Has(doc.rows, "Manhour")

\* On the screen too, where the form has rebuilt the rows itself, every extra
\* row is charged on what its template charged it on.
ShownExtrasStand ==
  stage = "draft" /\ (Has(form.rows, "Manhour") <=> "Manhour" \in Charged(form))
    => \A i \in DOMAIN form.rows :
         form.rows[i].what \in Extra => Stands(form.rows, i) = RestsOn[form.rows[i].what]

\* Whatever is on the form can be saved.
CanBeSaved == stage = "draft" => Acceptable(BuildCharges(doc, form).rows)

\* An invoice is numbered in the series of the branch it is posted to.
NumberNamesBranch == stage = "posted" => number = SeriesOf(branch)
=============================================================================
