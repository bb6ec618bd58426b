--------------------------- MODULE StorageCharge ---------------------------
(***************************************************************************)
(* The days one tank is charged for its stay: the gate records the bons    *)
(* write, the ledger derived from them by a sync that runs inside some of  *)
(* those writes and once a night, and the invoices that take days off the  *)
(* ledger and give them back (storage.py, storage_charge.py,               *)
(* visit_dates.py, the storage half of consolidated_billing.py).           *)
(*                                                                         *)
(* A ledger row is keyed by its gate record, <<"visit", v>>, or, when the  *)
(* tank has no gate record at all, by the day its status trail says it     *)
(* came in, <<"day", d>>.  Dates are 1..Days and 0 is no date.  An invoice *)
(* here bills one row; one of several rows is several of these.            *)
(***************************************************************************)
EXTENDS Integers, Sequences, FiniteSets, FiniteSetsExt

CONSTANTS
  MaxVisit,     \* bound: visits of the tank
  Days,         \* bound: days
  MaxStays,     \* bound: stays the status trail tells
  Invoice,      \* the storage invoices that may be raised
  Free,         \* free days the owner's contract grants a visit
  Running,      \* TRUE: days are billed while the tank is inside
  CountOut,     \* TRUE: the day it leaves is charged
  Known,        \* TRUE: the tank has a gate record of an earlier visit
  Outcomes,     \* outcomes of best-effort writes: {TRUE}, or failures too
  DeskEdits,    \* TRUE: bon dates are also edited on the bon's own form
  NewestFirst,  \* TRUE: a visit's invoices are undone newest first
  RepickNewest, \* TRUE: only a visit's newest invoice is picked again
  None

BoundAssumption == {MaxVisit, Days, MaxStays} \subseteq Nat \ {0} /\ Free \in Nat
SwitchAssumption == {Running, CountOut, Known, DeskEdits, NewestFirst, RepickNewest} \subseteq BOOLEAN
OutcomeAssumption == TRUE \in Outcomes /\ Outcomes \subseteq BOOLEAN

Visit == 1..MaxVisit
Day == 1..Days
Key == ({"visit"} \X Visit) \cup ({"day"} \X Day)

VARIABLES
  today,
  tank,   \* the Container: where it stands, its day in and out, its arrival
  trail,  \* the stays its status trail tells, kept while no gate record does
  gate,   \* gate[v]: the Gate Entry of visit v
  row,    \* row[k]: the Storage Charge of key k
  bill    \* bill[i]: what invoice i charges, and the watermark it replaced

vars == <<today, tank, trail, gate, row, bill>>

NoRow == [live |-> FALSE, in |-> 0, out |-> 0, until |-> 0, invoice |-> None,
          stay |-> 0, unbilled |-> 0, billed |-> 0, status |-> "Berjalan"]
NoBill == [live |-> FALSE, key |-> <<"visit", 1>>, prev |-> 0, from |-> 0, to |-> 0]

Init ==
  /\ today = 1
  /\ tank = [status |-> "Booked", in |-> 0, out |-> 0, bon |-> 0]
  /\ trail = <<>>
  /\ gate = [v \in Visit |-> [state |-> "none", in |-> 0, out |-> 0]]
  /\ row = [k \in Key |-> NoRow]
  /\ bill = [i \in Invoice |-> NoBill]

Present == tank.status = "In_Depot"

TypeOK ==
  /\ today \in Day
  /\ tank \in [status : {"Booked", "In_Depot", "Gate_Out"}, in : 0..Days, out : 0..Days,
               bon : 0..MaxVisit]
  /\ trail \in Seq([in : Day, out : 0..Days])
  /\ gate \in [Visit -> [state : {"none", "open", "closed", "void"}, in : 0..Days, out : 0..Days]]
  /\ row \in [Key -> [live : BOOLEAN, in : 0..Days, out : 0..Days, until : 0..Days,
                      invoice : Invoice \cup {None}, stay : Nat, unbilled : Nat, billed : Nat,
                      status : {"Berjalan", "Unpaid", "Partly Paid", "Paid"}]]
  /\ bill \in [Invoice -> [live : BOOLEAN, key : Key, prev : 0..Days, from : 0..Days, to : 0..Days]]

-----------------------------------------------------------------------------
(* Days.                                                                   *)

MaxOf(a, b) == IF a > b THEN a ELSE b
MinOf(a, b) == IF a < b THEN a ELSE b

DayCount(lo, hi) == MaxOf(0, hi - lo + 1)

last_billable_day(in, out, cutoff) ==
  IF out = 0 THEN MinOf(cutoff, today) ELSE IF CountOut THEN out ELSE out - 1

\* The part of a stay inside a window: after the free days, counted from its
\* start, and after the watermark of what was billed.
measure(in, out, until, from, to) ==
  LET last == last_billable_day(in, out, to)
      chargeFrom == IF until = 0 THEN in + Free ELSE MaxOf(in + Free, until + 1)
  IN [from |-> MaxOf(chargeFrom, from), to |-> MinOf(last, to)]

BilledDays(in, out, until) ==
  IF until = 0 THEN 0 ELSE DayCount(in + Free, MinOf(until, last_billable_day(in, out, today)))

StatusOf(out, unbilled, billed) ==
  IF out = 0 THEN "Berjalan" ELSE IF unbilled = 0 THEN "Paid"
  ELSE IF billed > 0 THEN "Partly Paid" ELSE "Unpaid"

-----------------------------------------------------------------------------
(* The sync: the ledger is derived from the gate records.                  *)

Recorded(g) == {v \in Visit : g[v].state \in {"open", "closed"}}

\* The last stay of a trail takes the master's dates, when they fit.
WithMaster(s, t) ==
  LET n == Len(s)
      before == IF n > 1 THEN s[n - 1].out ELSE 0
      in == IF t.in # 0 /\ t.in > before THEN t.in ELSE s[n].in
      out == IF t.status = "Gate_Out" /\ t.out >= in THEN t.out ELSE s[n].out
  IN IF out # 0 /\ out < in THEN s ELSE [s EXCEPT ![n] = [in |-> in, out |-> out]]

Periods(g, t, s) ==
  IF Known \/ Recorded(g) # {}
  THEN {[key |-> <<"visit", v>>, in |-> g[v].in, out |-> g[v].out] : v \in Recorded(g)}
  ELSE IF s = <<>> THEN {}
  ELSE LET m == WithMaster(s, t)
       IN {[key |-> <<"day", m[n].in>>, in |-> m[n].in, out |-> m[n].out] : n \in DOMAIN m}

Upserted(p, r) ==
  LET last == last_billable_day(p.in, p.out, today)
      m == measure(p.in, p.out, r.until, p.in, last)
      unbilled == DayCount(m.from, m.to)
      billed == BilledDays(p.in, p.out, r.until)
  IN [live |-> TRUE, in |-> p.in, out |-> p.out, until |-> r.until, invoice |-> r.invoice,
      stay |-> DayCount(p.in, last), unbilled |-> unbilled, billed |-> billed,
      status |-> StatusOf(p.out, unbilled, billed)]

\* A row no record describes goes, unless days of it were billed.
Pruned(r) == IF r.until # 0 \/ r.invoice # None THEN r ELSE NoRow

sync(g, t, s, rows) ==
  LET ps == Periods(g, t, s)
  IN [k \in Key |-> IF \E p \in ps : p.key = k
                    THEN Upserted(CHOOSE p \in ps : p.key = k, rows[k])
                    ELSE Pruned(rows[k])]

\* Container.on_update: a failed sync is logged and the move goes on.
StatusSync(g, t, s) ==
  \/ TRUE \in Outcomes /\ row' = sync(g, t, s, row)
  \/ FALSE \in Outcomes /\ row' = row

Opened(s) == IF Known \/ (s # <<>> /\ s[Len(s)].out = 0) THEN s
             ELSE Append(s, [in |-> today, out |-> 0])
Closed(s) == IF Known \/ s = <<>> \/ s[Len(s)].out # 0 THEN s
             ELSE [s EXCEPT ![Len(s)].out = today]

-----------------------------------------------------------------------------
(* Bons: the tank comes, leaves, and either is undone or re-dated.         *)

InvoicedVisit(v) == row[<<"visit", v>>].live /\ row[<<"visit", v>>].invoice # None

\* The master is saved, and synced, before the gate record is written; a
\* draft EIR turns the status once more and syncs again.
Arrive(v, day) ==
  /\ ~Present
  /\ gate[v].state = "none"
  /\ \A w \in 1..(v - 1) : gate[w].state # "none"
  /\ day <= today
  /\ tank' = [status |-> "In_Depot", in |-> day, out |-> 0, bon |-> v]
  /\ trail' = Opened(trail)
  /\ \E logged \in Outcomes :
       gate' = [gate EXCEPT ![v] = IF logged THEN [state |-> "open", in |-> day, out |-> 0]
                                   ELSE [@ EXCEPT !.state = "void"]]
  /\ \/ StatusSync(gate, tank', trail')
     \/ StatusSync(gate', tank', trail')
  /\ UNCHANGED <<today, bill>>

\* Work opened or finished on the tank turns its status and syncs.
TurnStatus ==
  /\ Present
  /\ StatusSync(gate, tank, trail)
  /\ UNCHANGED <<today, tank, trail, gate, bill>>

\* Here too the sync comes before the gate record is closed.  A visit whose
\* record was never written gets one now, with the master's day in.
mark_gate_out(day) ==
  LET v == tank.bon
      left == [tank EXCEPT !.status = "Gate_Out", !.out = day]
  IN /\ Present
     /\ day <= today
     /\ tank' = left
     /\ trail' = Closed(trail)
     /\ StatusSync(gate, left, trail')
     /\ gate' = [gate EXCEPT ![v] = [state |-> "closed", in |-> IF @.state = "open" THEN @.in ELSE tank.in,
                                     out |-> day]]
     /\ UNCHANGED <<today, bill>>

\* The departure bon is voided or sent back to draft.
reverse_bon_departures ==
  LET v == tank.bon
      back == [tank EXCEPT !.status = "In_Depot", !.out = 0]
  IN /\ tank.status = "Gate_Out"
     /\ v # 0
     /\ Len(trail) < MaxStays
     /\ gate[v].state = "closed"
     /\ tank' = back
     /\ trail' = Opened(trail)
     /\ gate' = [gate EXCEPT ![v] = [@ EXCEPT !.state = "open", !.out = 0]]
     /\ row' = sync(gate', back, trail', row)
     /\ UNCHANGED <<today, bill>>

\* The arrival bon is voided.  The gate record goes first, then the master;
\* Booked does not close a stay on the status trail, Gate_Out does.
VoidArrival(v) ==
  /\ Present
  /\ tank.bon = v
  /\ ~InvoicedVisit(v)
  /\ gate' = [gate EXCEPT ![v] = [@ EXCEPT !.state = "void"]]
  /\ \E to \in {"Booked", "Gate_Out"} :
       /\ tank' = [status |-> to, in |-> 0, out |-> 0, bon |-> 0]
       /\ trail' = IF to = "Gate_Out" THEN Closed(trail) ELSE trail
  /\ StatusSync(gate', tank', trail')
  /\ UNCHANGED <<today, bill>>

follow_bongkar(v, day) ==
  /\ gate[v].state \in {"open", "closed"}
  /\ gate[v].in # day
  /\ day <= today
  /\ gate' = [gate EXCEPT ![v].in = day]
  /\ tank' = IF tank.bon = v THEN [tank EXCEPT !.in = day] ELSE tank
  /\ row' = sync(gate', tank', trail, row)
  /\ UNCHANGED <<today, trail, bill>>

follow_muat(v, day) ==
  /\ gate[v].state = "closed"
  /\ gate[v].out # day
  /\ day <= today
  /\ gate' = [gate EXCEPT ![v].out = day]
  /\ tank' = IF tank.bon = v /\ tank.status = "Gate_Out" THEN [tank EXCEPT !.out = day] ELSE tank
  /\ row' = sync(gate', tank', trail, row)
  /\ UNCHANGED <<today, trail, bill>>

save_bon_revision(v, day) ==
  /\ ~InvoicedVisit(v)
  /\ follow_bongkar(v, day) \/ follow_muat(v, day)

\* The bon's own form: the date may be changed after submit, unasked.
EditDateOnDesk(v, day) ==
  /\ DeskEdits
  /\ follow_bongkar(v, day) \/ follow_muat(v, day)

-----------------------------------------------------------------------------
(* Billing.                                                                *)

Bill(i, k, from, to) ==
  LET r == row[k]
      m == measure(r.in, r.out, r.until, from, to)
      moved == [row EXCEPT ![k].until = m.to, ![k].invoice = i]
  IN /\ ~bill[i].live
     /\ r.live
     /\ r.status # "Paid"
     /\ Running \/ r.out # 0
     /\ DayCount(m.from, m.to) > 0
     /\ bill' = [bill EXCEPT ![i] = [live |-> TRUE, key |-> k, prev |-> r.until,
                                     from |-> m.from, to |-> m.to]]
     /\ row' = sync(gate, tank, trail, moved)
     /\ UNCHANGED <<today, tank, trail, gate>>

LiveOn(k) == {i \in Invoice : bill[i].live /\ bill[i].key = k}

\* Giving back the whole visit instead of this invoice's part of it.
GiveBackAll(i) ==
  LET k == bill[i].key
      moved == [row EXCEPT ![k].until = 0, ![k].invoice = None]
  IN /\ bill[i].live
     /\ row[k].live => row[k].invoice \in {None, i}
     /\ NewestFirst => \A j \in LiveOn(k) : bill[j].to <= bill[i].to
     /\ bill' = [bill EXCEPT ![i] = NoBill]
     /\ row' = IF row[k].live THEN sync(gate, tank, trail, moved) ELSE row
     /\ UNCHANGED <<today, tank, trail, gate>>

\* Cancel, discard or delete: the watermark goes back to what it replaced,
\* unless the row names a later invoice.
GiveBack(i) ==
  LET k == bill[i].key
      moved == [row EXCEPT ![k].until = bill[i].prev, ![k].invoice = None]
  IN /\ bill[i].live
     /\ row[k].live => row[k].invoice \in {None, i}
     /\ NewestFirst => \A j \in LiveOn(k) : bill[j].to <= bill[i].to
     /\ bill' = [bill EXCEPT ![i] = NoBill]
     /\ row' = IF row[k].live THEN sync(gate, tank, trail, moved) ELSE row
     /\ UNCHANGED <<today, tank, trail, gate>>

\* A draft is picked again and keeps the visit: its own last day and its name
\* go back on the row, whatever was billed after it.  (A visit the pick drops
\* is given back.)
Repick(i) ==
  LET k == bill[i].key
      moved == [row EXCEPT ![k].until = bill[i].to, ![k].invoice = i]
  IN /\ bill[i].live
     /\ RepickNewest => \A j \in LiveOn(k) : bill[j].to <= bill[i].to
     /\ row' = IF row[k].live THEN sync(gate, tank, trail, moved) ELSE row
     /\ UNCHANGED <<today, tank, trail, gate, bill>>

\* The nightly sweep skips a tank that only a booking knows.
sync_all_present ==
  /\ Present
  /\ row' = sync(gate, tank, trail, row)
  /\ UNCHANGED <<today, tank, trail, gate, bill>>

sync_all ==
  /\ tank.status # "Booked"
  /\ row' = sync(gate, tank, trail, row)
  /\ UNCHANGED <<today, tank, trail, gate, bill>>

NextDay ==
  /\ today < Days
  /\ today' = today + 1
  /\ UNCHANGED <<tank, trail, gate, row, bill>>

Next ==
  \/ NextDay \/ sync_all \/ TurnStatus \/ reverse_bon_departures
  \/ \E d \in Day : mark_gate_out(d)
  \/ \E v \in Visit :
       \/ VoidArrival(v)
       \/ \E d \in Day : Arrive(v, d) \/ save_bon_revision(v, d) \/ EditDateOnDesk(v, d)
  \/ \E i \in Invoice :
       \/ GiveBack(i) \/ Repick(i)
       \/ \E k \in Key, from \in Day, to \in 1..today : Bill(i, k, from, to)

Spec == Init /\ [][Next]_vars

\* The scheduler runs the sweep every day.
FairSpec == Spec /\ WF_vars(sync_all)

-----------------------------------------------------------------------------
(* Properties.                                                             *)

\* No day of a stay is on two invoices that stand.  Two visits may share the
\* day one ends and the next begins; two rows of one visit may not.
NoDayTwice ==
  \A i, j \in Invoice :
    (/\ i # j
     /\ bill[i].live /\ bill[j].live
     /\ bill[i].key = bill[j].key \/ {bill[i].key[1], bill[j].key[1]} # {"visit"})
    => bill[i].to < bill[j].from \/ bill[j].to < bill[i].from

\* The watermark is the last day the standing invoices took, after any
\* billing, undoing, re-dating, voiding and pruning.
WatermarkAgrees ==
  \A k \in Key : row[k].live =>
    row[k].until = IF LiveOn(k) = {} THEN 0 ELSE Max({bill[i].to : i \in LiveOn(k)})

\* A row that names an invoice names one that stands and charges it, and is
\* billed up to that invoice's last day, in whatever order invoices were
\* undone and picked again.
LastNamed ==
  \A k \in Key : row[k].invoice # None =>
    LET b == bill[row[k].invoice]
    IN row[k].live /\ b.live /\ b.key = k /\ row[k].until = b.to

\* What a row shows as billed and as owing splits the charged part of its
\* stay: nothing is counted in both, nothing in neither.
DaysAddUp ==
  \A k \in Key : (row[k].live /\ k \in {p.key : p \in Periods(gate, tank, trail)}) =>
    row[k].billed + row[k].unbilled = MaxOf(0, row[k].stay - Free)

LedgerAgrees ==
  /\ \A p \in Periods(gate, tank, trail) :
       row[p.key].live /\ row[p.key].in = p.in /\ row[p.key].out = p.out
  /\ \A k \in Key : row[k].live =>
       row[k].until # 0 \/ row[k].invoice # None \/ \E p \in Periods(gate, tank, trail) : p.key = k

\* However often a best-effort write fails, the ledger of a tank the sweep
\* visits comes back to what the gate records say.
Heals == []<>(LedgerAgrees \/ tank.status = "Booked")

\* A tank's leaving closes its visit's row.
LeavingCloses ==
  [][\A v \in Visit : (tank.status = "In_Depot" /\ tank.bon = v /\ tank'.status = "Gate_Out"
                       /\ gate'[v].state = "closed")
       => row'[<<"visit", v>>].out = gate'[v].out]_vars

\* The days on an invoice are days the tank was here.
BilledInsideStay ==
  \A i \in Invoice : (bill[i].live /\ bill[i].key[1] = "visit") =>
    LET g == gate[bill[i].key[2]]
    IN g.in <= bill[i].from /\ (g.out # 0 => bill[i].to <= g.out)

\* A visit that is on an invoice does not lose its arrival.
BilledVisitStands ==
  \A i \in Invoice : (bill[i].live /\ bill[i].key[1] = "visit") => gate[bill[i].key[2]].state # "void"

\* Every day owed on a Paid visit is on an invoice.
PaidIsBilled ==
  \A k \in Key : (row[k].live /\ row[k].status = "Paid") =>
    \A d \in (row[k].in + Free)..last_billable_day(row[k].in, row[k].out, today) :
      \E i \in LiveOn(k) : d \in bill[i].from..bill[i].to

\* A voided arrival leaves no stay running or owing on the ledger.
NoGhostStay ==
  \A k \in Key : (row[k].live /\ LiveOn(k) = {}) =>
    tank.bon # 0 \/ \E v \in Visit : gate[v].state \in {"open", "closed"}
=============================================================================
