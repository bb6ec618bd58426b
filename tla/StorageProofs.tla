---------------------------- MODULE StorageProofs ----------------------------
(***************************************************************************)
(* The storage ledger against the invoices that take days off it, when a   *)
(* visit's are undone and picked again newest first: the invoices of a     *)
(* row form a chain, each beginning after the watermark it replaced, and   *)
(* the row's watermark is the chain's end.  However many syncs, re-dated   *)
(* bons and failed writes come in between, none of them moves a watermark. *)
(***************************************************************************)
EXTENDS StorageCharge, TLAPS

(* A day, or none.                                                         *)
MaybeDay == 0..Days
Standing == {"Berjalan", "Unpaid", "Partly Paid", "Paid"}

TankRec == [status : {"Booked", "In_Depot", "Gate_Out"}, in : MaybeDay, out : MaybeDay, bon : 0..MaxVisit]
Stay == [in : Day, out : MaybeDay]
GateRec == [state : {"none", "open", "closed", "void"}, in : MaybeDay, out : MaybeDay]
RowRec == [live : BOOLEAN, in : MaybeDay, out : MaybeDay, until : MaybeDay,
           invoice : Invoice \cup {None}, stay : Nat, unbilled : Nat, billed : Nat, status : Standing]
BillRec == [live : BOOLEAN, key : Key, prev : MaybeDay, from : MaybeDay, to : MaybeDay]

(* Two invoices on one row follow one another.                             *)
Follows(i, j) == bill[j].to <= bill[i].prev

(* An invoice takes days after the watermark it replaced, and that was the *)
(* end of one that still stands, or none.                                  *)
Links(i) ==
  /\ bill[i].prev < bill[i].from /\ bill[i].from <= bill[i].to
  /\ bill[i].prev # 0 => \E j \in LiveOn(bill[i].key) : bill[j].to = bill[i].prev
  /\ \A j \in LiveOn(bill[i].key) : j # i => Follows(i, j) \/ Follows(j, i)

Chained == \A i \in Invoice : bill[i].live => Links(i)

(* The watermark of a row is the end of its chain, and such a row stands.  *)
Watermarked(k) ==
  /\ row[k].until # 0 => row[k].live /\ \E i \in LiveOn(k) : row[k].until = bill[i].to
  /\ \A i \in LiveOn(k) : bill[i].to <= row[k].until

(* A tank that has had a gate record is billed by its visits.              *)
ByVisit ==
  Known => /\ \A k \in Key : row[k].live => k[1] = "visit"
           /\ \A i \in Invoice : bill[i].live => bill[i].key[1] = "visit"

Typed ==
  /\ today \in Day /\ tank \in TankRec /\ trail \in Seq(Stay) /\ gate \in [Visit -> GateRec]
  /\ row \in [Key -> RowRec] /\ bill \in [Invoice -> BillRec]

StorageInv == Typed /\ Chained /\ (\A k \in Key : Watermarked(k)) /\ ByVisit

Bounds == BoundAssumption /\ SwitchAssumption

-----------------------------------------------------------------------------
(* Days are days.                                                          *)
LEMMA BoundsAre == ASSUME Bounds
                   PROVE  MaxVisit \in Nat /\ Days \in Nat /\ MaxVisit > 0 /\ Days > 0 /\ Free \in Nat
BY DEF Bounds, BoundAssumption

LEMMA DaysAreDays ==
  ASSUME Bounds, today \in Day
  PROVE  /\ MaybeDay \subseteq Int /\ Day \subseteq MaybeDay /\ 0 \in MaybeDay /\ \A d \in MaybeDay : d # 0 => d \in Day
         /\ \A lo, hi \in Int : DayCount(lo, hi) \in Nat
         /\ \A in, out \in MaybeDay, cutoff \in Int : last_billable_day(in, out, cutoff) \in Int
BY BoundsAre DEF DayCount, MaxOf, MinOf, last_billable_day, Day, MaybeDay

(* A row the sync writes is a row, and keeps the watermark.                *)
LEMMA UpsertedIsRow ==
  ASSUME Bounds, today \in Day, NEW p, p.in \in MaybeDay, p.out \in MaybeDay, NEW r \in RowRec
  PROVE  Upserted(p, r) \in RowRec
<1> DEFINE last == last_billable_day(p.in, p.out, today)
           m == measure(p.in, p.out, r.until, p.in, last)
           unbilled == DayCount(m.from, m.to)
           billed == BilledDays(p.in, p.out, r.until)
<1>1. p.in \in Int /\ p.out \in Int /\ r.until \in Int /\ Free \in Int /\ today \in Int /\ r.until \in MaybeDay
      /\ r.invoice \in Invoice \cup {None}
  <2>1. r.until \in MaybeDay /\ r.invoice \in Invoice \cup {None}
    BY DEF RowRec
  <2>2. today \in Int
    BY BoundsAre DEF Day
  <2>3. \A d \in MaybeDay : d \in Int
    BY DaysAreDays
  <2> QED
    BY <2>1, <2>2, <2>3, BoundsAre
<1>2. last \in Int
  BY <1>1, DaysAreDays
<1>3. m.from \in Int /\ m.to \in Int
  <2>1. last_billable_day(p.in, p.out, last) \in Int
    BY <1>2, DaysAreDays
  <2> HIDE DEF last
  <2> QED
    BY <1>1, <1>2, <2>1 DEF measure, MaxOf, MinOf
<1>4. DayCount(p.in, last) \in Nat /\ unbilled \in Nat
  BY <1>1, <1>2, <1>3, DaysAreDays
<1>5. billed \in Nat
  <2>1. p.in + Free \in Int /\ MinOf(r.until, last_billable_day(p.in, p.out, today)) \in Int
    BY <1>1, <1>2 DEF MinOf
  <2> QED
    BY <2>1, DaysAreDays DEF BilledDays
<1>6. StatusOf(p.out, unbilled, billed) \in Standing
  BY DEF StatusOf, Standing
<1>7. Upserted(p, r) = [live |-> TRUE, in |-> p.in, out |-> p.out, until |-> r.until, invoice |-> r.invoice,
                        stay |-> DayCount(p.in, last), unbilled |-> unbilled, billed |-> billed,
                        status |-> StatusOf(p.out, unbilled, billed)]
  BY DEF Upserted
<1> HIDE DEF last, m, unbilled, billed
<1> QED
  BY <1>1, <1>4, <1>5, <1>6, <1>7 DEF RowRec

LEMMA SyncKeepsWatermarks ==
  ASSUME NEW g, NEW t, NEW s, NEW rows, NEW k \in Key
  PROVE  /\ sync(g, t, s, rows)[k].until = rows[k].until
         /\ sync(g, t, s, rows)[k].invoice = rows[k].invoice
         /\ (rows[k].until # 0 \/ rows[k].invoice # None) /\ rows[k].live => sync(g, t, s, rows)[k].live
<1> DEFINE ps == Periods(g, t, s)
<1>1. CASE \E p \in ps : p.key = k
  <2>1. sync(g, t, s, rows)[k] = Upserted(CHOOSE p \in ps : p.key = k, rows[k])
    BY <1>1 DEF sync
  <2>2. \A p, r : Upserted(p, r).until = r.until /\ Upserted(p, r).invoice = r.invoice /\ Upserted(p, r).live
    BY DEF Upserted
  <2> QED
    BY <2>1, <2>2
<1>2. CASE ~\E p \in ps : p.key = k
  <2>1. sync(g, t, s, rows)[k] = Pruned(rows[k])
    BY <1>2 DEF sync
  <2> QED
    BY <2>1 DEF Pruned, NoRow
<1> QED
  BY <1>1, <1>2

(* The stays the sync reads lie within the days.                           *)
LEMMA PeriodsAreStays ==
  ASSUME Bounds, NEW g \in [Visit -> GateRec], NEW t \in TankRec, NEW s \in Seq(Stay),
         NEW p \in Periods(g, t, s)
  PROVE  p.in \in MaybeDay /\ p.out \in MaybeDay
<1>1. CASE Known \/ Recorded(g) # {}
  BY <1>1 DEF Periods, Recorded, GateRec
<1>2. CASE ~(Known \/ Recorded(g) # {})
  <2>1. s # <<>>
    BY <1>2 DEF Periods
  <2>2. WithMaster(s, t) \in Seq(Stay)
    <3> DEFINE n == Len(s)
               before == IF n > 1 THEN s[n - 1].out ELSE 0
               in == IF t.in # 0 /\ t.in > before THEN t.in ELSE s[n].in
               out == IF t.status = "Gate_Out" /\ t.out >= in THEN t.out ELSE s[n].out
    <3>1. n \in 1..Len(s) /\ s[n] \in Stay /\ DOMAIN s = 1..Len(s)
      BY <2>1
    <3>2. in \in Day /\ out \in MaybeDay
      <4>1. t.in \in MaybeDay /\ t.out \in MaybeDay /\ s[n].in \in Day /\ s[n].out \in MaybeDay
        BY <3>1 DEF TankRec, Stay
      <4>2. t.in # 0 => t.in \in Day
        BY <4>1, BoundsAre DEF Day, MaybeDay
      <4> QED
        BY <4>1, <4>2
    <3>3. [in |-> in, out |-> out] \in Stay
      BY <3>2 DEF Stay
    <3>4. WithMaster(s, t) = IF out # 0 /\ out < in THEN s ELSE [s EXCEPT ![n] = [in |-> in, out |-> out]]
      BY DEF WithMaster
    <3> HIDE DEF n, in, out, before
    <3> QED
      BY <3>1, <3>3, <3>4
  <2>3. PICK n \in DOMAIN WithMaster(s, t) :
          p.in = WithMaster(s, t)[n].in /\ p.out = WithMaster(s, t)[n].out
    BY <1>2, <2>1 DEF Periods
  <2>4. WithMaster(s, t)[n] \in Stay
    BY <2>2, <2>3
  <2> QED
    BY <2>3, <2>4, BoundsAre DEF Stay, Day, MaybeDay
<1> QED
  BY <1>1, <1>2

LEMMA NoRowIsRow == ASSUME Bounds PROVE NoRow \in RowRec
<1>1. 0 \in MaybeDay /\ 0 \in Nat /\ "Berjalan" \in Standing /\ None \in Invoice \cup {None} /\ FALSE \in BOOLEAN
  BY BoundsAre DEF MaybeDay, Standing
<1> QED
  BY <1>1 DEF NoRow, RowRec

LEMMA SyncIsTyped ==
  ASSUME Bounds, today \in Day, NEW g \in [Visit -> GateRec], NEW t \in TankRec, NEW s \in Seq(Stay),
         NEW rows \in [Key -> RowRec]
  PROVE  sync(g, t, s, rows) \in [Key -> RowRec]
<1> DEFINE ps == Periods(g, t, s)
<1>1. ASSUME NEW k \in Key PROVE sync(g, t, s, rows)[k] \in RowRec
  <2>1. CASE \E p \in ps : p.key = k
    <3> DEFINE q == CHOOSE p \in ps : p.key = k
    <3>1. q \in ps
      BY <2>1
    <3>2. q.in \in MaybeDay /\ q.out \in MaybeDay
      BY <3>1, PeriodsAreStays
    <3>3. sync(g, t, s, rows)[k] = Upserted(q, rows[k])
      BY <2>1 DEF sync
    <3> HIDE DEF q
    <3> QED
      BY <3>2, <3>3, UpsertedIsRow
  <2>2. CASE ~\E p \in ps : p.key = k
    <3>1. sync(g, t, s, rows)[k] = Pruned(rows[k])
      BY <2>2 DEF sync
    <3>2. NoRow \in RowRec
      BY NoRowIsRow
    <3> QED
      BY <3>1, <3>2 DEF Pruned
  <2> QED
    BY <2>1, <2>2
<1>2. sync(g, t, s, rows) = [k \in Key |-> sync(g, t, s, rows)[k]]
  BY DEF sync
<1> QED
  BY <1>1, <1>2

(* With a gate record the sync knows visits only.                          *)
LEMMA SyncByVisit ==
  ASSUME Known, NEW g, NEW t, NEW s, NEW rows, NEW k \in Key, k[1] # "visit", ~rows[k].live
  PROVE  ~sync(g, t, s, rows)[k].live
<1>1. ~\E p \in Periods(g, t, s) : p.key = k
  BY DEF Periods
<1>2. sync(g, t, s, rows)[k] = Pruned(rows[k])
  BY <1>1 DEF sync
<1> QED
  BY <1>2 DEF Pruned, NoRow

(* A step that bills nothing and gives nothing back.                       *)
Unbilled ==
  /\ bill' = bill
  /\ \A k \in Key : /\ row'[k].until = row[k].until /\ row'[k].invoice = row[k].invoice
                    /\ (row[k].until # 0 \/ row[k].invoice # None) /\ row[k].live => row'[k].live
                    /\ Known /\ k[1] # "visit" /\ ~row[k].live => ~row'[k].live

(* A step that moves no watermark and no invoice keeps the chain.          *)
LEMMA StillKeeps ==
  ASSUME StorageInv, bill' = bill,
         \A k \in Key : /\ row'[k].until = row[k].until
                        /\ row[k].until # 0 /\ row[k].live => row'[k].live
                        /\ Known /\ k[1] # "visit" /\ ~row[k].live => ~row'[k].live
  PROVE  Chained' /\ (\A k \in Key : Watermarked(k)') /\ ByVisit'
<1>1. \A k \in Key : LiveOn(k)' = LiveOn(k)
  BY DEF LiveOn
<1>2. Chained'
  BY DEF StorageInv, Chained, Links, Follows, LiveOn
<1>3. ASSUME NEW k \in Key PROVE Watermarked(k)'
  <2>1. Watermarked(k) /\ LiveOn(k)' = LiveOn(k)
    BY <1>1 DEF StorageInv
  <2>2. bill' = bill /\ row'[k].until = row[k].until /\ (row[k].until # 0 /\ row[k].live => row'[k].live)
    OBVIOUS
  <2> QED
    BY <2>1, <2>2 DEF Watermarked
<1>4. ByVisit'
  BY DEF StorageInv, ByVisit
<1> QED
  BY <1>2, <1>3, <1>4

LEMMA UnbilledKeeps ==
  ASSUME StorageInv, Unbilled
  PROVE  Chained' /\ (\A k \in Key : Watermarked(k)') /\ ByVisit'
BY StillKeeps DEF Unbilled

LEMMA SyncIsUnbilled ==
  ASSUME bill' = bill, row' = row \/ \E g, t, s : row' = sync(g, t, s, row)
  PROVE  Unbilled
<1>1. CASE row' = row
  BY <1>1 DEF Unbilled
<1>2. CASE \E g, t, s : row' = sync(g, t, s, row)
  <2>1. PICK g, t, s : row' = sync(g, t, s, row)
    BY <1>2
  <2>2. ASSUME NEW k \in Key
        PROVE  /\ row'[k].until = row[k].until /\ row'[k].invoice = row[k].invoice
               /\ (row[k].until # 0 \/ row[k].invoice # None) /\ row[k].live => row'[k].live
               /\ Known /\ k[1] # "visit" /\ ~row[k].live => ~row'[k].live
    <3>1. /\ row'[k].until = row[k].until /\ row'[k].invoice = row[k].invoice
          /\ (row[k].until # 0 \/ row[k].invoice # None) /\ row[k].live => row'[k].live
      BY <2>1, SyncKeepsWatermarks
    <3>2. Known /\ k[1] # "visit" /\ ~row[k].live => ~row'[k].live
      BY <2>1, SyncByVisit
    <3> QED
      BY <3>1, <3>2
  <2> QED
    BY <2>2 DEF Unbilled
<1> QED
  BY <1>1, <1>2

(* An invoice takes the days that follow the row's watermark.              *)
LEMMA BilledKeeps ==
  ASSUME Bounds, StorageInv, NEW i \in Invoice, NEW k \in Key, NEW from \in Day, NEW to \in Day,
         ~bill[i].live, row[k].live, row[k].until < from, from <= to,
         bill' = [bill EXCEPT ![i] = [live |-> TRUE, key |-> k, prev |-> row[k].until, from |-> from, to |-> to]],
         \A q \in Key : /\ row'[q].until = IF q = k THEN to ELSE row[q].until
                        /\ row'[q].until # 0 /\ row[q].live => row'[q].live
                        /\ Known /\ q[1] # "visit" /\ ~row[q].live => ~row'[q].live
  PROVE  bill' \in [Invoice -> BillRec] /\ Chained' /\ (\A q \in Key : Watermarked(q)') /\ ByVisit'
<1>1. /\ \A d \in MaybeDay : d \in Int /\ 0 <= d
      /\ \A q \in Key : row[q].until \in MaybeDay
      /\ \A j \in Invoice : bill[j].key \in Key /\ bill[j].prev \in MaybeDay /\ bill[j].from \in MaybeDay /\ bill[j].to \in MaybeDay
      /\ from \in MaybeDay /\ to \in MaybeDay /\ to # 0
  <2>1. \A q \in Key : row[q] \in RowRec
    BY DEF StorageInv, Typed
  <2>2. \A j \in Invoice : bill[j] \in BillRec
    BY DEF StorageInv, Typed
  <2>3. \A d \in MaybeDay : d \in Int /\ 0 <= d
    BY BoundsAre DEF MaybeDay
  <2>4. from \in MaybeDay /\ to \in MaybeDay /\ to # 0
    BY BoundsAre DEF MaybeDay, Day
  <2>5. \A q \in Key : row[q].until \in MaybeDay
    BY <2>1 DEF RowRec
  <2>6. \A j \in Invoice : bill[j].key \in Key /\ bill[j].prev \in MaybeDay /\ bill[j].from \in MaybeDay /\ bill[j].to \in MaybeDay
    BY <2>2 DEF BillRec
  <2> QED
    BY <2>3, <2>4, <2>5, <2>6
<1>2. /\ bill'[i].live /\ bill'[i].key = k /\ bill'[i].prev = row[k].until /\ bill'[i].from = from /\ bill'[i].to = to
      /\ \A j \in Invoice : j # i => bill'[j] = bill[j]
  BY DEF StorageInv, Typed
<1>3. /\ \A q \in Key : LiveOn(q)' = IF q = k THEN LiveOn(k) \cup {i} ELSE LiveOn(q)
      /\ \A q \in Key : i \notin LiveOn(q) /\ LiveOn(q) \subseteq Invoice
  BY <1>2 DEF LiveOn
<1>4. \A j \in LiveOn(k) : bill[j].to <= row[k].until
  BY DEF StorageInv, Watermarked
<1>5. row[k].until # 0 => \E j \in LiveOn(k) : row[k].until = bill[j].to
  BY DEF StorageInv, Watermarked
<1>6. \A q \in Key : row'[q].until = IF q = k THEN to ELSE row[q].until
  OBVIOUS
<1>7. bill' \in [Invoice -> BillRec]
  <2>1. [live |-> TRUE, key |-> k, prev |-> row[k].until, from |-> from, to |-> to] \in BillRec
    BY <1>1 DEF BillRec
  <2> QED
    BY <2>1 DEF StorageInv, Typed
<1>8. ASSUME NEW j \in Invoice, bill'[j].live PROVE Links(j)'
  <2>1. CASE j = i
    <3>1. bill'[j].prev < bill'[j].from /\ bill'[j].from <= bill'[j].to
      BY <2>1, <1>2
    <3>2. bill'[j].prev # 0 => \E l \in LiveOn(k) \cup {i} : bill'[l].to = bill'[j].prev
      BY <2>1, <1>2, <1>3, <1>5
    <3>3. \A l \in LiveOn(k) \cup {i} : l # j => bill'[l].to <= bill'[j].prev
      BY <2>1, <1>2, <1>3, <1>4
    <3> QED
      BY <2>1, <1>2, <1>3, <3>1, <3>2, <3>3 DEF Links, Follows
  <2>2. CASE j # i
    <3>1. PICK q \in Key : q = bill[j].key
      BY <1>1
    <3>2. bill'[j] = bill[j] /\ bill[j].live /\ j \in LiveOn(q)
      BY <1>8, <2>2, <1>2, <3>1 DEF LiveOn
    <3>3. /\ bill[j].prev < bill[j].from /\ bill[j].from <= bill[j].to
          /\ bill[j].prev # 0 => \E l \in LiveOn(q) : bill[l].to = bill[j].prev
          /\ \A l \in LiveOn(q) : l # j => bill[l].to <= bill[j].prev \/ bill[j].to <= bill[l].prev
      BY <3>1, <3>2 DEF StorageInv, Chained, Links, Follows
    <3>4. bill[j].prev # 0 => \E l \in LiveOn(q)' : bill'[l].to = bill[j].prev
      <4>1. \A l \in LiveOn(q) : l \in LiveOn(q)' /\ bill'[l] = bill[l]
        BY <1>2, <1>3
      <4> QED
        BY <3>3, <4>1
    <3>5. ASSUME NEW l \in LiveOn(q)', l # j
          PROVE  bill'[l].to <= bill[j].prev \/ bill[j].to <= bill'[l].prev
      <4>1. CASE l = i
        <5>1. q = k
          BY <4>1, <1>3
        <5>2. bill[j].to <= row[k].until
          BY <5>1, <3>2, <1>4
        <5> QED
          BY <5>2, <4>1, <1>2
      <4>2. CASE l # i
        <5>1. l \in LiveOn(q) /\ bill'[l] = bill[l]
          BY <4>2, <1>2, <1>3
        <5> QED
          BY <5>1, <3>3, <3>5
      <4> QED
        BY <4>1, <4>2
    <3>6. bill'[j].key = q
      BY <3>1, <3>2
    <3> QED
      BY <3>2, <3>3, <3>4, <3>5, <3>6 DEF Links, Follows, LiveOn
  <2> QED
    BY <2>1, <2>2
<1>9. ASSUME NEW q \in Key PROVE Watermarked(q)'
  <2>1. CASE q = k
    <3>1. row'[q].until = to /\ (row'[q].until # 0 => row'[q].live)
      BY <2>1, <1>6
    <3>2. i \in LiveOn(q)' /\ bill'[i].to = to
      BY <2>1, <1>2, <1>3
    <3>3. ASSUME NEW l \in LiveOn(q)' PROVE bill'[l].to <= to
      <4>1. CASE l = i
        BY <4>1, <1>1, <1>2
      <4>2. CASE l # i
        <5>1. l \in LiveOn(k) /\ bill'[l] = bill[l] /\ l \in Invoice
          BY <4>2, <2>1, <1>2, <1>3
        <5>2. bill[l].to <= row[k].until
          BY <5>1, <1>4
        <5> QED
          BY <5>1, <5>2, <1>1
      <4> QED
        BY <4>1, <4>2
    <3> QED
      BY <3>1, <3>2, <3>3 DEF Watermarked
  <2>2. CASE q # k
    <3>1. LiveOn(q)' = LiveOn(q) /\ row'[q].until = row[q].until /\ (row'[q].until # 0 /\ row[q].live => row'[q].live)
      BY <2>2, <1>3, <1>6
    <3>2. \A l \in LiveOn(q) : bill'[l] = bill[l]
      BY <1>2, <1>3
    <3>3. Watermarked(q)
      BY DEF StorageInv
    <3> QED
      BY <3>1, <3>2, <3>3 DEF Watermarked
  <2> QED
    BY <2>1, <2>2
<1>10. ByVisit'
  <2>1. Known => \A q \in Key : row[q].live => q[1] = "visit"
    BY DEF StorageInv, ByVisit
  <2>2. Known => \A q \in Key : row'[q].live => q[1] = "visit"
    BY <2>1
  <2>3. Known => \A j \in Invoice : bill'[j].live => bill'[j].key[1] = "visit"
    BY <2>1, <1>2 DEF StorageInv, ByVisit
  <2> QED
    BY <2>2, <2>3 DEF ByVisit
<1> QED
  BY <1>7, <1>8, <1>9, <1>10 DEF Chained

(* The last invoice of a row gives its days back: the chain ends before.   *)
GivenBack(i, k) ==
  /\ bill[i].live /\ bill[i].key = k /\ \A j \in LiveOn(k) : bill[j].to <= bill[i].to
  /\ bill' = [bill EXCEPT ![i] = NoBill]
  /\ \A q \in Key : /\ row'[q].until = IF q = k THEN bill[i].prev ELSE row[q].until
                    /\ row'[q].until # 0 /\ row[q].live => row'[q].live
                    /\ Known /\ q[1] # "visit" /\ ~row[q].live => ~row'[q].live

LEMMA GivenBackKeeps ==
  ASSUME Bounds, StorageInv, NEW i \in Invoice, NEW k \in Key, GivenBack(i, k)
  PROVE  bill' \in [Invoice -> BillRec] /\ Chained' /\ (\A q \in Key : Watermarked(q)') /\ ByVisit'
<1>0. /\ bill[i].live /\ bill[i].key = k /\ \A j \in LiveOn(k) : bill[j].to <= bill[i].to
      /\ bill' = [bill EXCEPT ![i] = NoBill]
      /\ \A q \in Key : /\ row'[q].until = IF q = k THEN bill[i].prev ELSE row[q].until
                        /\ row'[q].until # 0 /\ row[q].live => row'[q].live
                        /\ Known /\ q[1] # "visit" /\ ~row[q].live => ~row'[q].live
  BY DEF GivenBack
<1> USE <1>0
<1>1. /\ \A d \in MaybeDay : d \in Int /\ 0 <= d
      /\ \A j \in Invoice : bill[j].key \in Key /\ bill[j].prev \in MaybeDay /\ bill[j].from \in MaybeDay /\ bill[j].to \in MaybeDay
  <2>1. \A j \in Invoice : bill[j] \in BillRec
    BY DEF StorageInv, Typed
  <2>2. \A d \in MaybeDay : d \in Int /\ 0 <= d
    BY BoundsAre DEF MaybeDay
  <2>3. \A j \in Invoice : bill[j].key \in Key /\ bill[j].prev \in MaybeDay /\ bill[j].from \in MaybeDay /\ bill[j].to \in MaybeDay
    BY <2>1 DEF BillRec
  <2> QED
    BY <2>2, <2>3
<1>2. bill'[i] = NoBill /\ ~bill'[i].live /\ \A j \in Invoice : j # i => bill'[j] = bill[j]
  BY DEF StorageInv, Typed, NoBill
<1>3. /\ \A q \in Key : LiveOn(q)' = LiveOn(q) \ {i}
      /\ \A q \in Key : LiveOn(q) \subseteq Invoice /\ (q # k => i \notin LiveOn(q))
      /\ i \in LiveOn(k)
  BY <1>2 DEF LiveOn
<1>4. \A j \in LiveOn(k) : /\ bill[j].prev < bill[j].from /\ bill[j].from <= bill[j].to
                           /\ bill[j].prev # 0 => \E l \in LiveOn(k) : bill[l].to = bill[j].prev
                           /\ \A l \in LiveOn(k) : l # j => bill[l].to <= bill[j].prev \/ bill[j].to <= bill[l].prev
  BY DEF StorageInv, Chained, Links, Follows, LiveOn
<1>5. \A j \in LiveOn(k) : bill[j].prev < bill[j].to /\ bill[j].to # 0 /\ bill[j].to \in Int /\ bill[j].prev \in Int
  BY <1>1, <1>3, <1>4
<1>6. \A j \in LiveOn(k) : j # i => bill[j].to <= bill[i].prev
  <2>1. ASSUME NEW j \in LiveOn(k), j # i PROVE bill[j].to <= bill[i].prev
    <3>1. bill[j].to <= bill[i].prev \/ bill[i].to <= bill[j].prev
      BY <1>3, <1>4, <2>1
    <3>2. bill[j].prev < bill[j].to /\ bill[j].to <= bill[i].to
      BY <1>5
    <3>3. bill[i].to \in Int /\ bill[j].to \in Int /\ bill[j].prev \in Int
      BY <1>3, <1>5
    <3> QED
      BY <3>1, <3>2, <3>3
  <2> QED
    BY <2>1
<1>7. bill[i].prev # 0 => \E j \in LiveOn(k) \ {i} : bill[j].to = bill[i].prev
  BY <1>3, <1>4, <1>5
<1>8. bill' \in [Invoice -> BillRec]
  <2>1. 0 \in MaybeDay /\ FALSE \in BOOLEAN
    BY BoundsAre DEF MaybeDay
  <2>2. <<"visit", 1>> \in Key
    BY BoundsAre DEF Key, Visit
  <2>3. NoBill \in BillRec
    BY <2>1, <2>2 DEF NoBill, BillRec
  <2> QED
    BY <2>3 DEF StorageInv, Typed
<1>9. ASSUME NEW j \in Invoice, bill'[j].live PROVE Links(j)'
  <2>1. PICK q \in Key : q = bill[j].key
    BY <1>1
  <2>2. j # i /\ bill'[j] = bill[j] /\ bill[j].live /\ j \in LiveOn(q)
    BY <1>9, <1>2, <2>1 DEF LiveOn
  <2>3. /\ bill[j].prev < bill[j].from /\ bill[j].from <= bill[j].to
        /\ bill[j].prev # 0 => \E l \in LiveOn(q) : bill[l].to = bill[j].prev
        /\ \A l \in LiveOn(q) : l # j => bill[l].to <= bill[j].prev \/ bill[j].to <= bill[l].prev
    BY <2>1, <2>2 DEF StorageInv, Chained, Links, Follows
  <2>4. ASSUME NEW l \in LiveOn(q), bill[l].to = bill[j].prev PROVE l # i
    <3>1. CASE q = k
      <4>1. bill[j].prev < bill[j].to /\ bill[j].to <= bill[i].prev /\ bill[i].prev < bill[i].to
        BY <3>1, <2>2, <1>3, <1>5, <1>6
      <4>2. bill[j].prev \in Int /\ bill[j].to \in Int /\ bill[i].prev \in Int /\ bill[i].to \in Int
        BY <3>1, <2>2, <1>3, <1>5
      <4>3. bill[i].to # bill[j].prev
        BY <4>1, <4>2
      <4> QED
        BY <4>3, <2>4
    <3>2. CASE q # k
      BY <3>2, <1>3
    <3> QED
      BY <3>1, <3>2
  <2>5. bill[j].prev # 0 => \E l \in LiveOn(q)' : bill'[l].to = bill[j].prev
    <3>1. ASSUME bill[j].prev # 0 PROVE \E l \in LiveOn(q)' : bill'[l].to = bill[j].prev
      <4>1. PICK l \in LiveOn(q) : bill[l].to = bill[j].prev
        BY <3>1, <2>3
      <4>2. l # i /\ l \in Invoice
        BY <4>1, <2>4, <1>3
      <4>3. l \in LiveOn(q)' /\ bill'[l] = bill[l]
        BY <4>2, <1>2, <1>3
      <4> QED
        BY <4>1, <4>3
    <3> QED
      BY <3>1
  <2>6. \A l \in LiveOn(q)' : l \in LiveOn(q) /\ bill'[l] = bill[l]
    BY <1>2, <1>3
  <2>7. \A l \in LiveOn(q)' : l # j => bill'[l].to <= bill[j].prev \/ bill[j].to <= bill'[l].prev
    BY <2>3, <2>6
  <2>8. bill'[j].key = q
    BY <2>1, <2>2
  <2> QED
    BY <2>2, <2>3, <2>5, <2>7, <2>8 DEF Links, Follows, LiveOn
<1>10. ASSUME NEW q \in Key PROVE Watermarked(q)'
  <2>1. \A l \in LiveOn(q)' : l \in LiveOn(q) /\ l # i /\ bill'[l] = bill[l]
    BY <1>2, <1>3
  <2>2. row'[q].until = IF q = k THEN bill[i].prev ELSE row[q].until
    OBVIOUS
  <2>3. (row[q].until # 0 => row[q].live) /\ (row'[q].until # 0 /\ row[q].live => row'[q].live)
    BY DEF StorageInv, Watermarked
  <2>4. CASE q = k
    <3>1. row[q].live
      <4>1. bill[i].to <= row[q].until /\ bill[i].to # 0 /\ row[q].until \in MaybeDay /\ bill[i].to \in MaybeDay
        <5>1. row[q] \in RowRec
          BY DEF StorageInv, Typed
        <5> QED
          BY <5>1, <2>4, <1>1, <1>3, <1>5 DEF StorageInv, Watermarked, RowRec
      <4> QED
        BY <4>1, <2>3, <1>1
    <3>2. \A l \in LiveOn(q)' : bill'[l].to <= row'[q].until
      BY <2>1, <2>2, <2>4, <1>6
    <3>3. row'[q].until # 0 => \E l \in LiveOn(q)' : bill'[l].to = row'[q].until
      <4>1. \A l \in LiveOn(k) \ {i} : l \in LiveOn(q)' /\ bill'[l] = bill[l]
        BY <2>4, <1>2, <1>3
      <4> QED
        BY <4>1, <2>2, <2>4, <1>7
    <3> QED
      BY <3>1, <3>2, <3>3, <2>3 DEF Watermarked
  <2>5. CASE q # k
    <3>1. row'[q].until = row[q].until
      BY <2>2, <2>5
    <3>4. LiveOn(q)' = LiveOn(q)
      <4>1. LiveOn(q)' = LiveOn(q) \ {i} /\ i \notin LiveOn(q)
        BY <2>5, <1>3
      <4> QED
        BY <4>1
    <3>2. Watermarked(q)
      BY DEF StorageInv
    <3> QED
      BY <3>1, <3>2, <3>4, <2>1, <2>3 DEF Watermarked
  <2> QED
    BY <2>4, <2>5
<1>11. ByVisit'
  <2>1. Known => \A q \in Key : row[q].live => q[1] = "visit"
    BY DEF StorageInv, ByVisit
  <2>2. Known => \A q \in Key : row'[q].live => q[1] = "visit"
    BY <2>1
  <2>3. Known => \A j \in Invoice : bill'[j].live => bill'[j].key[1] = "visit"
    BY <1>2 DEF StorageInv, ByVisit
  <2> QED
    BY <2>2, <2>3 DEF ByVisit
<1> QED
  BY <1>8, <1>9, <1>10, <1>11 DEF Chained

-----------------------------------------------------------------------------
(* Every step.                                                             *)

LEMMA TrailsAreStays ==
  ASSUME Bounds, today \in Day, NEW s \in Seq(Stay)
  PROVE  Opened(s) \in Seq(Stay) /\ Closed(s) \in Seq(Stay)
<1>1. today \in MaybeDay /\ 0 \in MaybeDay
  BY BoundsAre DEF Day, MaybeDay
<1>2. Opened(s) \in Seq(Stay)
  <2>1. [in |-> today, out |-> 0] \in Stay
    BY <1>1 DEF Stay
  <2> QED
    BY <2>1 DEF Opened
<1>3. ASSUME s # <<>> PROVE [s EXCEPT ![Len(s)].out = today] \in Seq(Stay)
  <2>1. Len(s) \in 1..Len(s) /\ s[Len(s)] \in Stay
    BY <1>3
  <2>2. [s[Len(s)] EXCEPT !.out = today] \in Stay
    BY <2>1, <1>1 DEF Stay
  <2>3. [s EXCEPT ![Len(s)].out = today] = [s EXCEPT ![Len(s)] = [s[Len(s)] EXCEPT !.out = today]]
    BY <2>1
  <2> QED
    BY <2>1, <2>2, <2>3
<1> QED
  BY <1>2, <1>3 DEF Closed

(* What is billed lies after the watermark, within the days.               *)
LEMMA MeasuredDays ==
  ASSUME Bounds, today \in Day, NEW in \in MaybeDay, NEW out \in MaybeDay, NEW until \in MaybeDay,
         NEW from \in Day, NEW to \in 1..today,
         DayCount(measure(in, out, until, from, to).from, measure(in, out, until, from, to).to) > 0
  PROVE  LET m == measure(in, out, until, from, to)
         IN  m.from \in Day /\ m.to \in Day /\ until < m.from /\ m.from <= m.to
<1> DEFINE last == last_billable_day(in, out, to)
           chargeFrom == IF until = 0 THEN in + Free ELSE MaxOf(in + Free, until + 1)
           m == measure(in, out, until, from, to)
<1>1. /\ in \in Int /\ out \in Int /\ until \in Int /\ from \in Int /\ to \in Int
      /\ today \in Int /\ Free \in Int /\ Days \in Int
      /\ from >= 1 /\ to <= today /\ today <= Days /\ until >= 0
  BY BoundsAre DEF MaybeDay, Day
<1>2. last \in Int
  BY <1>1, DaysAreDays
<1>3. m.from = MaxOf(chargeFrom, from) /\ m.to = MinOf(last, to)
  BY DEF measure
<1>4. chargeFrom \in Int /\ (until # 0 => chargeFrom > until)
  BY <1>1 DEF MaxOf
<1> HIDE DEF last, chargeFrom, m
<1>5. m.from \in Int /\ m.to \in Int /\ m.from >= from /\ m.from >= chargeFrom /\ m.to <= to
  BY <1>1, <1>2, <1>3, <1>4 DEF MaxOf, MinOf
<1>6. m.from <= m.to
  <2>1. DayCount(m.from, m.to) > 0
    BY DEF m
  <2> QED
    BY <2>1, <1>5 DEF DayCount, MaxOf
<1>7. m.from \in Day /\ m.to \in Day /\ until < m.from /\ m.from <= m.to
  BY <1>1, <1>4, <1>5, <1>6 DEF Day
<1> QED
  BY <1>7 DEF m

LEMMA NoBillIsBill == ASSUME Bounds PROVE NoBill \in BillRec
<1>1. 0 \in MaybeDay /\ FALSE \in BOOLEAN
  BY BoundsAre DEF MaybeDay
<1>2. <<"visit", 1>> \in Key
  BY BoundsAre DEF Key, Visit
<1> QED
  BY <1>1, <1>2 DEF NoBill, BillRec

(* A row whose watermark moves is a row.                                   *)
Moved(rows, k, d, i) == [rows EXCEPT ![k].until = d, ![k].invoice = i]

LEMMA MovedIsRow ==
  ASSUME NEW rows \in [Key -> RowRec], NEW k \in Key, NEW d \in MaybeDay, NEW i \in Invoice \cup {None}
  PROVE  /\ Moved(rows, k, d, i) \in [Key -> RowRec]
         /\ \A q \in Key : /\ Moved(rows, k, d, i)[q].until = (IF q = k THEN d ELSE rows[q].until)
                           /\ Moved(rows, k, d, i)[q].invoice = (IF q = k THEN i ELSE rows[q].invoice)
                           /\ Moved(rows, k, d, i)[q].live = rows[q].live
<1>1. rows[k] \in RowRec
  OBVIOUS
<1> DEFINE r == [[rows[k] EXCEPT !.until = d] EXCEPT !.invoice = i]
<1>2. r \in RowRec /\ r.until = d /\ r.invoice = i /\ r.live = rows[k].live
  BY <1>1 DEF RowRec
<1>3. Moved(rows, k, d, i) = [rows EXCEPT ![k] = r]
  BY <1>1 DEF Moved
<1> HIDE DEF r
<1> QED
  BY <1>2, <1>3

LEMMA BillKeeps ==
  ASSUME Bounds, StorageInv, NEW i \in Invoice, NEW k \in Key, NEW from \in Day, NEW to \in 1..today,
         Bill(i, k, from, to)
  PROVE  StorageInv'
<1> DEFINE r == row[k]
           m == measure(r.in, r.out, r.until, from, to)
           moved == [row EXCEPT ![k].until = m.to, ![k].invoice = i]
<1>1. r \in RowRec /\ r.in \in MaybeDay /\ r.out \in MaybeDay /\ r.until \in MaybeDay
  <2>1. r \in RowRec
    BY DEF StorageInv, Typed
  <2> QED
    BY <2>1 DEF RowRec
<1>2. /\ ~bill[i].live /\ r.live /\ DayCount(m.from, m.to) > 0
      /\ bill' = [bill EXCEPT ![i] = [live |-> TRUE, key |-> k, prev |-> r.until, from |-> m.from, to |-> m.to]]
      /\ row' = sync(gate, tank, trail, moved)
      /\ UNCHANGED <<today, tank, trail, gate>>
  BY DEF Bill
<1>3. today \in Day /\ tank \in TankRec /\ trail \in Seq(Stay) /\ gate \in [Visit -> GateRec] /\ row \in [Key -> RowRec]
  BY DEF StorageInv, Typed
<1>4. m.from \in Day /\ m.to \in Day /\ r.until < m.from /\ m.from <= m.to
  BY <1>1, <1>2, <1>3, MeasuredDays
<1>5. m.to \in MaybeDay
  BY <1>4, DaysAreDays, <1>3
<1> HIDE DEF m
<1>6. moved = Moved(row, k, m.to, i) /\ i \in Invoice \cup {None}
  BY DEF Moved
<1> HIDE DEF moved
<1>7. moved \in [Key -> RowRec] /\ \A q \in Key : moved[q].until = (IF q = k THEN m.to ELSE row[q].until) /\ moved[q].live = row[q].live
  BY <1>3, <1>5, <1>6, MovedIsRow
<1>8. row' \in [Key -> RowRec]
  BY <1>2, <1>3, <1>7, SyncIsTyped
<1>9. ASSUME NEW q \in Key
      PROVE  /\ row'[q].until = IF q = k THEN m.to ELSE row[q].until
             /\ row'[q].until # 0 /\ row[q].live => row'[q].live
             /\ Known /\ q[1] # "visit" /\ ~row[q].live => ~row'[q].live
  <2>1. row'[q].until = moved[q].until /\ (moved[q].until # 0 /\ moved[q].live => row'[q].live)
    BY <1>2, SyncKeepsWatermarks
  <2>2. Known /\ q[1] # "visit" /\ ~moved[q].live => ~row'[q].live
    BY <1>2, SyncByVisit
  <2> QED
    BY <2>1, <2>2, <1>7
<1>10. bill' \in [Invoice -> BillRec] /\ Chained' /\ (\A q \in Key : Watermarked(q)') /\ ByVisit'
  <2> HIDE DEF r
  <2>1. row[k].live /\ row[k].until < m.from
        /\ bill' = [bill EXCEPT ![i] = [live |-> TRUE, key |-> k, prev |-> row[k].until, from |-> m.from, to |-> m.to]]
    BY <1>2, <1>4 DEF r
  <2> QED
    BY <2>1, <1>2, <1>4, <1>9, BilledKeeps
<1> QED
  BY <1>2, <1>3, <1>8, <1>10 DEF StorageInv, Typed

LEMMA GiveBackKeeps ==
  ASSUME Bounds, NewestFirst, StorageInv, NEW i \in Invoice, GiveBack(i)
  PROVE  StorageInv'
<1> DEFINE k == bill[i].key
           moved == [row EXCEPT ![k].until = bill[i].prev, ![k].invoice = None]
<1>1. bill[i] \in BillRec /\ k \in Key /\ bill[i].prev \in MaybeDay
  <2>1. bill[i] \in BillRec
    BY DEF StorageInv, Typed
  <2> QED
    BY <2>1 DEF BillRec
<1>2. /\ bill[i].live /\ \A j \in LiveOn(k) : bill[j].to <= bill[i].to
      /\ bill' = [bill EXCEPT ![i] = NoBill]
      /\ row' = IF row[k].live THEN sync(gate, tank, trail, moved) ELSE row
      /\ UNCHANGED <<today, tank, trail, gate>>
  BY DEF GiveBack
<1>3. today \in Day /\ tank \in TankRec /\ trail \in Seq(Stay) /\ gate \in [Visit -> GateRec] /\ row \in [Key -> RowRec]
  BY DEF StorageInv, Typed
<1>4. row[k].live
  <2>1. i \in LiveOn(k) /\ Links(i) /\ Watermarked(k)
    BY <1>1, <1>2 DEF LiveOn, StorageInv, Chained
  <2>2. bill[i].to <= row[k].until /\ bill[i].prev < bill[i].from /\ bill[i].from <= bill[i].to
    BY <2>1 DEF Watermarked, Links
  <2>3. bill[i].to \in MaybeDay /\ bill[i].from \in MaybeDay /\ row[k].until \in MaybeDay
    <3>1. row[k] \in RowRec
      BY <1>1, <1>3
    <3> QED
      BY <3>1, <1>1 DEF RowRec, BillRec
  <2>4. row[k].until # 0
    BY <2>2, <2>3, <1>1, BoundsAre DEF MaybeDay
  <2> QED
    BY <2>1, <2>4 DEF Watermarked
<1>5. moved = Moved(row, k, bill[i].prev, None) /\ None \in Invoice \cup {None}
  BY DEF Moved
<1>6. row' = sync(gate, tank, trail, moved)
  BY <1>2, <1>4
<1> HIDE DEF moved
<1>7. moved \in [Key -> RowRec] /\ \A q \in Key : moved[q].until = (IF q = k THEN bill[i].prev ELSE row[q].until) /\ moved[q].live = row[q].live
  BY <1>1, <1>3, <1>5, MovedIsRow
<1>8. row' \in [Key -> RowRec]
  BY <1>3, <1>7, <1>6, SyncIsTyped
<1>9. ASSUME NEW q \in Key
      PROVE  /\ row'[q].until = IF q = k THEN bill[i].prev ELSE row[q].until
             /\ row'[q].until # 0 /\ row[q].live => row'[q].live
             /\ Known /\ q[1] # "visit" /\ ~row[q].live => ~row'[q].live
  <2>1. row'[q].until = moved[q].until /\ (moved[q].until # 0 /\ moved[q].live => row'[q].live)
    BY <1>6, SyncKeepsWatermarks
  <2>2. Known /\ q[1] # "visit" /\ ~moved[q].live => ~row'[q].live
    BY <1>6, SyncByVisit
  <2> QED
    BY <2>1, <2>2, <1>7
<1>10. bill' \in [Invoice -> BillRec] /\ Chained' /\ (\A q \in Key : Watermarked(q)') /\ ByVisit'
  <2>1. PICK q \in Key : q = bill[i].key
    BY <1>1
  <2>2. /\ bill[i].live /\ bill[i].key = q /\ \A j \in LiveOn(q) : bill[j].to <= bill[i].to
        /\ bill' = [bill EXCEPT ![i] = NoBill]
        /\ \A p \in Key : /\ row'[p].until = IF p = q THEN bill[i].prev ELSE row[p].until
                          /\ row'[p].until # 0 /\ row[p].live => row'[p].live
                          /\ Known /\ p[1] # "visit" /\ ~row[p].live => ~row'[p].live
    BY <2>1, <1>2, <1>9
  <2>3. GivenBack(i, q)
    BY <2>2 DEF GivenBack
  <2> QED
    BY <2>3, GivenBackKeeps
<1> QED
  BY <1>2, <1>3, <1>8, <1>10 DEF StorageInv, Typed

(* The steps of the yard, the bons and the nightly sweep.                  *)
YardStep ==
  \/ NextDay \/ sync_all \/ TurnStatus \/ reverse_bon_departures
  \/ \E d \in Day : mark_gate_out(d)
  \/ \E v \in Visit :
       \/ VoidArrival(v)
       \/ \E d \in Day : Arrive(v, d) \/ follow_bongkar(v, d) \/ follow_muat(v, d)

(* A sync of typed records, done or failed, types the rows.                *)
LEMMA SyncedIsTyped ==
  ASSUME Bounds, today \in Day, row \in [Key -> RowRec],
         NEW g \in [Visit -> GateRec], NEW t \in TankRec, NEW s \in Seq(Stay),
         row' = row \/ row' = sync(g, t, s, row)
  PROVE  row' \in [Key -> RowRec] /\ (bill' = bill => Unbilled)
<1>1. row' \in [Key -> RowRec]
  BY SyncIsTyped
<1>2. ASSUME bill' = bill PROVE Unbilled
  BY <1>2, SyncIsUnbilled
<1> QED
  BY <1>1, <1>2

LEMMA YardStepIsUnbilled ==
  ASSUME Bounds, Typed, YardStep
  PROVE  Typed' /\ Unbilled
<1>1. /\ today \in Day /\ tank \in TankRec /\ trail \in Seq(Stay) /\ gate \in [Visit -> GateRec]
      /\ row \in [Key -> RowRec] /\ bill \in [Invoice -> BillRec]
  BY DEF Typed
<1>2. /\ tank.status \in {"Booked", "In_Depot", "Gate_Out"} /\ tank.in \in MaybeDay /\ tank.out \in MaybeDay
      /\ tank.bon \in 0..MaxVisit
      /\ \A v \in Visit : /\ gate[v] \in GateRec /\ gate[v].state \in {"none", "open", "closed", "void"}
                         /\ gate[v].in \in MaybeDay /\ gate[v].out \in MaybeDay
  BY <1>1 DEF TankRec, GateRec
<1>3. 0 \in MaybeDay /\ (\A d \in Day : d \in MaybeDay) /\ (\A v \in Visit : v \in 0..MaxVisit) /\ 0 \in 0..MaxVisit
  BY BoundsAre DEF MaybeDay, Day, Visit
<1>4. Opened(trail) \in Seq(Stay) /\ Closed(trail) \in Seq(Stay)
  BY <1>1, TrailsAreStays
<1>5. \A g, t, s : StatusSync(g, t, s) => row' = row \/ row' = sync(g, t, s, row)
  BY DEF StatusSync
<1>6. CASE NextDay
  <2>1. today' \in Day /\ bill' = bill /\ row' = row /\ UNCHANGED <<tank, trail, gate>>
    BY <1>6, <1>1, BoundsAre DEF NextDay, Day
  <2>2. Typed'
    BY <2>1, <1>1 DEF Typed
  <2>3. Unbilled
    BY <2>1, SyncIsUnbilled
  <2> QED
    BY <2>2, <2>3
<1>7. CASE sync_all \/ TurnStatus
  <2>1. (row' = row \/ row' = sync(gate, tank, trail, row)) /\ bill' = bill /\ UNCHANGED <<today, tank, trail, gate>>
    BY <1>7, <1>5 DEF sync_all, TurnStatus
  <2>2. row' \in [Key -> RowRec] /\ Unbilled
    BY <2>1, <1>1, SyncedIsTyped
  <2> QED
    BY <2>1, <2>2, <1>1 DEF Typed
<1>8. CASE reverse_bon_departures
  <2> DEFINE back == [tank EXCEPT !.status = "In_Depot", !.out = 0]
             reopened == [gate EXCEPT ![tank.bon] = [gate[tank.bon] EXCEPT !.state = "open", !.out = 0]]
  <2>1. /\ tank' = back /\ trail' = Opened(trail) /\ gate' = reopened
        /\ row' = sync(gate', back, trail', row) /\ UNCHANGED <<today, bill>> /\ tank.bon # 0
    BY <1>8 DEF reverse_bon_departures
  <2>2. back \in TankRec
    BY <1>1, <1>3 DEF TankRec
  <2>3. reopened \in [Visit -> GateRec]
    <3>1. tank.bon \in Visit
      BY <2>1, <1>2, BoundsAre DEF Visit
    <3>2. [gate[tank.bon] EXCEPT !.state = "open", !.out = 0] \in GateRec
      BY <3>1, <1>2, <1>3 DEF GateRec
    <3> QED
      BY <3>2, <1>1
  <2>4. row' \in [Key -> RowRec] /\ Unbilled
    <3> HIDE DEF back, reopened
    <3> QED
      BY <2>1, <2>2, <2>3, <1>1, <1>4, SyncedIsTyped
  <2> HIDE DEF back, reopened
  <2> QED
    BY <2>1, <2>2, <2>3, <2>4, <1>1, <1>4 DEF Typed
<1>9. ASSUME NEW day \in Day, mark_gate_out(day) PROVE Typed' /\ Unbilled
  <2> DEFINE left == [tank EXCEPT !.status = "Gate_Out", !.out = day]
             closed == [state |-> "closed", in |-> IF gate[tank.bon].state = "open" THEN gate[tank.bon].in ELSE tank.in,
                        out |-> day]
  <2>1. /\ tank' = left /\ trail' = Closed(trail) /\ gate' = [gate EXCEPT ![tank.bon] = closed]
        /\ StatusSync(gate, left, trail') /\ UNCHANGED <<today, bill>>
    BY <1>9 DEF mark_gate_out
  <2>2. left \in TankRec
    BY <1>1, <1>3 DEF TankRec
  <2>3. gate' \in [Visit -> GateRec]
    <3>1. CASE tank.bon \in Visit
      <4>1. closed \in GateRec
        BY <3>1, <1>2, <1>3 DEF GateRec
      <4> HIDE DEF closed
      <4> QED
        BY <4>1, <2>1, <1>1
    <3>2. CASE tank.bon \notin Visit
      <4> HIDE DEF closed
      <4> QED
        BY <3>2, <2>1, <1>1
    <3> QED
      BY <3>1, <3>2
  <2>4. row' = row \/ row' = sync(gate, left, trail', row)
    BY <2>1, <1>5
  <2> HIDE DEF left, closed
  <2>5. row' \in [Key -> RowRec] /\ Unbilled
    BY <2>1, <2>2, <2>4, <1>1, <1>4, SyncedIsTyped
  <2> QED
    BY <2>1, <2>2, <2>3, <2>5, <1>1, <1>4 DEF Typed
<1>10. ASSUME NEW v \in Visit, VoidArrival(v) PROVE Typed' /\ Unbilled
  <2> DEFINE gone == [gate[v] EXCEPT !.state = "void"]
  <2>1. /\ gate' = [gate EXCEPT ![v] = gone] /\ StatusSync(gate', tank', trail') /\ UNCHANGED <<today, bill>>
        /\ \E to \in {"Booked", "Gate_Out"} :
             tank' = [status |-> to, in |-> 0, out |-> 0, bon |-> 0] /\ (trail' = Closed(trail) \/ trail' = trail)
    BY <1>10 DEF VoidArrival
  <2>2. gate' \in [Visit -> GateRec]
    <3>1. gone \in GateRec
      BY <1>2 DEF GateRec
    <3> HIDE DEF gone
    <3> QED
      BY <3>1, <2>1, <1>1
  <2>3. tank' \in TankRec
    BY <2>1, <1>3 DEF TankRec
  <2>4. trail' \in Seq(Stay)
    BY <2>1, <1>1, <1>4
  <2>5. row' = row \/ row' = sync(gate', tank', trail', row)
    BY <2>1, <1>5
  <2>6. row' \in [Key -> RowRec] /\ Unbilled
    BY <2>1, <2>2, <2>3, <2>4, <2>5, <1>1, SyncedIsTyped
  <2> QED
    BY <2>1, <2>2, <2>3, <2>4, <2>6, <1>1 DEF Typed
<1>11. ASSUME NEW v \in Visit, NEW day \in Day, Arrive(v, day) PROVE Typed' /\ Unbilled
  <2>1. /\ tank' = [status |-> "In_Depot", in |-> day, out |-> 0, bon |-> v] /\ trail' = Opened(trail)
        /\ UNCHANGED <<today, bill>> /\ (StatusSync(gate, tank', trail') \/ StatusSync(gate', tank', trail'))
        /\ \E logged \in Outcomes :
             gate' = [gate EXCEPT ![v] = IF logged THEN [state |-> "open", in |-> day, out |-> 0]
                                         ELSE [gate[v] EXCEPT !.state = "void"]]
    BY <1>11 DEF Arrive
  <2>2. gate' \in [Visit -> GateRec]
    <3>1. PICK logged \in Outcomes :
            gate' = [gate EXCEPT ![v] = IF logged THEN [state |-> "open", in |-> day, out |-> 0]
                                        ELSE [gate[v] EXCEPT !.state = "void"]]
      BY <2>1
    <3>2. [state |-> "open", in |-> day, out |-> 0] \in GateRec /\ [gate[v] EXCEPT !.state = "void"] \in GateRec
      BY <1>2, <1>3 DEF GateRec
    <3> QED
      BY <3>1, <3>2, <1>1
  <2>3. tank' \in TankRec
    BY <2>1, <1>3 DEF TankRec
  <2>4. trail' \in Seq(Stay)
    BY <2>1, <1>4
  <2>5. (row' = row \/ row' = sync(gate, tank', trail', row)) \/ (row' = row \/ row' = sync(gate', tank', trail', row))
    BY <2>1, <1>5
  <2>6. row' \in [Key -> RowRec] /\ Unbilled
    <3>1. CASE row' = row \/ row' = sync(gate, tank', trail', row)
      BY <3>1, <2>1, <2>3, <2>4, <1>1, SyncedIsTyped
    <3>2. CASE row' = row \/ row' = sync(gate', tank', trail', row)
      BY <3>2, <2>1, <2>2, <2>3, <2>4, <1>1, SyncedIsTyped
    <3> QED
      BY <3>1, <3>2, <2>5
  <2> QED
    BY <2>1, <2>2, <2>3, <2>4, <2>6, <1>1 DEF Typed
<1>12. ASSUME NEW v \in Visit, NEW day \in Day, follow_bongkar(v, day) \/ follow_muat(v, day) PROVE Typed' /\ Unbilled
  <2>1. /\ gate' = [gate EXCEPT ![v] = [gate[v] EXCEPT !.in = day]] \/ gate' = [gate EXCEPT ![v] = [gate[v] EXCEPT !.out = day]]
        /\ tank' = tank \/ tank' = [tank EXCEPT !.in = day] \/ tank' = [tank EXCEPT !.out = day]
        /\ row' = sync(gate', tank', trail, row) /\ UNCHANGED <<today, trail, bill>>
    BY <1>12, <1>1 DEF follow_bongkar, follow_muat
  <2>2. gate' \in [Visit -> GateRec]
    <3>1. [gate[v] EXCEPT !.in = day] \in GateRec /\ [gate[v] EXCEPT !.out = day] \in GateRec
      BY <1>2, <1>3 DEF GateRec
    <3> QED
      BY <3>1, <2>1, <1>1
  <2>3. tank' \in TankRec
    <3>1. [tank EXCEPT !.in = day] \in TankRec /\ [tank EXCEPT !.out = day] \in TankRec
      BY <1>1, <1>3 DEF TankRec
    <3> QED
      BY <3>1, <2>1, <1>1
  <2>4. row' \in [Key -> RowRec] /\ Unbilled
    BY <2>1, <2>2, <2>3, <1>1, SyncedIsTyped
  <2> QED
    BY <2>1, <2>2, <2>3, <2>4, <1>1 DEF Typed
<1> QED
  BY <1>6, <1>7, <1>8, <1>9, <1>10, <1>11, <1>12 DEF YardStep

(* The row an invoice, its undoing or its new pick writes to, and the sync *)
(* that follows.                                                           *)
LEMMA RowMoves ==
  ASSUME Bounds, Typed, NEW k \in Key, NEW d \in MaybeDay, NEW i \in Invoice \cup {None},
         row' = sync(gate, tank, trail, Moved(row, k, d, i))
  PROVE  /\ row' \in [Key -> RowRec]
         /\ \A q \in Key :
              /\ row'[q].until = IF q = k THEN d ELSE row[q].until
              /\ row'[q].invoice = IF q = k THEN i ELSE row[q].invoice
              /\ (row'[q].until # 0 \/ row'[q].invoice # None) /\ row[q].live => row'[q].live
              /\ Known /\ q[1] # "visit" /\ ~row[q].live => ~row'[q].live
<1> DEFINE moved == Moved(row, k, d, i)
<1>1. today \in Day /\ tank \in TankRec /\ trail \in Seq(Stay) /\ gate \in [Visit -> GateRec] /\ row \in [Key -> RowRec]
  BY DEF Typed
<1>3. row' = sync(gate, tank, trail, moved)
  OBVIOUS
<1>4. moved \in [Key -> RowRec]
      /\ \A q \in Key : /\ moved[q].until = (IF q = k THEN d ELSE row[q].until)
                        /\ moved[q].invoice = (IF q = k THEN i ELSE row[q].invoice)
                        /\ moved[q].live = row[q].live
  BY <1>1, MovedIsRow
<1> HIDE DEF moved
<1>5. row' \in [Key -> RowRec]
  BY <1>1, <1>3, <1>4, SyncIsTyped
<1>6. ASSUME NEW q \in Key
      PROVE  /\ row'[q].until = moved[q].until /\ row'[q].invoice = moved[q].invoice
             /\ (moved[q].until # 0 \/ moved[q].invoice # None) /\ moved[q].live => row'[q].live
             /\ Known /\ q[1] # "visit" /\ ~moved[q].live => ~row'[q].live
  <2>1. /\ row'[q].until = moved[q].until /\ row'[q].invoice = moved[q].invoice
        /\ (moved[q].until # 0 \/ moved[q].invoice # None) /\ moved[q].live => row'[q].live
    BY <1>3, SyncKeepsWatermarks
  <2>2. Known /\ q[1] # "visit" /\ ~moved[q].live => ~row'[q].live
    BY <1>3, SyncByVisit
  <2> QED
    BY <2>1, <2>2
<1> QED
  BY <1>4, <1>5, <1>6

(* The newest invoice of a row picked again puts its own name on it, and   *)
(* nothing else moves.                                                     *)
LEMMA RepickKeeps ==
  ASSUME Bounds, RepickNewest, StorageInv, NEW i \in Invoice, Repick(i)
  PROVE  StorageInv'
<1> DEFINE k == bill[i].key
<1>1. bill[i] \in BillRec /\ k \in Key /\ bill[i].to \in MaybeDay
  <2>1. bill[i] \in BillRec
    BY DEF StorageInv, Typed
  <2> QED
    BY <2>1 DEF BillRec
<1>2. /\ bill[i].live /\ \A j \in LiveOn(k) : bill[j].to <= bill[i].to
      /\ row' = row \/ (row[k].live /\ row' = sync(gate, tank, trail, Moved(row, k, bill[i].to, i)))
      /\ UNCHANGED <<today, tank, trail, gate, bill>>
  BY DEF Repick, Moved
<1> HIDE DEF k
<1>3. row[k].until = bill[i].to
  <2>1. i \in LiveOn(k) /\ Watermarked(k)
    BY <1>1, <1>2 DEF LiveOn, StorageInv, k
  <2>2. bill[i].to <= row[k].until /\ row[k].until \in MaybeDay
    <3>1. row[k] \in RowRec
      BY <1>1 DEF StorageInv, Typed
    <3> QED
      BY <2>1, <3>1 DEF Watermarked, RowRec
  <2>3. row[k].until # 0 => row[k].until <= bill[i].to
    BY <1>2, <2>1 DEF Watermarked
  <2> QED
    BY <1>1, <2>2, <2>3, BoundsAre DEF MaybeDay
<1>4. CASE row' = row
  <2>1. Unbilled /\ Typed'
    <3>1. Unbilled
      BY <1>2, <1>4, SyncIsUnbilled
    <3> QED
      BY <1>2, <1>4, <3>1 DEF StorageInv, Typed
  <2> QED
    BY <2>1, UnbilledKeeps DEF StorageInv
<1>5. CASE row[k].live /\ row' = sync(gate, tank, trail, Moved(row, k, bill[i].to, i))
  <2>1. Typed /\ i \in Invoice \cup {None}
    BY DEF StorageInv
  <2>2. /\ row' \in [Key -> RowRec]
        /\ \A q \in Key :
             /\ row'[q].until = IF q = k THEN bill[i].to ELSE row[q].until
             /\ (row'[q].until # 0 \/ row'[q].invoice # None) /\ row[q].live => row'[q].live
             /\ Known /\ q[1] # "visit" /\ ~row[q].live => ~row'[q].live
    BY <1>1, <1>5, <2>1, RowMoves
  <2>3. /\ bill' = bill
        /\ \A q \in Key : /\ row'[q].until = row[q].until
                          /\ row[q].until # 0 /\ row[q].live => row'[q].live
                          /\ Known /\ q[1] # "visit" /\ ~row[q].live => ~row'[q].live
    BY <1>2, <1>3, <2>2
  <2>4. Typed'
    BY <1>2, <2>1, <2>2 DEF Typed
  <2> QED
    BY <2>3, <2>4, StillKeeps DEF StorageInv
<1> QED
  BY <1>2, <1>4, <1>5

LEMMA InvInit == ASSUME Bounds, Init PROVE StorageInv
<1>1. /\ today = 1 /\ tank = [status |-> "Booked", in |-> 0, out |-> 0, bon |-> 0] /\ trail = <<>>
      /\ gate = [v \in Visit |-> [state |-> "none", in |-> 0, out |-> 0]]
      /\ row = [k \in Key |-> NoRow] /\ bill = [i \in Invoice |-> NoBill]
  BY DEF Init
<1>2. 0 \in MaybeDay /\ 0 \in 0..MaxVisit /\ 1 \in Day /\ <<"visit", 1>> \in Key /\ FALSE \in BOOLEAN
  BY BoundsAre DEF MaybeDay, Day, Key, Visit
<1>3. NoBill \in BillRec
  BY <1>2 DEF NoBill, BillRec
<1>4. NoRow \in RowRec
  BY NoRowIsRow
<1>5. Typed
  <2>1. tank \in TankRec
    BY <1>1, <1>2 DEF TankRec
  <2>2. gate \in [Visit -> GateRec]
    BY <1>1, <1>2 DEF GateRec
  <2>3. row \in [Key -> RowRec] /\ bill \in [Invoice -> BillRec]
    BY <1>1, <1>3, <1>4
  <2>4. trail \in Seq(Stay) /\ today \in Day
    BY <1>1, <1>2
  <2> QED
    BY <2>1, <2>2, <2>3, <2>4 DEF Typed
<1>6. \A i \in Invoice : ~bill[i].live
  BY <1>1 DEF NoBill
<1>7. \A k \in Key : ~row[k].live /\ row[k].until = 0 /\ LiveOn(k) = {}
  BY <1>1, <1>6 DEF NoRow, LiveOn
<1> QED
  BY <1>5, <1>6, <1>7 DEF StorageInv, Chained, Watermarked, ByVisit

LEMMA InvStep == ASSUME Bounds, NewestFirst, RepickNewest, StorageInv, [Next]_vars PROVE StorageInv'
<1>1. CASE YardStep
  BY <1>1, YardStepIsUnbilled, UnbilledKeeps DEF StorageInv
<1>2. ASSUME NEW i \in Invoice, GiveBack(i) PROVE StorageInv'
  BY <1>2, GiveBackKeeps
<1>3. ASSUME NEW i \in Invoice, NEW k \in Key, NEW from \in Day, NEW to \in 1..today, Bill(i, k, from, to)
      PROVE  StorageInv'
  BY <1>3, BillKeeps
<1>4. CASE UNCHANGED vars
  <2>1. row' = row /\ bill' = bill /\ Typed'
    BY <1>4 DEF vars, StorageInv, Typed
  <2>2. Unbilled
    BY <2>1, SyncIsUnbilled
  <2> QED
    BY <2>1, <2>2, UnbilledKeeps DEF StorageInv
<1>5. ASSUME NEW i \in Invoice, Repick(i) PROVE StorageInv'
  BY <1>5, RepickKeeps
<1>6. Next => \/ YardStep
              \/ \E i \in Invoice : GiveBack(i) \/ Repick(i)
              \/ \E i \in Invoice, k \in Key, from \in Day, to \in 1..today : Bill(i, k, from, to)
  BY DEF Next, YardStep, save_bon_revision, EditDateOnDesk
<1> QED
  BY <1>1, <1>2, <1>3, <1>4, <1>5, <1>6

-----------------------------------------------------------------------------
(* Billed and owing.                                                       *)

(* What a row shows as billed and as owing is its stay after the free days.*)
Splits(r) == r.billed + r.unbilled = MaxOf(0, r.stay - Free)
RowsSplit == \A k \in Key : row[k].live => Splits(row[k])

(* A row the sync writes splits its stay, whatever its watermark: the days *)
(* up to the watermark are billed, those after it are owing.               *)
LEMMA UpsertedSplits ==
  ASSUME Bounds, today \in Day, NEW p, p.in \in MaybeDay, p.out \in MaybeDay, NEW r \in RowRec
  PROVE  Splits(Upserted(p, r))
<1> DEFINE first == p.in + Free
           last == last_billable_day(p.in, p.out, today)
           m == measure(p.in, p.out, r.until, p.in, last)
<1>1. p.in \in Int /\ p.out \in Int /\ r.until \in Int /\ 0 <= r.until /\ Free \in Int /\ 0 <= Free /\ today \in Int
  <2>1. r.until \in MaybeDay
    BY DEF RowRec
  <2> QED
    BY <2>1, BoundsAre DEF MaybeDay, Day
<1>2. last \in Int /\ first \in Int
  <2>1. last \in Int
    BY <1>1, DaysAreDays
  <2>2. first \in Int
    BY <1>1
  <2> QED
    BY <2>1, <2>2
<1>3. last_billable_day(p.in, p.out, last) = last
  BY <1>1 DEF last_billable_day, MinOf
<1>4. m.to = last /\ m.from = IF r.until = 0 THEN first ELSE MaxOf(first, r.until + 1)
  <2>1. MinOf(last, last) = last /\ MaxOf(first, p.in) = first
    BY <1>1, <1>2 DEF MinOf, MaxOf
  <2>2. MaxOf(MaxOf(first, r.until + 1), p.in) = MaxOf(first, r.until + 1)
    BY <1>1, <1>2 DEF MaxOf
  <2> HIDE DEF last
  <2> QED
    BY <1>3, <2>1, <2>2 DEF measure
<1>5. BilledDays(p.in, p.out, r.until) = IF r.until = 0 THEN 0 ELSE DayCount(first, MinOf(r.until, last))
  BY DEF BilledDays
<1>6. Upserted(p, r).billed = BilledDays(p.in, p.out, r.until)
      /\ Upserted(p, r).unbilled = DayCount(m.from, m.to) /\ Upserted(p, r).stay = DayCount(p.in, last)
  BY DEF Upserted
<1> HIDE DEF last, m
<1>7. CASE r.until = 0
  <2>1. 0 + DayCount(first, last) = MaxOf(0, DayCount(p.in, last) - Free)
    BY <1>1, <1>2 DEF DayCount, MaxOf
  <2> QED
    BY <1>4, <1>5, <1>6, <1>7, <2>1 DEF Splits
<1>8. CASE r.until # 0
  <2>1. DayCount(first, MinOf(r.until, last)) + DayCount(MaxOf(first, r.until + 1), last)
          = MaxOf(0, DayCount(p.in, last) - Free)
    BY <1>1, <1>2, <1>8 DEF DayCount, MaxOf, MinOf
  <2> QED
    BY <1>4, <1>5, <1>6, <1>8, <2>1 DEF Splits
<1> QED
  BY <1>7, <1>8

(* A step leaves the rows alone, or syncs them with the records before or  *)
(* after it, from rows whose figures nothing has touched.                  *)
SyncsRows ==
  \E g \in {gate, gate'}, t \in {tank, tank'}, s \in {trail, trail'}, rows \in [Key -> RowRec] :
    /\ row' = sync(g, t, s, rows)
    /\ \A k \in Key : /\ rows[k].live = row[k].live /\ rows[k].stay = row[k].stay
                      /\ rows[k].billed = row[k].billed /\ rows[k].unbilled = row[k].unbilled

LEMMA StepsSync ==
  ASSUME Bounds, Typed, [Next]_vars
  PROVE  row' = row \/ SyncsRows
<1>1. row \in [Key -> RowRec] /\ bill \in [Invoice -> BillRec] /\ today \in Day
  BY DEF Typed
<1>2. ASSUME NEW g \in {gate, gate'}, NEW t \in {tank, tank'}, NEW s \in {trail, trail'}, row' = sync(g, t, s, row)
      PROVE  SyncsRows
  BY <1>1, <1>2 DEF SyncsRows
<1>3. ASSUME NEW k \in Key, NEW day \in MaybeDay, NEW i \in Invoice \cup {None},
             row' = sync(gate, tank, trail, [row EXCEPT ![k].until = day, ![k].invoice = i])
      PROVE  SyncsRows
  <2> DEFINE moved == [row EXCEPT ![k].until = day, ![k].invoice = i]
  <2>1. moved \in [Key -> RowRec]
    <3>1. moved = Moved(row, k, day, i)
      BY DEF Moved
    <3> HIDE DEF moved
    <3> QED
      BY <1>1, <3>1, MovedIsRow
  <2>2. \A q \in Key : /\ moved[q].live = row[q].live /\ moved[q].stay = row[q].stay
                       /\ moved[q].billed = row[q].billed /\ moved[q].unbilled = row[q].unbilled
    BY <1>1 DEF RowRec
  <2>3. row' = sync(gate, tank, trail, moved)
    BY <1>3
  <2> HIDE DEF moved
  <2> QED
    BY <2>1, <2>2, <2>3 DEF SyncsRows
<1>4. ASSUME NEW i \in Invoice, GiveBack(i) PROVE row' = row \/ SyncsRows
  <2>1. bill[i].key \in Key /\ bill[i].prev \in MaybeDay
    <3>1. bill[i] \in BillRec
      BY <1>1
    <3> QED
      BY <3>1 DEF BillRec
  <2>2. \/ row' = row
        \/ row' = sync(gate, tank, trail, [row EXCEPT ![bill[i].key].until = bill[i].prev, ![bill[i].key].invoice = None])
    BY <1>4 DEF GiveBack
  <2> QED
    BY <1>3, <2>1, <2>2
<1>5. ASSUME NEW i \in Invoice, NEW k \in Key, NEW from \in Day, NEW to \in 1..today, Bill(i, k, from, to)
      PROVE  SyncsRows
  <2> DEFINE m == measure(row[k].in, row[k].out, row[k].until, from, to)
  <2>1. row[k].in \in MaybeDay /\ row[k].out \in MaybeDay /\ row[k].until \in MaybeDay
    <3>1. row[k] \in RowRec
      BY <1>1
    <3> QED
      BY <3>1 DEF RowRec
  <2>2. DayCount(m.from, m.to) > 0 /\ row' = sync(gate, tank, trail, [row EXCEPT ![k].until = m.to, ![k].invoice = i])
    BY <1>5 DEF Bill
  <2>3. m.to \in MaybeDay
    BY <1>1, <2>1, <2>2, MeasuredDays, DaysAreDays
  <2> HIDE DEF m
  <2> QED
    BY <1>3, <2>2, <2>3
<1>6. CASE YardStep
  <2>1. \A g, t, s : StatusSync(g, t, s) => row' = row \/ row' = sync(g, t, s, row)
    BY DEF StatusSync
  <2>2. row' = row \/ \E g \in {gate, gate'}, t \in {tank, tank'}, s \in {trail, trail'} : row' = sync(g, t, s, row)
    <3>1. CASE NextDay \/ sync_all \/ reverse_bon_departures
      BY <3>1 DEF NextDay, sync_all, reverse_bon_departures
    <3>2. CASE TurnStatus
      BY <3>2, <2>1 DEF TurnStatus
    <3>3. ASSUME NEW d \in Day, mark_gate_out(d)
          PROVE  row' = row \/ \E g \in {gate, gate'}, t \in {tank, tank'}, s \in {trail, trail'} : row' = sync(g, t, s, row)
      BY <3>3, <2>1 DEF mark_gate_out
    <3>4. ASSUME NEW v \in Visit, VoidArrival(v)
          PROVE  row' = row \/ \E g \in {gate, gate'}, t \in {tank, tank'}, s \in {trail, trail'} : row' = sync(g, t, s, row)
      BY <3>4, <2>1 DEF VoidArrival
    <3>5. ASSUME NEW v \in Visit, NEW d \in Day, Arrive(v, d)
          PROVE  row' = row \/ \E g \in {gate, gate'}, t \in {tank, tank'}, s \in {trail, trail'} : row' = sync(g, t, s, row)
      BY <3>5, <2>1 DEF Arrive
    <3>6. ASSUME NEW v \in Visit, NEW d \in Day, follow_bongkar(v, d) \/ follow_muat(v, d)
          PROVE  row' = row \/ \E g \in {gate, gate'}, t \in {tank, tank'}, s \in {trail, trail'} : row' = sync(g, t, s, row)
      BY <3>6 DEF follow_bongkar, follow_muat
    <3> QED
      BY <1>6, <3>1, <3>2, <3>3, <3>4, <3>5, <3>6 DEF YardStep
  <2> QED
    BY <1>2, <2>2
<1>7. CASE UNCHANGED vars
  BY <1>7 DEF vars
<1>8. ASSUME NEW i \in Invoice, Repick(i) PROVE row' = row \/ SyncsRows
  <2>1. bill[i].key \in Key /\ bill[i].to \in MaybeDay
    <3>1. bill[i] \in BillRec
      BY <1>1
    <3> QED
      BY <3>1 DEF BillRec
  <2>2. \/ row' = row
        \/ row' = sync(gate, tank, trail, [row EXCEPT ![bill[i].key].until = bill[i].to, ![bill[i].key].invoice = i])
    BY <1>8 DEF Repick
  <2> QED
    BY <1>3, <2>1, <2>2
<1> QED
  BY <1>4, <1>5, <1>6, <1>7, <1>8 DEF Next, YardStep, save_bon_revision, EditDateOnDesk

(* No step breaks the split.                                               *)
LEMMA SplitStep ==
  ASSUME Bounds, Typed, Typed', RowsSplit, [Next]_vars
  PROVE  RowsSplit'
<1>1. CASE row' = row
  BY <1>1 DEF RowsSplit
<1>2. CASE SyncsRows
  <2>1. PICK g \in {gate, gate'}, t \in {tank, tank'}, s \in {trail, trail'}, rows \in [Key -> RowRec] :
          /\ row' = sync(g, t, s, rows)
          /\ \A k \in Key : /\ rows[k].live = row[k].live /\ rows[k].stay = row[k].stay
                            /\ rows[k].billed = row[k].billed /\ rows[k].unbilled = row[k].unbilled
    BY <1>2 DEF SyncsRows
  <2>2. today \in Day /\ g \in [Visit -> GateRec] /\ t \in TankRec /\ s \in Seq(Stay)
    BY DEF Typed
  <2> SUFFICES ASSUME NEW k \in Key, row'[k].live PROVE Splits(row'[k])
    BY DEF RowsSplit, Splits
  <2>3. CASE \E p \in Periods(g, t, s) : p.key = k
    <3> DEFINE q == CHOOSE p \in Periods(g, t, s) : p.key = k
    <3>1. q \in Periods(g, t, s)
      BY <2>3
    <3>2. q.in \in MaybeDay /\ q.out \in MaybeDay
      BY <2>2, <3>1, PeriodsAreStays
    <3>3. row'[k] = Upserted(q, rows[k])
      BY <2>1, <2>3 DEF sync
    <3> HIDE DEF q
    <3> QED
      BY <2>2, <3>2, <3>3, UpsertedSplits
  <2>4. CASE ~\E p \in Periods(g, t, s) : p.key = k
    <3>1. row'[k] = Pruned(rows[k])
      BY <2>1, <2>4 DEF sync
    <3>2. row'[k] = rows[k]
      BY <3>1 DEF Pruned, NoRow
    <3>3. Splits(row[k])
      BY <2>1, <3>2 DEF RowsSplit
    <3> QED
      BY <2>1, <3>2, <3>3 DEF Splits
  <2> QED
    BY <2>3, <2>4
<1> QED
  BY <1>1, <1>2, StepsSync

LEMMA SplitStart == ASSUME Init PROVE RowsSplit
BY DEF Init, RowsSplit, NoRow

LEMMA SplitIsDays == ASSUME RowsSplit PROVE DaysAddUp
BY DEF RowsSplit, Splits, DaysAddUp

-----------------------------------------------------------------------------
(* What the chain says.                                                    *)

LEMMA Numbers ==
  ASSUME Bounds, StorageInv
  PROVE  /\ \A i \in Invoice : /\ bill[i].key \in Key /\ bill[i].prev \in Nat
                             /\ bill[i].from \in Nat /\ bill[i].to \in Nat
         /\ \A k \in Key : row[k].until \in Nat
<1>1. \A d \in MaybeDay : d \in Nat
  BY BoundsAre DEF MaybeDay
<1>2. \A i \in Invoice : bill[i] \in BillRec
  BY DEF StorageInv, Typed
<1>3. \A k \in Key : row[k] \in RowRec
  BY DEF StorageInv, Typed
<1>4. \A i \in Invoice : bill[i].key \in Key /\ bill[i].prev \in MaybeDay /\ bill[i].from \in MaybeDay /\ bill[i].to \in MaybeDay
  BY <1>2 DEF BillRec
<1>5. \A k \in Key : row[k].until \in MaybeDay
  BY <1>3 DEF RowRec
<1> QED
  BY <1>1, <1>4, <1>5

LEMMA ChainIsWatermark == ASSUME Bounds, StorageInv PROVE TypeOK /\ WatermarkAgrees
<1>1. TypeOK
  <2>1. Typed
    BY DEF StorageInv
  <2> QED
    BY <2>1, Zenon DEF Typed, TypeOK, TankRec, Stay, GateRec, RowRec, BillRec, MaybeDay, Standing
<1>2. ASSUME NEW k \in Key, row[k].live
      PROVE  row[k].until = IF LiveOn(k) = {} THEN 0 ELSE Max({bill[i].to : i \in LiveOn(k)})
  <2>1. Watermarked(k)
    BY DEF StorageInv
  <2>2. \A i \in LiveOn(k) : i \in Invoice /\ Links(i)
    BY DEF LiveOn, StorageInv, Chained
  <2>3. CASE LiveOn(k) = {}
    BY <2>1, <2>3 DEF Watermarked
  <2>4. CASE LiveOn(k) # {}
    <3> DEFINE ends == {bill[i].to : i \in LiveOn(k)}
    <3>1. row[k].until # 0
      <4>1. PICK i \in LiveOn(k) : TRUE
        BY <2>4
      <4>2. bill[i].prev < bill[i].from /\ bill[i].from <= bill[i].to /\ bill[i].to <= row[k].until
        BY <2>1, <2>2 DEF Links, Watermarked
      <4> QED
        BY <4>2, <2>2, Numbers
    <3>2. row[k].until \in ends /\ \A d \in ends : row[k].until >= d
      BY <3>1, <2>1, <2>2, Numbers DEF Watermarked
    <3>3. \A d \in ends : d \in Nat
      BY <2>2, Numbers
    <3> HIDE DEF ends
    <3>4. ASSUME NEW d \in ends, \A e \in ends : d >= e PROVE d = row[k].until
      <4>1. d >= row[k].until /\ row[k].until >= d /\ d \in Nat /\ row[k].until \in Nat
        BY <3>2, <3>3, <3>4
      <4> QED
        BY <4>1
    <3>5. Max(ends) = row[k].until
      BY <3>2, <3>4 DEF Max
    <3> QED
      BY <3>5, <2>4 DEF ends
  <2> QED
    BY <2>3, <2>4
<1> QED
  BY <1>1, <1>2 DEF WatermarkAgrees

LEMMA ChainIsApart == ASSUME Bounds, Known, StorageInv PROVE NoDayTwice
<1> SUFFICES ASSUME NEW i \in Invoice, NEW j \in Invoice, i # j, bill[i].live, bill[j].live,
                    bill[i].key = bill[j].key \/ {bill[i].key[1], bill[j].key[1]} # {"visit"}
             PROVE  bill[i].to < bill[j].from \/ bill[j].to < bill[i].from
  BY DEF NoDayTwice
<1>1. bill[i].key = bill[j].key
  <2>1. bill[i].key[1] = "visit" /\ bill[j].key[1] = "visit"
    BY DEF StorageInv, ByVisit
  <2>2. {bill[i].key[1], bill[j].key[1]} = {"visit"}
    BY <2>1
  <2> QED
    BY <2>2
<1>2. Links(i) /\ Links(j) /\ j \in LiveOn(bill[i].key)
  BY <1>1 DEF StorageInv, Chained, LiveOn
<1>3. bill[j].to <= bill[i].prev \/ bill[i].to <= bill[j].prev
  BY <1>2 DEF Links, Follows
<1>4. bill[i].prev < bill[i].from /\ bill[j].prev < bill[j].from
  BY <1>2 DEF Links
<1> QED
  BY <1>3, <1>4, Numbers

-----------------------------------------------------------------------------
(* What no order of undoing and picking again can break.                   *)

(* A typed ledger stays typed, and a row that names an invoice goes on     *)
(* naming the one it stops with.                                           *)
LEMMA TypedStep ==
  ASSUME Bounds, Typed, [Next]_vars
  PROVE  Typed' /\ (LastNamed => LastNamed')
<1>1. row \in [Key -> RowRec] /\ bill \in [Invoice -> BillRec] /\ today \in Day
  BY DEF Typed
<1>2. \A i \in Invoice : bill[i].key \in Key /\ bill[i].prev \in MaybeDay /\ bill[i].to \in MaybeDay
  <2>1. \A i \in Invoice : bill[i] \in BillRec
    BY <1>1
  <2> QED
    BY <2>1 DEF BillRec
<1>3. \A k \in Key : row[k].invoice \in Invoice \cup {None}
  <2>1. \A k \in Key : row[k] \in RowRec
    BY <1>1
  <2> QED
    BY <2>1 DEF RowRec
<1>4. ASSUME Unbilled, LastNamed PROVE LastNamed'
  <2> SUFFICES ASSUME NEW k \in Key, row'[k].invoice # None
               PROVE  LET b == bill'[row'[k].invoice]
                      IN row'[k].live /\ b.live /\ b.key = k /\ row'[k].until = b.to
    BY DEF LastNamed
  <2>1. /\ bill' = bill /\ row'[k].until = row[k].until /\ row'[k].invoice = row[k].invoice
        /\ (row[k].until # 0 \/ row[k].invoice # None) /\ row[k].live => row'[k].live
    BY <1>4 DEF Unbilled
  <2> QED
    BY <1>4, <2>1 DEF LastNamed
<1>5. CASE YardStep
  BY <1>4, <1>5, YardStepIsUnbilled
<1>6. CASE UNCHANGED vars
  BY <1>6 DEF vars, Typed, LastNamed
<1>7. ASSUME NEW i \in Invoice, NEW k \in Key, NEW from \in Day, NEW to \in 1..today, Bill(i, k, from, to)
      PROVE  Typed' /\ (LastNamed => LastNamed')
  <2> DEFINE m == measure(row[k].in, row[k].out, row[k].until, from, to)
  <2>1. row[k].in \in MaybeDay /\ row[k].out \in MaybeDay /\ row[k].until \in MaybeDay
    <3>1. row[k] \in RowRec
      BY <1>1
    <3> QED
      BY <3>1 DEF RowRec
  <2>2. /\ ~bill[i].live /\ row[k].live /\ DayCount(m.from, m.to) > 0
        /\ bill' = [bill EXCEPT ![i] = [live |-> TRUE, key |-> k, prev |-> row[k].until, from |-> m.from, to |-> m.to]]
        /\ row' = sync(gate, tank, trail, Moved(row, k, m.to, i))
        /\ UNCHANGED <<today, tank, trail, gate>>
    BY <1>7 DEF Bill, Moved
  <2>3. m.from \in Day /\ m.to \in Day /\ m.from \in MaybeDay /\ m.to \in MaybeDay /\ m.to # 0
    <3>1. m.from \in Day /\ m.to \in Day
      BY <1>1, <2>1, <2>2, MeasuredDays
    <3> HIDE DEF m
    <3> QED
      BY <3>1, BoundsAre DEF Day, MaybeDay
  <2> HIDE DEF m
  <2>4. /\ row' \in [Key -> RowRec]
        /\ \A q \in Key : /\ row'[q].until = IF q = k THEN m.to ELSE row[q].until
                          /\ row'[q].invoice = IF q = k THEN i ELSE row[q].invoice
                          /\ (row'[q].until # 0 \/ row'[q].invoice # None) /\ row[q].live => row'[q].live
    BY <2>2, <2>3, RowMoves
  <2>5. bill' \in [Invoice -> BillRec]
    <3>1. [live |-> TRUE, key |-> k, prev |-> row[k].until, from |-> m.from, to |-> m.to] \in BillRec
      BY <2>1, <2>3 DEF BillRec
    <3> QED
      BY <1>1, <2>2, <3>1
  <2>6. Typed'
    BY <2>2, <2>4, <2>5 DEF Typed
  <2>7. /\ bill'[i].live /\ bill'[i].key = k /\ bill'[i].to = m.to
        /\ \A j \in Invoice : j # i => bill'[j] = bill[j]
    BY <1>1, <2>2
  <2>8. ASSUME LastNamed, NEW q \in Key, row'[q].invoice # None
        PROVE  LET b == bill'[row'[q].invoice]
               IN row'[q].live /\ b.live /\ b.key = q /\ row'[q].until = b.to
    <3>1. CASE q = k
      BY <2>2, <2>4, <2>7, <2>8, <3>1
    <3>2. CASE q # k
      <4>1. row'[q].invoice = row[q].invoice /\ row'[q].until = row[q].until /\ row[q].invoice \in Invoice
        BY <1>3, <2>4, <2>8, <3>2
      <4>2. LET b == bill[row[q].invoice]
            IN row[q].live /\ b.live /\ b.key = q /\ row[q].until = b.to
        BY <2>8, <4>1 DEF LastNamed
      <4>3. row[q].invoice # i
        BY <2>2, <4>2
      <4> QED
        BY <2>4, <2>7, <2>8, <4>1, <4>2, <4>3
    <3> QED
      BY <3>1, <3>2
  <2> QED
    BY <2>6, <2>8 DEF LastNamed
<1>8. ASSUME NEW i \in Invoice, GiveBack(i) PROVE Typed' /\ (LastNamed => LastNamed')
  <2> DEFINE k == bill[i].key
  <2>1. /\ bill[i].live /\ (row[k].live => row[k].invoice \in {None, i})
        /\ bill' = [bill EXCEPT ![i] = NoBill] /\ UNCHANGED <<today, tank, trail, gate>>
        /\ \/ ~row[k].live /\ row' = row
           \/ row' = sync(gate, tank, trail, Moved(row, k, bill[i].prev, None))
    BY <1>8 DEF GiveBack, Moved
  <2>2. k \in Key /\ bill[i].prev \in MaybeDay /\ None \in Invoice \cup {None}
    BY <1>2
  <2>3. /\ row' \in [Key -> RowRec]
        /\ \A q \in Key : /\ q # k => row'[q].until = row[q].until /\ row'[q].invoice = row[q].invoice
                          /\ (row'[q].until # 0 \/ row'[q].invoice # None) /\ row[q].live => row'[q].live
                          /\ q = k => row'[q].invoice = None \/ (~row[q].live /\ row'[q].invoice = row[q].invoice)
    <3> HIDE DEF k
    <3>1. CASE ~row[k].live /\ row' = row
      BY <3>1, <1>1
    <3>2. CASE row' = sync(gate, tank, trail, Moved(row, k, bill[i].prev, None))
      BY <3>2, <2>2, RowMoves
    <3> QED
      BY <2>1, <3>1, <3>2 DEF k
  <2>4. bill' \in [Invoice -> BillRec]
    <3>1. NoBill \in BillRec
      BY NoBillIsBill
    <3> QED
      BY <1>1, <2>1, <3>1
  <2>5. Typed'
    BY <2>1, <2>3, <2>4 DEF Typed
  <2>6. \A j \in Invoice : j # i => bill'[j] = bill[j]
    BY <1>1, <2>1
  <2>7. ASSUME LastNamed, NEW q \in Key, row'[q].invoice # None
        PROVE  LET b == bill'[row'[q].invoice]
               IN row'[q].live /\ b.live /\ b.key = q /\ row'[q].until = b.to
    <3>1. q # k
      <4>1. ASSUME q = k PROVE FALSE
        <5>1. ~row[q].live /\ row[q].invoice # None
          BY <2>3, <2>7, <4>1
        <5> QED
          BY <2>7, <5>1 DEF LastNamed
      <4> QED
        BY <4>1
    <3>2. row'[q].invoice = row[q].invoice /\ row'[q].until = row[q].until /\ row[q].invoice \in Invoice
      BY <1>3, <2>3, <2>7, <3>1
    <3>3. LET b == bill[row[q].invoice]
          IN row[q].live /\ b.live /\ b.key = q /\ row[q].until = b.to
      BY <2>7, <3>2 DEF LastNamed
    <3>4. row[q].invoice # i
      BY <3>1, <3>3
    <3> QED
      BY <2>3, <2>6, <2>7, <3>2, <3>3, <3>4
  <2> QED
    BY <2>5, <2>7 DEF LastNamed
<1>9. ASSUME NEW i \in Invoice, Repick(i) PROVE Typed' /\ (LastNamed => LastNamed')
  <2> DEFINE k == bill[i].key
  <2>1. /\ bill[i].live /\ UNCHANGED <<today, tank, trail, gate, bill>>
        /\ \/ row' = row
           \/ row[k].live /\ row' = sync(gate, tank, trail, Moved(row, k, bill[i].to, i))
    BY <1>9 DEF Repick, Moved
  <2>2. k \in Key /\ bill[i].to \in MaybeDay /\ i \in Invoice \cup {None}
    BY <1>2
  <2>3. CASE row' = row
    BY <2>1, <2>3 DEF Typed, LastNamed
  <2>4. CASE row[k].live /\ row' = sync(gate, tank, trail, Moved(row, k, bill[i].to, i))
    <3>1. /\ row' \in [Key -> RowRec]
          /\ \A q \in Key : /\ row'[q].until = IF q = k THEN bill[i].to ELSE row[q].until
                            /\ row'[q].invoice = IF q = k THEN i ELSE row[q].invoice
                            /\ (row'[q].until # 0 \/ row'[q].invoice # None) /\ row[q].live => row'[q].live
      <4> HIDE DEF k
      <4> QED
        BY <2>2, <2>4, RowMoves
    <3>2. Typed'
      BY <2>1, <3>1 DEF Typed
    <3>3. ASSUME LastNamed, NEW q \in Key, row'[q].invoice # None
          PROVE  LET b == bill'[row'[q].invoice]
                 IN row'[q].live /\ b.live /\ b.key = q /\ row'[q].until = b.to
      <4>1. CASE q = k
        BY <2>1, <2>4, <3>1, <3>3, <4>1
      <4>2. CASE q # k
        <5>1. row'[q].invoice = row[q].invoice /\ row'[q].until = row[q].until
          BY <3>1, <4>2
        <5> QED
          BY <2>1, <3>1, <3>3, <5>1 DEF LastNamed
      <4> QED
        BY <4>1, <4>2
    <3> QED
      BY <3>2, <3>3 DEF LastNamed
  <2> QED
    BY <2>1, <2>3, <2>4
<1>10. Next => \/ YardStep
               \/ \E i \in Invoice : GiveBack(i) \/ Repick(i)
               \/ \E i \in Invoice, k \in Key, from \in Day, to \in 1..today : Bill(i, k, from, to)
  BY DEF Next, YardStep, save_bon_revision, EditDateOnDesk
<1> QED
  BY <1>5, <1>6, <1>7, <1>8, <1>9, <1>10

LedgerInv == Typed /\ RowsSplit /\ LastNamed

LEMMA LedgerInit == ASSUME Bounds, Init PROVE LedgerInv
<1>1. Typed
  BY InvInit DEF StorageInv
<1>2. LastNamed
  BY DEF Init, LastNamed, NoRow
<1> QED
  BY <1>1, <1>2, SplitStart DEF LedgerInv

LEMMA LedgerStep == ASSUME Bounds, LedgerInv, [Next]_vars PROVE LedgerInv'
BY TypedStep, SplitStep DEF LedgerInv

LEMMA LedgerIs == ASSUME LedgerInv PROVE TypeOK /\ DaysAddUp /\ LastNamed
<1>1. Typed => TypeOK
  BY Zenon DEF Typed, TypeOK, TankRec, Stay, GateRec, RowRec, BillRec, MaybeDay, Standing
<1> QED
  BY <1>1, SplitIsDays DEF LedgerInv

(* When a visit's invoices are undone and picked again newest first, the   *)
(* days behind a row's watermark are exactly those its standing invoices   *)
(* took, whatever syncs, failed writes, re-dated bons and voids come in    *)
(* between (upsert keeps billed_until; _give_back puts back what the       *)
(* invoice replaced; _refill writes back what its draft took).             *)
THEOREM WatermarksStand ==
  ASSUME BoundAssumption, SwitchAssumption, NewestFirst, RepickNewest
  PROVE  Spec => [](TypeOK /\ WatermarkAgrees)
<1>1. Bounds
  BY DEF Bounds
<1>2. Init => StorageInv
  BY <1>1, InvInit
<1>3. StorageInv /\ [Next]_vars => StorageInv'
  BY <1>1, InvStep
<1>4. StorageInv => TypeOK /\ WatermarkAgrees
  BY <1>1, ChainIsWatermark
<1> QED
  BY <1>2, <1>3, <1>4, PTL DEF Spec

(* No day of a visit is on two standing invoices, under the same rule and  *)
(* for a tank with a gate record.  The code keeps the rule only in part:   *)
(* _give_back refuses an older invoice while the row names a newer one     *)
(* (the run TwiceBilled is what gets past it), and _refill asks nothing.   *)
THEOREM DaysBilledOnce ==
  ASSUME BoundAssumption, SwitchAssumption, NewestFirst, RepickNewest, Known
  PROVE  Spec => []NoDayTwice
<1>1. Bounds
  BY DEF Bounds
<1>2. Init => StorageInv
  BY <1>1, InvInit
<1>3. StorageInv /\ [Next]_vars => StorageInv'
  BY <1>1, InvStep
<1>4. StorageInv => NoDayTwice
  BY <1>1, ChainIsApart
<1> QED
  BY <1>2, <1>3, <1>4, PTL DEF Spec

(* In whatever order invoices are undone and picked again: a ledger row    *)
(* never counts a day both as billed and as owing, nor a charged day as    *)
(* neither, and the invoice a row names stands, bills that row, and ends   *)
(* where the row's watermark is (upsert, _billed_days, _give_back,         *)
(* _move_storage_visit).                                                   *)
THEOREM StaysAddUp ==
  ASSUME BoundAssumption, SwitchAssumption
  PROVE  Spec => [](TypeOK /\ DaysAddUp /\ LastNamed)
<1>1. Bounds
  BY DEF Bounds
<1>2. Init => LedgerInv
  BY <1>1, LedgerInit
<1>3. LedgerInv /\ [Next]_vars => LedgerInv'
  BY <1>1, LedgerStep
<1>4. LedgerInv => TypeOK /\ DaysAddUp /\ LastNamed
  BY LedgerIs
<1> QED
  BY <1>2, <1>3, <1>4, PTL DEF Spec
=============================================================================
