---------------------------- MODULE RepairProofs ----------------------------
(***************************************************************************)
(* What TLAPS proves of RepairOrder for every set of orders, tests, lines  *)
(* and parts, every stock and every bound: the parts of the agreed orders  *)
(* are out of the warehouse once each, marks stay on finished orders, an   *)
(* owner's no stays a no, and a tank's last test is not dated back.        *)
(*                                                                         *)
(* Every way of an order ends in a save of it.  So each request is shown   *)
(* to prepare a save (Prepared), and the save to keep RepairInv.           *)
(***************************************************************************)
EXTENDS RepairOrder, FiniteSetTheorems, SequenceTheorems, TLAPS

EntryRec == [parts : SUBSET Stocked, live : BOOLEAN]
OrderRec(n) ==
  [status : Status, line : [Item -> Decision], entry : 0..n, plan : 0..Dates, replaced : 0..Dates,
   billed : BOOLEAN, asked : BOOLEAN]

(* An agreed order carries an issue of its parts; any other carries none.  *)
Fits(r, es) ==
  IF r.status \in Agreed /\ Wanted(r) # {}
  THEN r.entry # 0 /\ es[r.entry] = [parts |-> Wanted(r), live |-> TRUE]
  ELSE r.entry = 0

(* A mark is on a finished order; what the owner is asked is undecided.    *)
Marked(r) ==
  /\ r.billed \/ r.asked => r.status = "Completed"
  /\ r.status = "Pending Approval" => \A i \in Item : r.line[i] # "Rejected"

(* What a save may do to the owner's refusals and to the tank's date.      *)
LinesStand(o, r) ==
  \A i \in Item : mr[o].line[i] = "Rejected" => r.line[i] \in {"Rejected", "Pending", "none"}
Undone(o, r) ==
  /\ o \in Test /\ o \in Order /\ mr[o].status = "Completed" /\ mr[o].plan = tested
  /\ r.status # "Completed" \/ r.plan # mr[o].plan
Kept == OwnersNoKept /\ DateKept

Apart == \A o, q \in Order : mr[o].entry = mr[q].entry /\ mr[o].entry # 0 => o = q

Owned == \A k \in DOMAIN entries : entries[k].live => \E o \in Order : mr[o].entry = k

RepairInv == TypeOK /\ (\A o \in Order : Fits(mr[o], entries) /\ Marked(mr[o])) /\ Apart /\ Owned

(* What a request may hand to its save: the order r and the entries es, in *)
(* which nothing has happened to what the other orders carry.              *)
Prepared(o, r, es) ==
  /\ es \in Seq(EntryRec) /\ Len(es) >= Len(entries) /\ Len(es) <= MaxEntry
  /\ r \in OrderRec(Len(es)) /\ Marked(r)
  /\ \A q \in Order \ {o} : mr[q].entry # 0 => es[mr[q].entry] = entries[mr[q].entry] /\ mr[q].entry # r.entry
  /\ \A k \in DOMAIN es : es[k].live => k = r.entry \/ \E q \in Order \ {o} : mr[q].entry = k
  /\ IF r.status \in Rewound THEN r.entry = mr[o].entry ELSE Fits(r, es)

LEMMA CancelledIs ==
  ASSUME NEW es \in Seq(EntryRec), NEW k \in 0..Len(es)
  PROVE  /\ Cancelled(es, k) \in Seq(EntryRec) /\ Len(Cancelled(es, k)) = Len(es)
         /\ \A j \in 1..Len(es) : /\ j # k => Cancelled(es, k)[j] = es[j]
                                  /\ j = k => ~Cancelled(es, k)[j].live
<1>1. CASE k = 0
  BY <1>1 DEF Cancelled
<1>2. CASE k # 0
  <2> DEFINE cut == [es[k] EXCEPT !.live = FALSE]
  <2>1. k \in 1..Len(es) /\ es[k] \in EntryRec
    <3>1. Len(es) \in Nat /\ k \in 1..Len(es)
      BY <1>2
    <3> QED
      BY <3>1, ElementOfSeq
  <2>2. cut \in EntryRec /\ ~cut.live
    BY <2>1 DEF EntryRec
  <2>3. Cancelled(es, k) = [es EXCEPT ![k] = cut]
    BY <1>2 DEF Cancelled
  <2> HIDE DEF cut
  <2>4. /\ [es EXCEPT ![k] = cut] \in Seq(EntryRec) /\ Len([es EXCEPT ![k] = cut]) = Len(es)
        /\ \A j \in 1..Len(es) : [es EXCEPT ![k] = cut][j] = IF j = k THEN cut ELSE es[j]
    BY <2>1, <2>2, ExceptSeq
  <2> QED
    BY <2>2, <2>3, <2>4
<1> QED
  BY <1>1, <1>2

LEMMA SaveKeeps ==
  ASSUME BoundAssumption, RepairInv, NEW o \in Order, NEW r, NEW es, NEW date \in 0..Dates,
         Prepared(o, r, es), LinesStand(o, r), date = tested \/ Undone(o, r), Save(o, r, es, date)
  PROVE  RepairInv' /\ Kept
<1> DEFINE home == ComesHome(o, r)
           after == [r EXCEPT !.entry = IF home THEN 0 ELSE @,
                              !.replaced = IF Stamps(o, r, date) THEN date ELSE @]
<1>1. /\ mr' = [mr EXCEPT ![o] = after]
      /\ entries' = IF home THEN Cancelled(es, r.entry) ELSE es
      /\ tested' = IF Stamps(o, r, date) THEN r.plan ELSE date
      /\ typed' = typed
  BY DEF Save
<1>2. /\ es \in Seq(EntryRec) /\ Len(es) \in Nat /\ Len(es) >= Len(entries) /\ Len(es) <= MaxEntry
      /\ r \in OrderRec(Len(es)) /\ Marked(r)
  BY DEF Prepared
<1>t. mr \in [Order -> OrderRec(Len(entries))] /\ Len(entries) \in Nat /\ entries \in Seq(EntryRec)
  BY DEF RepairInv, TypeOK, OrderRec, EntryRec
<1>3. entries' \in Seq(EntryRec) /\ Len(entries') = Len(es)
  BY <1>1, <1>2, CancelledIs DEF OrderRec
<1>4. after \in OrderRec(Len(es))
  <2>1. r.entry \in 0..Len(es) /\ r.replaced \in 0..Dates
    BY <1>2 DEF OrderRec
  <2>2. (IF home THEN 0 ELSE r.entry) \in 0..Len(es)
    BY <2>1, <1>2
  <2>3. (IF Stamps(o, r, date) THEN date ELSE r.replaced) \in 0..Dates
    BY <2>1
  <2> QED
    BY <1>2, <2>2, <2>3 DEF OrderRec
<1>5. \A q \in Order : mr'[q] = IF q = o THEN after ELSE mr[q]
  BY <1>1, <1>t
<1>6. mr' \in [Order -> OrderRec(Len(entries'))]
  <2>1. \A q \in Order : mr[q] \in OrderRec(Len(es))
    <3> SUFFICES ASSUME NEW q \in Order PROVE mr[q] \in OrderRec(Len(es))
      OBVIOUS
    <3>1. mr[q] \in OrderRec(Len(entries))
      BY <1>t
    <3> QED
      BY <3>1, <1>2, <1>t DEF OrderRec
  <2>2. mr' = [q \in Order |-> IF q = o THEN after ELSE mr[q]]
    BY <1>1, <1>t
  <2> QED
    BY <2>1, <2>2, <1>3, <1>4
<1>7. TypeOK'
  <2>1. r.plan \in 0..Dates
    BY <1>2 DEF OrderRec
  <2> QED
    BY <1>1, <1>2, <1>3, <1>6, <2>1 DEF TypeOK, RepairInv, OrderRec, EntryRec
<1>8. /\ after.status = r.status /\ after.line = r.line /\ after.billed = r.billed /\ after.asked = r.asked
      /\ after.plan = r.plan /\ after.entry = IF home THEN 0 ELSE r.entry
  BY <1>2 DEF OrderRec
<1>9. home => r.entry # 0 /\ r.entry = mr[o].entry
  BY DEF ComesHome, Prepared
<1>10. \A k \in DOMAIN es : k # r.entry \/ ~home => entries'[k] = es[k]
  <2>1. r.entry \in 0..Len(es) /\ DOMAIN es = 1..Len(es)
    BY <1>2 DEF OrderRec
  <2>2. \A k \in 1..Len(es) : k # r.entry => Cancelled(es, r.entry)[k] = es[k]
    BY <2>1, <1>2, CancelledIs
  <2> QED
    BY <1>1, <2>1, <2>2
<1>11. ASSUME NEW q \in Order, q # o, mr[q].entry # 0
       PROVE  entries'[mr[q].entry] = entries[mr[q].entry] /\ mr[q].entry # r.entry
  <2>1. es[mr[q].entry] = entries[mr[q].entry] /\ mr[q].entry # r.entry
    BY <1>11 DEF Prepared
  <2>2. mr[q].entry \in DOMAIN es
    BY <1>11, <1>2, <1>t DEF OrderRec
  <2> QED
    BY <2>1, <2>2, <1>10
<1>12. Wanted(after) = Wanted(r)
  BY <1>8 DEF Wanted
<1>13. Fits(after, entries') /\ Marked(after)
  <2>1. Marked(after)
    BY <1>2, <1>8 DEF Marked
  <2>2. CASE r.status \in Rewound
    <3>1. r.status \notin Agreed
      BY <2>2 DEF Rewound, Agreed, Team
    <3>2. r.entry = mr[o].entry
      BY <2>2 DEF Prepared
    <3>3. after.entry = 0
      BY <3>2, <2>2, <1>8 DEF ComesHome
    <3> QED
      BY <2>1, <3>1, <3>3, <1>8 DEF Fits
  <2>3. CASE r.status \notin Rewound
    <3>1. ~home
      BY <2>3 DEF ComesHome
    <3>2. Fits(r, es)
      BY <2>3 DEF Prepared
    <3>3. entries' = es /\ after.entry = r.entry
      BY <3>1, <1>1, <1>8
    <3> QED
      BY <2>1, <3>2, <3>3, <1>8, <1>12 DEF Fits
  <2> QED
    BY <2>2, <2>3
<1>14. \A q \in Order : Fits(mr'[q], entries') /\ Marked(mr'[q])
  <2> SUFFICES ASSUME NEW q \in Order, q # o PROVE Fits(mr[q], entries') /\ Marked(mr[q])
    BY <1>5, <1>13
  <2>1. Fits(mr[q], entries) /\ Marked(mr[q])
    BY DEF RepairInv
  <2> QED
    BY <2>1, <1>11 DEF Fits
<1>15. Apart'
  <2> SUFFICES ASSUME NEW p \in Order, NEW q \in Order, mr'[p].entry = mr'[q].entry, mr'[p].entry # 0
               PROVE  p = q
    BY DEF Apart
  <2>1. CASE p # o /\ q # o
    BY <2>1, <1>5 DEF RepairInv, Apart
  <2>2. CASE p = o /\ q # o
    BY <2>2, <1>5, <1>8, <1>11
  <2>3. CASE p # o /\ q = o
    BY <2>3, <1>5, <1>8, <1>11
  <2> QED
    BY <2>1, <2>2, <2>3
<1>16. Owned'
  <2> SUFFICES ASSUME NEW k \in DOMAIN entries', entries'[k].live
               PROVE  \E q \in Order : mr'[q].entry = k
    BY DEF Owned
  <2>1. k \in DOMAIN es
    BY <1>2, <1>3
  <2>2. ~(home /\ k = r.entry)
    <3> SUFFICES ASSUME home, k = r.entry PROVE FALSE
      OBVIOUS
    <3>1. entries' = Cancelled(es, r.entry)
      BY <1>1
    <3> QED
      BY <3>1, <2>1, <1>2, CancelledIs DEF OrderRec
  <2>3. es[k].live
    BY <2>1, <2>2, <1>10
  <2>4. k = r.entry \/ \E q \in Order \ {o} : mr[q].entry = k
    BY <2>1, <2>3 DEF Prepared
  <2> QED
    BY <2>2, <2>4, <1>5, <1>8
<1>17. OwnersNoKept
  <2> SUFFICES ASSUME NEW q \in Order, NEW i \in Item, mr[q].line[i] = "Rejected"
               PROVE  mr'[q].line[i] \in {"Rejected", "Pending", "none"}
    BY DEF OwnersNoKept
  <2>1. CASE q = o
    BY <2>1, <1>5, <1>8 DEF LinesStand
  <2>2. CASE q # o
    BY <2>2, <1>5
  <2> QED
    BY <2>1, <2>2
<1>18. DateKept
  <2> SUFFICES ASSUME tested' < tested
               PROVE  \E q \in Test : /\ mr[q].status = "Completed" /\ mr[q].plan = tested
                                       /\ \/ mr'[q].status # "Completed"
                                          \/ mr'[q].plan # mr[q].plan
    BY DEF DateKept
  <2>1. tested \in Int /\ r.plan \in Int
    BY <1>2 DEF RepairInv, TypeOK, OrderRec
  <2>2. tested' >= date
    BY <1>1, <2>1 DEF Stamps
  <2>3. date # tested
    <3>1. tested' \in Int /\ date \in Int
      BY <1>7 DEF TypeOK
    <3> QED
      BY <2>1, <2>2, <3>1
  <2> QED
    BY <2>3, <1>5, <1>8 DEF Undone
<1> QED
  BY <1>7, <1>14, <1>15, <1>16, <1>17, <1>18 DEF RepairInv, Kept

(* A save that leaves the order's issue to the save.                       *)
LEMMA PlainSave ==
  ASSUME BoundAssumption, RepairInv, NEW o \in Order, NEW r \in OrderRec(Len(entries)), NEW date \in 0..Dates,
         r.entry = mr[o].entry, Marked(r),
         \/ r.status \in Rewound
         \/ r.status \notin Agreed /\ mr[o].status \notin Agreed
         \/ r.status \in Agreed /\ mr[o].status \in Agreed /\ Wanted(r) = Wanted(mr[o]),
         LinesStand(o, r), date = tested \/ Undone(o, r), Save(o, r, entries, date)
  PROVE  RepairInv' /\ Kept
<1>1. /\ entries \in Seq(EntryRec) /\ Len(entries) \in Nat /\ Len(entries) <= MaxEntry
      /\ DOMAIN entries = 1..Len(entries)
  BY DEF RepairInv, TypeOK, EntryRec
<1>2. ASSUME NEW q \in Order \ {o}, mr[q].entry # 0 PROVE mr[q].entry # r.entry
  BY <1>2 DEF RepairInv, Apart
<1>3. ASSUME NEW k \in DOMAIN entries, entries[k].live
      PROVE  k = r.entry \/ \E q \in Order \ {o} : mr[q].entry = k
  BY <1>3 DEF RepairInv, Owned
<1>4. Fits(mr[o], entries)
  BY DEF RepairInv
<1>5. r.status \in Rewound \/ Fits(r, entries)
  BY <1>4 DEF Fits
<1>6. Prepared(o, r, entries)
  BY <1>1, <1>2, <1>3, <1>5 DEF Prepared
<1> QED
  BY <1>6, SaveKeeps

(* A save that first takes the parts of r out of stock, if it must.        *)
LEMMA IssuingSave ==
  ASSUME BoundAssumption, RepairInv, NEW o \in Order, NEW r \in OrderRec(Len(entries)),
         r.entry = mr[o].entry, mr[o].entry = 0 \/ (mr[o].status \in Agreed /\ Wanted(r) = Wanted(mr[o])),
         Issues(r) => Len(entries) < MaxEntry,
         NEW s \in OrderRec(Len(AfterIssue(r))), s.entry = Issued(r).entry, s.line = r.line,
         s.status \in Agreed, Marked(s), LinesStand(o, s),
         Save(o, s, AfterIssue(r), tested)
  PROVE  RepairInv' /\ Kept
<1>1. /\ entries \in Seq(EntryRec) /\ Len(entries) \in Nat /\ Len(entries) <= MaxEntry /\ MaxEntry \in Nat
      /\ DOMAIN entries = 1..Len(entries) /\ tested \in 0..Dates
  BY DEF RepairInv, TypeOK, EntryRec, BoundAssumption
<1>2. Wanted(s) = Wanted(r)
  BY DEF Wanted
<1>3. s.status \notin Rewound
  BY DEF Rewound, Agreed, Team
<1>4. CASE Issues(r)
  <2> DEFINE new == [parts |-> Wanted(r), live |-> TRUE]
             es == Append(entries, new)
  <2>1. AfterIssue(r) = es /\ s.entry = Len(entries) + 1 /\ mr[o].entry = 0
    BY <1>4 DEF AfterIssue, Issued, OrderRec, Issues
  <2>2. new \in EntryRec
    BY DEF EntryRec, Wanted
  <2> HIDE DEF new
  <2>3. /\ es \in Seq(EntryRec) /\ Len(es) = Len(entries) + 1 /\ DOMAIN es = 1..(Len(entries) + 1)
        /\ es[Len(entries) + 1] = new /\ \A k \in DOMAIN entries : es[k] = entries[k]
    BY <1>1, <2>2
  <2> HIDE DEF es
  <2>4. ASSUME NEW q \in Order \ {o}, mr[q].entry # 0
        PROVE  es[mr[q].entry] = entries[mr[q].entry] /\ mr[q].entry # s.entry
    <3>1. mr[q].entry \in 0..Len(entries)
      BY DEF RepairInv, TypeOK
    <3> QED
      BY <3>1, <2>4, <2>1, <2>3, <1>1
  <2>5. ASSUME NEW k \in DOMAIN es, es[k].live
        PROVE  k = s.entry \/ \E q \in Order \ {o} : mr[q].entry = k
    <3>1. CASE k = Len(entries) + 1
      BY <3>1, <2>1
    <3>2. CASE k # Len(entries) + 1
      <4>1. k \in DOMAIN entries /\ entries[k].live /\ k # 0
        BY <3>2, <2>3, <2>5, <1>1
      <4> QED
        BY <4>1, <2>1 DEF RepairInv, Owned
    <3> QED
      BY <3>1, <3>2
  <2>6. Fits(s, es)
    BY <2>1, <2>3, <1>1, <1>2, <1>4 DEF Fits, new, Issues
  <2>7. Len(es) >= Len(entries) /\ Len(es) <= MaxEntry
    BY <2>3, <1>1, <1>4
  <2>8. Prepared(o, s, es)
    BY <1>3, <2>1, <2>3, <2>4, <2>5, <2>6, <2>7 DEF Prepared
  <2> QED
    BY <2>1, <2>8, <1>1, SaveKeeps
<1>5. CASE ~Issues(r)
  <2>1. AfterIssue(r) = entries /\ s.entry = mr[o].entry
    BY <1>5 DEF AfterIssue, Issued
  <2>2. Fits(mr[o], entries)
    BY DEF RepairInv
  <2>3. \/ mr[o].status \in Agreed /\ Wanted(s) = Wanted(mr[o])
        \/ mr[o].entry = 0 /\ Wanted(s) = {}
    BY <1>2, <1>5 DEF Issues
  <2>4. Fits(s, entries)
    BY <2>1, <2>2, <2>3 DEF Fits
  <2>5. ASSUME NEW q \in Order \ {o}, mr[q].entry # 0 PROVE mr[q].entry # s.entry
    BY <2>5, <2>1 DEF RepairInv, Apart
  <2>6. ASSUME NEW k \in DOMAIN entries, entries[k].live
        PROVE  k = s.entry \/ \E q \in Order \ {o} : mr[q].entry = k
    BY <2>6, <2>1 DEF RepairInv, Owned
  <2>7. Prepared(o, s, entries)
    BY <1>1, <1>3, <2>1, <2>4, <2>5, <2>6 DEF Prepared
  <2> QED
    BY <2>1, <2>7, <1>1, SaveKeeps
<1> QED
  BY <1>4, <1>5

LEMMA OrderIs ==
  ASSUME RepairInv, NEW o \in Order
  PROVE  /\ mr[o] \in OrderRec(Len(entries)) /\ Fits(mr[o], entries) /\ Marked(mr[o])
         /\ tested \in 0..Dates /\ mr \in [Order -> OrderRec(Len(entries))]
  BY DEF RepairInv, TypeOK, OrderRec

LEMMA UndecidedIs ==
  ASSUME NEW n, NEW r \in OrderRec(n)
  PROVE  /\ Undecided(r) \in OrderRec(n) /\ Undecided(r).entry = r.entry /\ Undecided(r).status = r.status
         /\ Undecided(r).billed = r.billed /\ Undecided(r).asked = r.asked
         /\ \A i \in Item : Undecided(r).line[i] \in {"Pending", "none"}
<1>1. [i \in Item |-> IF r.line[i] = "none" THEN "none" ELSE "Pending"] \in [Item -> Decision]
  BY DEF Decision
<1> QED
  BY <1>1 DEF Undecided, OrderRec

LEMMA ApproveIs ==
  ASSUME NEW n, NEW r \in OrderRec(n)
  PROVE  /\ Approve(r) \in OrderRec(n) /\ Approve(r).entry = r.entry /\ Approve(r).status = "Approved"
         /\ Approve(r).billed = r.billed /\ Approve(r).asked = r.asked
         /\ \A i \in Item : r.line[i] = "Rejected" => Approve(r).line[i] = "Rejected"
<1>1. [i \in Item |-> IF r.line[i] = "Pending" THEN "Approved" ELSE r.line[i]] \in [Item -> Decision]
  BY DEF Decision, OrderRec
<1>2. "Approved" \in Status
  BY DEF Status, Agreed
<1> QED
  BY <1>1, <1>2 DEF Approve, OrderRec

LEMMA WithoutIs ==
  ASSUME NEW n, NEW r \in OrderRec(n), NEW o, tested \in 0..Dates, BoundAssumption
  PROVE  /\ Without(o, r) \in OrderRec(n) /\ Without(o, r).entry = r.entry /\ Without(o, r).status = r.status
         /\ Without(o, r).line = r.line /\ Without(o, r).plan = r.plan
         /\ Without(o, r).billed = r.billed /\ Without(o, r).asked = r.asked
         /\ DateWithout(o, r) \in 0..Dates
<1>1. r.replaced \in 0..Dates /\ 0 \in 0..Dates
  BY DEF OrderRec, BoundAssumption
<1> QED
  BY <1>1 DEF Without, DateWithout, OrderRec

(* The moves that only change the status of an order that stays where its  *)
(* parts are, or that send its parts home.                                 *)
LEMMA DeskMoves ==
  ASSUME BoundAssumption, RepairInv, NEW o \in Order,
         \/ publish_to_owner(o) \/ withdraw_from_owner(o) \/ reopen_to_draft(o) \/ Cancel(o)
         \/ start_repair(o) \/ submit_for_review(o) \/ withdraw_review(o) \/ finalize_repair(o)
  PROVE  RepairInv' /\ Kept
<1> USE OrderIs
<1>1. CASE publish_to_owner(o)
  <2> DEFINE r == [Undecided(mr[o]) EXCEPT !.status = "Pending Approval"]
  <2>u. /\ Undecided(mr[o]) \in OrderRec(Len(entries)) /\ Undecided(mr[o]).entry = mr[o].entry
        /\ Undecided(mr[o]).billed = mr[o].billed /\ Undecided(mr[o]).asked = mr[o].asked
        /\ \A i \in Item : Undecided(mr[o]).line[i] \in {"Pending", "none"}
    BY UndecidedIs
  <2>1. /\ r \in OrderRec(Len(entries)) /\ r.entry = mr[o].entry /\ r.status = "Pending Approval"
        /\ r.billed = mr[o].billed /\ r.asked = mr[o].asked /\ r.line = Undecided(mr[o]).line
    BY <2>u DEF OrderRec, Status
  <2> HIDE DEF r
  <2>2. Save(o, r, entries, tested) /\ mr[o].status \in Editable
    BY <1>1 DEF publish_to_owner, r
  <2>3. Marked(r) /\ LinesStand(o, r)
    BY <2>u, <2>1, <2>2 DEF Marked, Editable, LinesStand
  <2> QED
    BY <2>1, <2>2, <2>3, PlainSave DEF Editable, Agreed, Team
<1>2. CASE withdraw_from_owner(o) \/ reopen_to_draft(o)
  <2> DEFINE r == [Undecided(mr[o]) EXCEPT !.status = "Draft"]
  <2>u. /\ Undecided(mr[o]) \in OrderRec(Len(entries)) /\ Undecided(mr[o]).entry = mr[o].entry
        /\ Undecided(mr[o]).billed = mr[o].billed /\ Undecided(mr[o]).asked = mr[o].asked
        /\ \A i \in Item : Undecided(mr[o]).line[i] \in {"Pending", "none"}
    BY UndecidedIs
  <2>1. /\ r \in OrderRec(Len(entries)) /\ r.entry = mr[o].entry /\ r.status = "Draft"
        /\ r.billed = mr[o].billed /\ r.asked = mr[o].asked /\ r.line = Undecided(mr[o]).line
    BY <2>u DEF OrderRec, Status, Editable
  <2> HIDE DEF r
  <2>2. Save(o, r, entries, tested) /\ mr[o].status # "Completed"
    BY <1>2 DEF withdraw_from_owner, reopen_to_draft, Team, r
  <2>3. Marked(r) /\ LinesStand(o, r)
    BY <2>u, <2>1, <2>2 DEF Marked, LinesStand
  <2> QED
    BY <2>1, <2>2, <2>3, PlainSave DEF Rewound
<1>3. CASE Cancel(o)
  <2> DEFINE r == [mr[o] EXCEPT !.status = "Cancelled"]
  <2>1. /\ r \in OrderRec(Len(entries)) /\ r.entry = mr[o].entry /\ r.status = "Cancelled"
        /\ r.billed = mr[o].billed /\ r.asked = mr[o].asked /\ r.line = mr[o].line
    BY DEF OrderRec, Status, Final
  <2> HIDE DEF r
  <2>2. Save(o, r, entries, tested) /\ Goes(o, "Cancelled")
    BY <1>3 DEF Cancel, r
  <2>3. mr[o].status # "Completed"
    BY <2>2 DEF Goes, MR_TRANSITIONS, OrderRec
  <2>4. Marked(r) /\ LinesStand(o, r)
    BY <2>1, <2>3 DEF Marked, LinesStand
  <2> QED
    BY <2>1, <2>2, <2>4, PlainSave DEF Rewound
<1>4. ASSUME NEW st \in Agreed, st # "Completed", Save(o, [mr[o] EXCEPT !.status = st], entries, tested),
             mr[o].status \in Agreed, mr[o].status # "Completed"
      PROVE  RepairInv' /\ Kept
  <2> DEFINE r == [mr[o] EXCEPT !.status = st]
  <2>1. /\ r \in OrderRec(Len(entries)) /\ r.entry = mr[o].entry /\ r.status = st /\ r.line = mr[o].line
        /\ r.billed = mr[o].billed /\ r.asked = mr[o].asked
    BY <1>4 DEF OrderRec, Status
  <2>2. Save(o, r, entries, tested)
    BY <1>4
  <2> HIDE DEF r
  <2>3. Marked(r) /\ Wanted(r) = Wanted(mr[o]) /\ LinesStand(o, r)
    BY <2>1, <1>4 DEF Marked, Wanted, LinesStand, Agreed, Team
  <2> QED
    BY <1>4, <2>1, <2>2, <2>3, PlainSave
<1>5. CASE start_repair(o) \/ submit_for_review(o) \/ withdraw_review(o)
  BY <1>4, <1>5 DEF start_repair, submit_for_review, withdraw_review, Agreed, Team
<1>6. CASE finalize_repair(o)
  <2> DEFINE r == [mr[o] EXCEPT !.status = "Completed", !.asked = FALSE]
  <2>1. /\ r \in OrderRec(Len(entries)) /\ r.entry = mr[o].entry /\ r.status = "Completed" /\ r.line = mr[o].line
    BY DEF OrderRec, Status, Final
  <2> HIDE DEF r
  <2>2. Save(o, r, entries, tested) /\ mr[o].status \in Agreed
    BY <1>6 DEF finalize_repair, r, Agreed, Team
  <2>3. Marked(r) /\ Wanted(r) = Wanted(mr[o]) /\ LinesStand(o, r)
    BY <2>1 DEF Marked, Wanted, LinesStand
  <2> QED
    BY <2>1, <2>2, <2>3, PlainSave DEF Agreed
<1> QED
  BY <1>1, <1>2, <1>3, <1>5, <1>6

(* What a request puts into an order in stages of the team or of the desk, *)
(* after parts were issued where they had to be.                           *)
LEMMA IssuedIs ==
  ASSUME BoundAssumption, RepairInv, NEW r \in OrderRec(Len(entries))
  PROVE  /\ Issued(r) \in OrderRec(Len(AfterIssue(r))) /\ Issued(r).line = r.line /\ Issued(r).status = r.status
         /\ Issued(r).billed = r.billed /\ Issued(r).asked = r.asked
<1>1. entries \in Seq(EntryRec) /\ Len(entries) \in Nat
  BY DEF RepairInv, TypeOK, EntryRec
<1>2. CASE Issues(r)
  <2>1. [parts |-> Wanted(r), live |-> TRUE] \in EntryRec
    BY DEF EntryRec, Wanted
  <2>2. Len(AfterIssue(r)) = Len(entries) + 1
    BY <1>1, <1>2, <2>1 DEF AfterIssue
  <2>3. Issued(r) = [r EXCEPT !.entry = Len(entries) + 1]
    BY <1>2 DEF Issued
  <2>4. Len(entries) + 1 \in 0..(Len(entries) + 1) /\ \A e \in 0..Len(entries) : e \in 0..(Len(entries) + 1)
    BY <1>1
  <2> QED
    BY <2>2, <2>3, <2>4 DEF OrderRec
<1>3. CASE ~Issues(r)
  BY <1>3 DEF Issued, AfterIssue
<1> QED
  BY <1>2, <1>3

LEMMA ApprovingSave ==
  ASSUME BoundAssumption, RepairInv, NEW o \in Order, NEW r \in OrderRec(Len(entries)),
         mr[o].status \notin Agreed, r.entry = mr[o].entry, ~r.billed, ~r.asked, CanApprove(r),
         \A i \in Item : mr[o].line[i] = "Rejected" => r.line[i] = "Rejected",
         NEW s, s \in {Issued(Approve(r)), [Issued(Approve(r)) EXCEPT !.status = "Pending"],
                       [Issued(Approve(r)) EXCEPT !.status = "Completed", !.asked = FALSE]},
         Save(o, s, AfterIssue(Approve(r)), tested)
  PROVE  RepairInv' /\ Kept
<1> DEFINE a == Approve(r)
<1>1. a \in OrderRec(Len(entries)) /\ a.entry = mr[o].entry /\ a.status = "Approved" /\ ~a.billed /\ ~a.asked
  BY ApproveIs
<1>r. LinesStand(o, a)
  BY ApproveIs DEF LinesStand
<1>2. Issues(a) => Len(entries) < MaxEntry
  BY DEF CanApprove, CanIssue
<1>3. mr[o].entry = 0
  BY OrderIs DEF Fits
<1>4. s \in {Issued(a), [Issued(a) EXCEPT !.status = "Pending"], [Issued(a) EXCEPT !.status = "Completed", !.asked = FALSE]}
  OBVIOUS
<1>5. Save(o, s, AfterIssue(a), tested)
  OBVIOUS
<1> HIDE DEF a
<1>6. /\ Issued(a) \in OrderRec(Len(AfterIssue(a))) /\ Issued(a).line = a.line /\ Issued(a).status = "Approved"
      /\ ~Issued(a).billed /\ ~Issued(a).asked
  BY <1>1, IssuedIs
<1> DEFINE i == Issued(a)
           n == Len(AfterIssue(a))
<1>7. i \in OrderRec(n) /\ i.line = a.line /\ i.status = "Approved" /\ ~i.billed /\ ~i.asked
  BY <1>6
<1>8. s \in {i, [i EXCEPT !.status = "Pending"], [i EXCEPT !.status = "Completed", !.asked = FALSE]}
  BY <1>4
<1> HIDE DEF i, n
<1>9. s \in OrderRec(n) /\ s.entry = i.entry /\ s.line = a.line /\ s.status \in Agreed /\ Marked(s) /\ LinesStand(o, s)
  <2>0. s.line = a.line => LinesStand(o, s)
    BY <1>r DEF LinesStand
  <2>1. CASE s = i
    BY <2>0, <1>7, <2>1 DEF Marked, Agreed
  <2>2. CASE s = [i EXCEPT !.status = "Pending"]
    BY <2>0, <1>7, <2>2 DEF OrderRec, Marked, Agreed, Team, Status
  <2>3. CASE s = [i EXCEPT !.status = "Completed", !.asked = FALSE]
    BY <2>0, <1>7, <2>3 DEF OrderRec, Marked, Agreed, Status
  <2> QED
    BY <1>8, <2>1, <2>2, <2>3
<1> QED
  BY <1>1, <1>2, <1>3, <1>5, <1>9, IssuingSave DEF i, n

LEMMA HandOverSave ==
  ASSUME BoundAssumption, RepairInv, NEW o \in Order, mr[o].status \in Agreed, mr[o].status # "Completed",
         NEW s, s \in {[Issued(mr[o]) EXCEPT !.status = "Pending"],
                       [Issued(mr[o]) EXCEPT !.status = "Completed", !.asked = FALSE]},
         Save(o, s, AfterIssue(mr[o]), tested)
  PROVE  RepairInv' /\ Kept
<1>1. /\ mr[o] \in OrderRec(Len(entries)) /\ Fits(mr[o], entries) /\ ~mr[o].billed /\ ~mr[o].asked
  BY OrderIs DEF Marked
<1>2. ~Issues(mr[o])
  BY <1>1 DEF Issues, Fits
<1>3. Issued(mr[o]) = mr[o] /\ AfterIssue(mr[o]) = entries
  BY <1>2 DEF Issued, AfterIssue
<1>4. s \in {[mr[o] EXCEPT !.status = "Pending"], [mr[o] EXCEPT !.status = "Completed", !.asked = FALSE]}
  BY <1>3
<1>5. /\ s \in OrderRec(Len(entries)) /\ s.entry = mr[o].entry /\ s.line = mr[o].line
      /\ s.status \in Agreed /\ Marked(s)
  <2>1. CASE s = [mr[o] EXCEPT !.status = "Pending"]
    BY <1>1, <2>1 DEF OrderRec, Marked, Agreed, Team, Status
  <2>2. CASE s = [mr[o] EXCEPT !.status = "Completed", !.asked = FALSE]
    BY <1>1, <2>2 DEF OrderRec, Marked, Agreed, Status
  <2> QED
    BY <1>4, <2>1, <2>2
<1>6. Wanted(s) = Wanted(mr[o]) /\ LinesStand(o, s)
  BY <1>5 DEF Wanted, LinesStand
<1> QED
  BY <1>3, <1>5, <1>6, OrderIs, PlainSave

LEMMA ApprovalMoves ==
  ASSUME BoundAssumption, RepairInv, NEW o \in Order,
         bypass_approval(o) \/ forward_to_team(o) \/ submit_direct(o)
  PROVE  RepairInv' /\ Kept
<1>1. /\ mr[o] \in OrderRec(Len(entries)) /\ Marked(mr[o])
  BY OrderIs
<1>2. CASE bypass_approval(o)
  <2>1. mr[o].status \in Editable /\ CanApprove(mr[o])
        /\ Save(o, Issued(Approve(mr[o])), AfterIssue(Approve(mr[o])), tested)
    BY <1>2 DEF bypass_approval
  <2>2. mr[o].status \notin Agreed /\ ~mr[o].billed /\ ~mr[o].asked
    BY <1>1, <2>1 DEF Editable, Agreed, Team, Marked
  <2> QED
    BY <1>1, <2>1, <2>2, ApprovingSave
<1>3. CASE forward_to_team(o)
  <2> DEFINE s == [Issued(Onward(o)) EXCEPT !.status = "Pending"]
  <2>1. mr[o].status \in Editable \cup {"Approved"} /\ (mr[o].status \in Editable => CanApprove(mr[o]))
        /\ Save(o, s, AfterIssue(Onward(o)), tested)
    BY <1>3 DEF forward_to_team
  <2>2. CASE mr[o].status \in Editable
    <3>1. Onward(o) = Approve(mr[o])
      BY <2>2 DEF Onward
    <3>2. mr[o].status \notin Agreed /\ ~mr[o].billed /\ ~mr[o].asked
      BY <1>1, <2>2 DEF Editable, Agreed, Team, Marked
    <3> QED
      BY <1>1, <2>1, <2>2, <3>1, <3>2, ApprovingSave
  <2>3. CASE mr[o].status = "Approved"
    <3>1. Onward(o) = mr[o]
      BY <2>3 DEF Onward, Editable
    <3> QED
      BY <2>1, <2>3, <3>1, HandOverSave DEF Agreed
  <2> QED
    BY <2>1, <2>2, <2>3
<1>4. CASE submit_direct(o)
  <2> DEFINE s == [Issued(Onward(o)) EXCEPT !.status = "Completed", !.asked = FALSE]
  <2>1. /\ mr[o].status \in Editable \cup {"Pending Approval", "Approved"} \cup Team
        /\ (mr[o].status \in Editable \cup {"Pending Approval"} => CanApprove(mr[o]))
        /\ Save(o, s, AfterIssue(Onward(o)), tested)
    BY <1>4 DEF submit_direct
  <2>2. CASE mr[o].status \in Editable \cup {"Pending Approval"}
    <3>1. Onward(o) = Approve(mr[o])
      BY <2>2 DEF Onward
    <3>2. mr[o].status \notin Agreed /\ ~mr[o].billed /\ ~mr[o].asked
      BY <1>1, <2>2 DEF Editable, Agreed, Team, Marked
    <3> QED
      BY <1>1, <2>1, <2>2, <3>1, <3>2, ApprovingSave
  <2>3. CASE mr[o].status \in {"Approved"} \cup Team
    <3>1. Onward(o) = mr[o]
      BY <2>3 DEF Onward, Editable, Team
    <3> QED
      BY <2>1, <2>3, <3>1, HandOverSave DEF Agreed, Team
  <2> QED
    BY <2>1, <2>2, <2>3
<1> QED
  BY <1>2, <1>3, <1>4

LEMMA OwnersAnswer ==
  ASSUME BoundAssumption, RepairInv, NEW o \in Order, NEW decision, NEW line \in [Item -> Decision],
         record_decision(o, decision, line)
  PROVE  RepairInv' /\ Kept
<1> DEFINE answered == [mr[o] EXCEPT !.line = line]
           refused == [i \in Item |-> IF line[i] = "none" THEN "none" ELSE "Rejected"]
<1>1. mr[o] \in OrderRec(Len(entries)) /\ Marked(mr[o])
  BY OrderIs
<1>2. mr[o].status = "Pending Approval"
  BY DEF record_decision
<1>3. answered \in OrderRec(Len(entries)) /\ answered.entry = mr[o].entry /\ ~answered.billed /\ ~answered.asked
  BY <1>1, <1>2 DEF OrderRec, Marked
<1>4. mr[o].status \notin Agreed /\ \A i \in Item : mr[o].line[i] # "Rejected"
  BY <1>1, <1>2 DEF Agreed, Team, Marked
<1>r. \A r : LinesStand(o, r)
  BY <1>4 DEF LinesStand
<1>5. CASE decision = "Revision Requested" /\ Save(o, [answered EXCEPT !.status = decision], entries, tested)
  <2> DEFINE r == [answered EXCEPT !.status = decision]
  <2>1. Save(o, r, entries, tested)
    BY <1>5
  <2> HIDE DEF answered
  <2>2. /\ r \in OrderRec(Len(entries)) /\ r.entry = mr[o].entry /\ Marked(r) /\ r.status = "Revision Requested"
    BY <1>3, <1>5 DEF OrderRec, Marked, Status, Editable
  <2> HIDE DEF r
  <2> QED
    BY <1>4, <1>r, <2>1, <2>2, OrderIs, PlainSave DEF Agreed, Team
<1>6. CASE /\ decision = "Rejected"
           /\ Save(o, [answered EXCEPT !.status = decision, !.line = refused], entries, tested)
  <2> DEFINE r == [answered EXCEPT !.status = decision, !.line = refused]
  <2>1. Save(o, r, entries, tested)
    BY <1>6
  <2>2. refused \in [Item -> Decision]
    BY DEF Decision
  <2> HIDE DEF answered, refused
  <2>3. /\ r \in OrderRec(Len(entries)) /\ r.entry = mr[o].entry /\ Marked(r) /\ r.status = "Rejected"
    BY <1>3, <1>6, <2>2 DEF OrderRec, Marked, Status, Final
  <2> HIDE DEF r
  <2> QED
    BY <1>r, <2>1, <2>3, OrderIs, PlainSave DEF Rewound
<1>7. CASE CanApprove(answered) /\ Save(o, Issued(Approve(answered)), AfterIssue(Approve(answered)), tested)
  <2> HIDE DEF answered
  <2> QED
    BY <1>3, <1>4, <1>7, ApprovingSave
<1> QED
  BY <1>5, <1>6, <1>7 DEF record_decision

LEMMA Edits ==
  ASSUME BoundAssumption, RepairInv, NEW o \in Order,
         \/ \E S \in SUBSET Item, fresh \in BOOLEAN : EditLines(o, S, fresh)
         \/ \E d \in 1..Dates : EditDate(o, d)
         \/ reopen_completed(o)
  PROVE  RepairInv' /\ Kept
<1>1. mr[o] \in OrderRec(Len(entries)) /\ Marked(mr[o]) /\ tested \in 0..Dates
  BY OrderIs
<1>2. ASSUME NEW S \in SUBSET Item, NEW fresh \in BOOLEAN, EditLines(o, S, fresh) PROVE RepairInv' /\ Kept
  <2> DEFINE row(i) == IF i \notin S THEN "none"
                       ELSE IF fresh \/ mr[o].line[i] = "none" THEN "Pending" ELSE mr[o].line[i]
             rows == [i \in Item |-> row(i)]
             r == [mr[o] EXCEPT !.line = rows]
  <2>1. Save(o, r, entries, tested) /\ mr[o].status \in Editable
    BY <1>2 DEF EditLines
  <2>2. rows \in [Item -> Decision]
    BY <1>1 DEF OrderRec, Decision
  <2> HIDE DEF rows
  <2>3. r \in OrderRec(Len(entries)) /\ r.entry = mr[o].entry /\ r.status = mr[o].status /\ Marked(r)
        /\ r.line = rows
    BY <1>1, <2>1, <2>2 DEF OrderRec, Marked, Editable
  <2> HIDE DEF r
  <2>4. mr[o].status \notin Agreed
    BY <2>1 DEF Editable, Agreed, Team
  <2>5. LinesStand(o, r)
    BY <2>3 DEF LinesStand, rows
  <2> QED
    BY <1>1, <2>1, <2>3, <2>4, <2>5, PlainSave
<1>3. ASSUME NEW d \in 1..Dates, EditDate(o, d) PROVE RepairInv' /\ Kept
  <2> DEFINE r == [mr[o] EXCEPT !.plan = d]
  <2>1. Save(o, r, entries, tested)
    BY <1>3 DEF EditDate
  <2>2. d \in 0..Dates
    BY <1>3 DEF BoundAssumption
  <2>3. /\ r \in OrderRec(Len(entries)) /\ r.entry = mr[o].entry /\ r.status = mr[o].status /\ Marked(r)
        /\ r.line = mr[o].line
    BY <1>1, <2>2 DEF OrderRec, Marked
  <2> HIDE DEF r
  <2>4. Wanted(r) = Wanted(mr[o]) /\ LinesStand(o, r)
    BY <2>3 DEF Wanted, LinesStand
  <2> QED
    BY <1>1, <2>1, <2>3, <2>4, PlainSave
<1>4. CASE reopen_completed(o)
  <2> DEFINE w == Without(o, mr[o])
             r == [w EXCEPT !.status = "In Progress", !.asked = FALSE]
  <2>1. Save(o, r, entries, DateWithout(o, mr[o])) /\ mr[o].status = "Completed" /\ ~mr[o].billed
    BY <1>4 DEF reopen_completed
  <2>2. /\ w \in OrderRec(Len(entries)) /\ w.entry = mr[o].entry /\ w.line = mr[o].line /\ ~w.billed
        /\ DateWithout(o, mr[o]) \in 0..Dates
    BY <1>1, <2>1, WithoutIs
  <2> HIDE DEF w
  <2>3. /\ r \in OrderRec(Len(entries)) /\ r.entry = mr[o].entry /\ r.status = "In Progress" /\ Marked(r)
        /\ r.line = mr[o].line
    BY <2>2 DEF OrderRec, Marked, Status, Agreed, Team
  <2> HIDE DEF r
  <2>4. Wanted(r) = Wanted(mr[o]) /\ LinesStand(o, r)
    BY <2>3 DEF Wanted, LinesStand
  <2>5. DateWithout(o, mr[o]) = tested \/ Undone(o, r)
    BY <2>1, <2>3 DEF DateWithout, Restores, Undone
  <2> QED
    BY <2>1, <2>2, <2>3, <2>4, <2>5, PlainSave DEF Agreed, Team
<1> QED
  BY <1>2, <1>3, <1>4

LEMMA FreshIs ==
  ASSUME BoundAssumption, NEW n \in Nat
  PROVE  /\ Fresh \in OrderRec(n) /\ Fresh.entry = 0 /\ Fresh.status = "New" /\ ~Fresh.billed /\ ~Fresh.asked
         /\ Fresh.line = [i \in Item |-> "none"]
<1>1. [i \in Item |-> "none"] \in [Item -> Decision] /\ "New" \in Status /\ 0 \in 0..n /\ 0 \in 0..Dates
  BY DEF Decision, Status, BoundAssumption
<1> QED
  BY <1>1 DEF Fresh, OrderRec

(* Revisi Data of a finished order.                                        *)
LEMMA RevisionKeeps ==
  ASSUME BoundAssumption, RepairInv, NEW o \in Order, NEW S \in SUBSET Item, NEW d \in 1..Dates, Revise(o, S, d)
  PROVE  RepairInv' /\ Kept
<1> DEFINE b == mr[o]
           row(i) == IF i \notin S THEN "none" ELSE IF b.line[i] = "none" THEN "Pending" ELSE b.line[i]
           rows == [i \in Item |-> row(i)]
           moved == IF d # b.plan THEN Without(o, b).replaced ELSE b.replaced
           r == [b EXCEPT !.line = rows, !.plan = d, !.asked = FALSE, !.replaced = moved]
           back == Cancelled(entries, b.entry)
           date == IF d # b.plan THEN DateWithout(o, b) ELSE tested
<1>1. /\ b.status = "Completed" /\ ~b.billed
      /\ \/ Wanted(r) = Wanted(b) /\ Save(o, r, entries, date)
         \/ Wanted(r) # Wanted(b) /\ Wanted(r) = {} /\ Save(o, [r EXCEPT !.entry = 0], back, date)
         \/ /\ Wanted(r) # Wanted(b) /\ Wanted(r) # {} /\ Len(entries) < MaxEntry
            /\ Save(o, [r EXCEPT !.entry = Len(back) + 1],
                    Append(back, [parts |-> Wanted(r), live |-> TRUE]), date)
  BY DEF Revise
<1>2. /\ b \in OrderRec(Len(entries)) /\ Fits(b, entries) /\ Marked(b) /\ tested \in 0..Dates
      /\ mr \in [Order -> OrderRec(Len(entries))]
  BY OrderIs
<1>3. /\ entries \in Seq(EntryRec) /\ Len(entries) \in Nat /\ Len(entries) <= MaxEntry /\ MaxEntry \in Nat
      /\ DOMAIN entries = 1..Len(entries)
  BY DEF RepairInv, TypeOK, EntryRec, BoundAssumption
<1>4. rows \in [Item -> Decision]
  BY <1>2 DEF OrderRec, Decision
<1>5. moved \in 0..Dates /\ date \in 0..Dates /\ d \in 0..Dates
  <2>1. Without(o, b) \in OrderRec(Len(entries)) /\ DateWithout(o, b) \in 0..Dates
    BY <1>2, WithoutIs
  <2> QED
    BY <1>2, <2>1 DEF OrderRec, BoundAssumption
<1> HIDE DEF rows, moved, date
<1>6. /\ r \in OrderRec(Len(entries)) /\ r.entry = b.entry /\ r.status = "Completed" /\ Marked(r)
      /\ r.line = rows /\ r.plan = d
  BY <1>1, <1>2, <1>4, <1>5 DEF OrderRec, Marked
<1>l. ASSUME NEW s, s.line = r.line PROVE LinesStand(o, s)
  BY <1>6, <1>l DEF LinesStand, rows
<1>d. ASSUME NEW s, s.plan = d PROVE date = tested \/ Undone(o, s)
  BY <1>1, <1>d DEF date, DateWithout, Restores, Undone
<1> HIDE DEF r
<1>7. /\ back \in Seq(EntryRec) /\ Len(back) = Len(entries)
      /\ \A j \in 1..Len(entries) : /\ j # b.entry => back[j] = entries[j]
                                    /\ j = b.entry => ~back[j].live
  BY <1>2, <1>3, CancelledIs DEF OrderRec
<1> HIDE DEF back
<1>8. ASSUME NEW q \in Order \ {o}, mr[q].entry # 0
      PROVE  mr[q].entry \in 1..Len(entries) /\ mr[q].entry # b.entry /\ back[mr[q].entry] = entries[mr[q].entry]
  <2>1. mr[q].entry \in 0..Len(entries)
    BY <1>2 DEF OrderRec
  <2>2. mr[q].entry # b.entry
    BY <1>8 DEF RepairInv, Apart
  <2> QED
    BY <2>1, <2>2, <1>3, <1>7, <1>8
<1>9. ASSUME NEW k \in 1..Len(entries), back[k].live
      PROVE  \E q \in Order \ {o} : mr[q].entry = k
  <2>1. k # b.entry /\ entries[k].live
    BY <1>7, <1>9
  <2> QED
    BY <2>1, <1>3 DEF RepairInv, Owned
<1>10. CASE Wanted(r) = Wanted(b) /\ Save(o, r, entries, date)
  BY <1>1, <1>5, <1>6, <1>10, <1>l, <1>d, PlainSave DEF Agreed
<1>11. CASE Wanted(r) = {} /\ Save(o, [r EXCEPT !.entry = 0], back, date)
  <2> DEFINE s == [r EXCEPT !.entry = 0]
  <2>0. 0 \in 0..Len(entries) /\ Len(back) = Len(entries)
    BY <1>3, <1>7
  <2>1. /\ s \in OrderRec(Len(back)) /\ s.entry = 0 /\ s.status = "Completed" /\ Marked(s) /\ s.line = r.line
        /\ s.plan = d
    BY <2>0, <1>6 DEF OrderRec, Marked
  <2>2. Save(o, s, back, date)
    BY <1>11
  <2> HIDE DEF s
  <2>3. Fits(s, back)
    BY <2>1, <1>11 DEF Fits, Wanted
  <2>4. DOMAIN back = 1..Len(entries)
    BY <1>7, <1>3
  <2>5. Prepared(o, s, back)
    BY <2>1, <2>3, <2>4, <1>3, <1>7, <1>8, <1>9 DEF Prepared, Rewound
  <2> QED
    BY <2>1, <2>2, <2>5, <1>5, <1>l, <1>d, SaveKeeps
<1>12. CASE /\ Wanted(r) # {} /\ Len(entries) < MaxEntry
            /\ Save(o, [r EXCEPT !.entry = Len(back) + 1],
                    Append(back, [parts |-> Wanted(r), live |-> TRUE]), date)
  <2> DEFINE s == [r EXCEPT !.entry = Len(back) + 1]
             new == [parts |-> Wanted(r), live |-> TRUE]
             es == Append(back, new)
  <2>1. new \in EntryRec
    BY DEF EntryRec, Wanted
  <2>2. Save(o, s, es, date)
    BY <1>12
  <2> HIDE DEF new
  <2>3. /\ es \in Seq(EntryRec) /\ Len(es) = Len(entries) + 1 /\ DOMAIN es = 1..(Len(entries) + 1)
        /\ es[Len(entries) + 1] = new /\ \A k \in 1..Len(entries) : es[k] = back[k]
    BY <1>3, <1>7, <2>1
  <2> HIDE DEF es
  <2>4. Len(entries) + 1 \in 0..Len(es)
    BY <1>3, <2>3
  <2>5. /\ s \in OrderRec(Len(es)) /\ s.entry = Len(entries) + 1 /\ s.status = "Completed" /\ Marked(s)
        /\ s.line = r.line /\ s.plan = d
    BY <1>6, <1>7, <2>4 DEF OrderRec, Marked
  <2> HIDE DEF s
  <2>6. Fits(s, es)
    <3>1. Wanted(s) = Wanted(r)
      BY <2>5 DEF Wanted
    <3>2. es[s.entry] = [parts |-> Wanted(s), live |-> TRUE] /\ s.entry # 0
      BY <2>3, <2>5, <3>1, <1>3 DEF new
    <3> QED
      BY <3>1, <3>2, <2>5, <1>12 DEF Fits, Agreed
  <2>7. ASSUME NEW q \in Order \ {o}, mr[q].entry # 0
        PROVE  es[mr[q].entry] = entries[mr[q].entry] /\ mr[q].entry # s.entry
    BY <2>7, <1>8, <2>3, <2>5, <1>3
  <2>8. ASSUME NEW k \in DOMAIN es, es[k].live
        PROVE  k = s.entry \/ \E q \in Order \ {o} : mr[q].entry = k
    BY <2>8, <2>3, <2>5, <1>3, <1>9
  <2>9. Len(es) >= Len(entries) /\ Len(es) <= MaxEntry
    BY <2>3, <1>3, <1>12
  <2>10. Prepared(o, s, es)
    BY <2>3, <2>5, <2>6, <2>7, <2>8, <2>9 DEF Prepared, Rewound
  <2> QED
    BY <2>2, <2>5, <2>10, <1>5, <1>l, <1>d, SaveKeeps
<1> QED
  BY <1>1, <1>10, <1>11, <1>12

LEMMA DeletionKeeps ==
  ASSUME BoundAssumption, RepairInv, NEW o \in Order, Delete(o)
  PROVE  RepairInv' /\ Kept
<1> DEFINE gone == [Fresh EXCEPT !.status = "Deleted"]
<1>1. /\ mr' = [mr EXCEPT ![o] = gone] /\ entries' = Cancelled(entries, mr[o].entry)
      /\ tested' \in {tested, DateWithout(o, mr[o])} /\ typed' = typed
  BY DEF Delete
<1>2. /\ mr \in [Order -> OrderRec(Len(entries))] /\ mr[o] \in OrderRec(Len(entries)) /\ tested \in 0..Dates
      /\ entries \in Seq(EntryRec) /\ Len(entries) \in Nat /\ DOMAIN entries = 1..Len(entries)
  BY OrderIs DEF RepairInv, TypeOK, EntryRec
<1>3. /\ entries' \in Seq(EntryRec) /\ Len(entries') = Len(entries) /\ DOMAIN entries' = 1..Len(entries)
      /\ \A j \in 1..Len(entries) : /\ j # mr[o].entry => entries'[j] = entries[j]
                                    /\ j = mr[o].entry => ~entries'[j].live
  BY <1>1, <1>2, CancelledIs DEF OrderRec
<1>4. /\ gone \in OrderRec(Len(entries)) /\ gone.entry = 0 /\ Marked(gone) /\ gone.status = "Deleted"
  <2>1. Fresh \in OrderRec(Len(entries)) /\ Fresh.entry = 0 /\ ~Fresh.billed /\ ~Fresh.asked
    BY <1>2, FreshIs
  <2> QED
    BY <2>1 DEF OrderRec, Marked, Status
<1> HIDE DEF gone
<1>5. mr' \in [Order -> OrderRec(Len(entries))] /\ \A q \in Order : mr'[q] = IF q = o THEN gone ELSE mr[q]
  BY <1>1, <1>2, <1>4
<1>6. tested' \in 0..Dates
  BY <1>1, <1>2, WithoutIs
<1>7. TypeOK'
  BY <1>1, <1>3, <1>5, <1>6 DEF RepairInv, TypeOK, OrderRec, EntryRec
<1>8. ASSUME NEW q \in Order, q # o, mr[q].entry # 0
      PROVE  mr[q].entry # mr[o].entry /\ entries'[mr[q].entry] = entries[mr[q].entry]
  <2>1. mr[q].entry \in 0..Len(entries) /\ mr[q].entry # mr[o].entry
    BY <1>2, <1>8 DEF OrderRec, RepairInv, Apart
  <2> QED
    BY <2>1, <1>2, <1>3, <1>8
<1>9. \A q \in Order : Fits(mr'[q], entries') /\ Marked(mr'[q])
  <2>1. Fits(gone, entries')
    BY <1>4 DEF Fits, Agreed, Team
  <2>2. ASSUME NEW q \in Order, q # o PROVE Fits(mr[q], entries') /\ Marked(mr[q])
    BY <2>2, <1>8, OrderIs DEF Fits
  <2> QED
    BY <1>4, <1>5, <2>1, <2>2
<1>10. Apart'
  BY <1>4, <1>5 DEF RepairInv, Apart
<1>11. Owned'
  <2> SUFFICES ASSUME NEW k \in DOMAIN entries', entries'[k].live PROVE \E q \in Order : mr'[q].entry = k
    BY DEF Owned
  <2>1. k \in DOMAIN entries /\ k # mr[o].entry /\ entries[k].live
    BY <1>2, <1>3
  <2>2. PICK q \in Order : mr[q].entry = k
    BY <2>1 DEF RepairInv, Owned
  <2> QED
    BY <2>1, <2>2, <1>5
<1>12. OwnersNoKept
  <2>1. \A i \in Item : gone.line[i] = "none"
    BY <1>4 DEF gone, Fresh
  <2> QED
    BY <1>5, <2>1 DEF OwnersNoKept
<1>13. DateKept
  <2>1. tested' # tested => Restores(o, mr[o]) /\ mr[o].status = "Completed"
    BY DEF Delete, DateWithout
  <2>2. tested' < tested => tested' # tested
    BY <1>2, <1>6
  <2> QED
    BY <1>4, <1>5, <2>1, <2>2 DEF DateKept, Restores
<1> QED
  BY <1>7, <1>9, <1>10, <1>11, <1>12, <1>13 DEF RepairInv, Kept

(* What never touches the stock: an order is raised, marked or unmarked.   *)
LEMMA MarkKeeps ==
  ASSUME BoundAssumption, RepairInv, NEW o \in Order, NEW r \in OrderRec(Len(entries)),
         r.entry = mr[o].entry, r.status = mr[o].status, r.line = mr[o].line, Marked(r),
         mr' = [mr EXCEPT ![o] = r], entries' = entries, tested' = tested, typed' = typed
  PROVE  RepairInv' /\ Kept
<1>1. /\ mr \in [Order -> OrderRec(Len(entries))] /\ Fits(mr[o], entries)
  BY OrderIs
<1>2. mr' \in [Order -> OrderRec(Len(entries))] /\ \A q \in Order : mr'[q] = IF q = o THEN r ELSE mr[q]
  BY <1>1
<1>3. TypeOK'
  BY <1>2 DEF RepairInv, TypeOK, OrderRec
<1>4. Wanted(r) = Wanted(mr[o])
  BY DEF Wanted
<1>5. Fits(r, entries)
  BY <1>1, <1>4 DEF Fits
<1>6. \A q \in Order : Fits(mr'[q], entries') /\ Marked(mr'[q])
  BY <1>2, <1>5 DEF RepairInv
<1>7. \A q \in Order : mr'[q].entry = mr[q].entry
  BY <1>2
<1>8. Kept
  <2>1. \A q \in Order : mr'[q].line = mr[q].line
    BY <1>2
  <2>2. tested \in Int
    BY DEF RepairInv, TypeOK
  <2> QED
    BY <2>1, <2>2 DEF Kept, OwnersNoKept, DateKept
<1> QED
  BY <1>3, <1>6, <1>7, <1>8 DEF RepairInv, Apart, Owned

LEMMA MarkMoves ==
  ASSUME BoundAssumption, RepairInv, NEW o \in Order,
         \/ \E d \in 1..Dates : Create(o, d)
         \/ request_revision(o) \/ RejectRevision(o) \/ Bill(o) \/ Unbill(o)
  PROVE  RepairInv' /\ Kept
<1>1. mr[o] \in OrderRec(Len(entries)) /\ Marked(mr[o]) /\ Fits(mr[o], entries)
  BY OrderIs
<1>2. ASSUME NEW d \in 1..Dates, Create(o, d) PROVE RepairInv' /\ Kept
  <2> DEFINE r == [Fresh EXCEPT !.status = "Draft", !.plan = d]
  <2>1. mr[o].status = "New" /\ mr' = [mr EXCEPT ![o] = r] /\ UNCHANGED <<entries, tested, typed>>
    BY <1>2 DEF Create
  <2>2. d \in 0..Dates /\ Len(entries) \in Nat
    BY <1>2 DEF BoundAssumption, RepairInv, TypeOK
  <2>3. /\ r \in OrderRec(Len(entries)) /\ r.entry = 0 /\ r.status = "Draft" /\ Marked(r)
    <3>1. Fresh \in OrderRec(Len(entries)) /\ Fresh.entry = 0 /\ ~Fresh.billed /\ ~Fresh.asked
      BY <2>2, FreshIs
    <3> QED
      BY <2>2, <3>1 DEF OrderRec, Marked, Status, Editable
  <2> HIDE DEF r
  <2>5. mr[o].entry = 0
    BY <2>1, <1>1 DEF Fits, Agreed, Team
  <2>6. Fits(r, entries)
    BY <2>3 DEF Fits, Agreed, Team
  <2>7. mr \in [Order -> OrderRec(Len(entries))]
    BY OrderIs
  <2>8. mr' \in [Order -> OrderRec(Len(entries))] /\ \A q \in Order : mr'[q] = IF q = o THEN r ELSE mr[q]
    BY <2>1, <2>3, <2>7
  <2>9. \A q \in Order : mr'[q].entry = mr[q].entry
    BY <2>3, <2>5, <2>8
  <2>10. TypeOK'
    BY <2>1, <2>8 DEF RepairInv, TypeOK, OrderRec
  <2>11. \A q \in Order : Fits(mr'[q], entries') /\ Marked(mr'[q])
    BY <2>1, <2>3, <2>6, <2>8 DEF RepairInv
  <2>12. Kept
    <3>1. r.line = [i \in Item |-> "none"]
      BY DEF r, Fresh
    <3>2. tested \in Int
      BY DEF RepairInv, TypeOK
    <3> QED
      BY <2>1, <2>8, <3>1, <3>2 DEF Kept, OwnersNoKept, DateKept
  <2> QED
    BY <2>1, <2>9, <2>10, <2>11, <2>12 DEF RepairInv, Apart, Owned
<1>3. CASE request_revision(o)
  <2> DEFINE r == [mr[o] EXCEPT !.asked = TRUE]
  <2>1. /\ mr' = [mr EXCEPT ![o] = r] /\ UNCHANGED <<entries, tested, typed>>
        /\ mr[o].status = "Completed"
    BY <1>3 DEF request_revision
  <2>2. /\ r \in OrderRec(Len(entries)) /\ r.entry = mr[o].entry /\ r.status = mr[o].status
        /\ r.line = mr[o].line /\ Marked(r)
    BY <1>1, <2>1 DEF OrderRec, Marked
  <2> HIDE DEF r
  <2> QED
    BY <2>1, <2>2, MarkKeeps
<1>4. CASE RejectRevision(o)
  <2> DEFINE r == [mr[o] EXCEPT !.asked = FALSE]
  <2>1. /\ mr' = [mr EXCEPT ![o] = r] /\ UNCHANGED <<entries, tested, typed>>
    BY <1>4 DEF RejectRevision
  <2>2. /\ r \in OrderRec(Len(entries)) /\ r.entry = mr[o].entry /\ r.status = mr[o].status
        /\ r.line = mr[o].line /\ Marked(r)
    BY <1>1, <2>1 DEF OrderRec, Marked
  <2> HIDE DEF r
  <2> QED
    BY <2>1, <2>2, MarkKeeps
<1>5. CASE Bill(o)
  <2> DEFINE r == [mr[o] EXCEPT !.billed = TRUE]
  <2>1. /\ mr' = [mr EXCEPT ![o] = r] /\ UNCHANGED <<entries, tested, typed>>
        /\ mr[o].status = "Completed"
    BY <1>5 DEF Bill
  <2>2. /\ r \in OrderRec(Len(entries)) /\ r.entry = mr[o].entry /\ r.status = mr[o].status
        /\ r.line = mr[o].line /\ Marked(r)
    BY <1>1, <2>1 DEF OrderRec, Marked
  <2> HIDE DEF r
  <2> QED
    BY <2>1, <2>2, MarkKeeps
<1>6. CASE Unbill(o)
  <2> DEFINE r == [mr[o] EXCEPT !.billed = FALSE]
  <2>1. /\ mr' = [mr EXCEPT ![o] = r] /\ UNCHANGED <<entries, tested, typed>>
    BY <1>6 DEF Unbill
  <2>2. /\ r \in OrderRec(Len(entries)) /\ r.entry = mr[o].entry /\ r.status = mr[o].status
        /\ r.line = mr[o].line /\ Marked(r)
    BY <1>1, <2>1 DEF OrderRec, Marked
  <2> HIDE DEF r
  <2> QED
    BY <2>1, <2>2, MarkKeeps
<1> QED
  BY <1>2, <1>3, <1>4, <1>5, <1>6

LEMMA TypedDate ==
  ASSUME RepairInv, BoundAssumption, NEW d \in 1..Dates, set_last_test_date(d)
  PROVE  RepairInv' /\ Kept
<1>1. UNCHANGED <<mr, entries>> /\ tested' = d /\ typed' = typed \cup {d} /\ d \in 0..Dates
  BY DEF set_last_test_date, BoundAssumption
<1> QED
  BY <1>1 DEF RepairInv, TypeOK, Apart, Owned, Kept, OwnersNoKept, DateKept

LEMMA RepairStart == ASSUME BoundAssumption PROVE Init => RepairInv
<1> SUFFICES ASSUME Init PROVE RepairInv
  OBVIOUS
<1>1. Fresh \in OrderRec(0) /\ Fresh.entry = 0 /\ Fresh.status = "New" /\ Marked(Fresh)
  BY FreshIs DEF Marked
<1>2. Fits(Fresh, <<>>)
  BY <1>1 DEF Fits, Agreed, Team
<1> HIDE DEF Fresh
<1>3. mr = [o \in Order |-> Fresh] /\ entries = <<>> /\ tested = 0 /\ typed = {0}
  BY DEF Init
<1>4. TypeOK
  BY <1>1, <1>3 DEF TypeOK, OrderRec, BoundAssumption
<1> QED
  BY <1>1, <1>2, <1>3, <1>4 DEF RepairInv, Apart, Owned

LEMMA RepairStep == ASSUME BoundAssumption PROVE RepairInv /\ [Next]_vars => RepairInv' /\ Kept
<1> SUFFICES ASSUME RepairInv, [Next]_vars PROVE RepairInv' /\ Kept
  OBVIOUS
<1>1. CASE UNCHANGED vars
  BY <1>1 DEF vars, RepairInv, TypeOK, Apart, Owned, Kept, OwnersNoKept, DateKept
<1>2. ASSUME NEW o \in Order,
             \/ publish_to_owner(o) \/ withdraw_from_owner(o) \/ reopen_to_draft(o) \/ Cancel(o)
             \/ start_repair(o) \/ submit_for_review(o) \/ withdraw_review(o) \/ finalize_repair(o)
      PROVE  RepairInv' /\ Kept
  BY <1>2, DeskMoves
<1>3. ASSUME NEW o \in Order, bypass_approval(o) \/ forward_to_team(o) \/ submit_direct(o) PROVE RepairInv' /\ Kept
  BY <1>3, ApprovalMoves
<1>4. ASSUME NEW o \in Order, NEW decision, NEW line \in [Item -> Decision], record_decision(o, decision, line)
      PROVE  RepairInv' /\ Kept
  BY <1>4, OwnersAnswer
<1>5. ASSUME NEW o \in Order,
             \/ \E S \in SUBSET Item, fresh \in BOOLEAN : EditLines(o, S, fresh)
             \/ \E d \in 1..Dates : EditDate(o, d)
             \/ reopen_completed(o)
      PROVE  RepairInv' /\ Kept
  BY <1>5, Edits
<1>6. ASSUME NEW o \in Order, NEW S \in SUBSET Item, NEW d \in 1..Dates, Revise(o, S, d) PROVE RepairInv' /\ Kept
  BY <1>6, RevisionKeeps
<1>7. ASSUME NEW o \in Order, Delete(o) PROVE RepairInv' /\ Kept
  BY <1>7, DeletionKeeps
<1>8. ASSUME NEW o \in Order,
             \/ \E d \in 1..Dates : Create(o, d)
             \/ request_revision(o) \/ RejectRevision(o) \/ Bill(o) \/ Unbill(o)
      PROVE  RepairInv' /\ Kept
  BY <1>8, MarkMoves
<1>9. ASSUME NEW d \in 1..Dates, set_last_test_date(d) PROVE RepairInv' /\ Kept
  BY <1>9, TypedDate
<1> QED
  BY <1>1, <1>2, <1>3, <1>4, <1>5, <1>6, <1>7, <1>8, <1>9 DEF Next

LEMMA RepairAsMeant == RepairInv => TypeOK /\ PartsAccounted /\ MarksOnClosed
<1> SUFFICES ASSUME RepairInv PROVE PartsAccounted /\ MarksOnClosed
  BY DEF RepairInv
<1>1. MarksOnClosed
  BY DEF RepairInv, Marked, MarksOnClosed
<1>2. ASSUME NEW k \in DOMAIN entries, entries[k].live
      PROVE  Cardinality({o \in Order : mr[o].entry = k}) = 1
  <2>1. k # 0
    BY DEF RepairInv, TypeOK
  <2>2. PICK o \in Order : mr[o].entry = k
    BY <1>2 DEF RepairInv, Owned
  <2>3. {q \in Order : mr[q].entry = k} = {o}
    BY <2>1, <2>2 DEF RepairInv, Apart
  <2>4. Cardinality({o}) = 1
    BY FS_Singleton
  <2> QED
    BY <2>3, <2>4
<1>3. PartsAccounted
  BY <1>2 DEF RepairInv, Fits, PartsAccounted
<1> QED
  BY <1>1, <1>3

(* However an order is agreed, rewound, reopened, cancelled, revised or    *)
(* deleted, the warehouse is short of the parts of agreed orders, once     *)
(* each, and of nothing else; a mark of an invoice or an open Ajukan       *)
(* Revisi is on a finished order                                           *)
(* (issue_parts_on_approval, _return_parts_if_rewound, reopen_completed).  *)
THEOREM RepairParts ==
  ASSUME BoundAssumption
  PROVE  Spec => [](TypeOK /\ PartsAccounted /\ MarksOnClosed)
<1>1. Init => RepairInv
  BY RepairStart
<1>2. RepairInv /\ [Next]_vars => RepairInv'
  BY RepairStep
<1>3. RepairInv => TypeOK /\ PartsAccounted /\ MarksOnClosed
  BY RepairAsMeant
<1> QED
  BY <1>1, <1>2, <1>3, PTL DEF Spec

(* No step turns an owner's no into a yes, and none dates a tank's last    *)
(* test back but by undoing that test (approve_estimate,                   *)
(* restore_test_date).                                                     *)
THEOREM RepairKept ==
  ASSUME BoundAssumption
  PROVE  Spec => [][OwnersNoKept /\ DateKept]_vars
<1>1. Init => RepairInv
  BY RepairStart
<1>2. RepairInv /\ [Next]_vars => RepairInv' /\ [OwnersNoKept /\ DateKept]_vars
  BY RepairStep DEF Kept
<1> QED
  BY <1>1, <1>2, PTL DEF Spec
=============================================================================
