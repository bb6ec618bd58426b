----------------------------- MODULE WashProofs -----------------------------
(***************************************************************************)
(* What TLAPS proves of CleaningOrder for every set of washes, lines,      *)
(* people and prices, every stock and every bound: parts, marks, times,    *)
(* typed prices, and who did the work.                                     *)
(*                                                                         *)
(* Every request writes one order and the gudang's entries.  So each is    *)
(* shown to prepare what it writes (Prepared), and writing that to keep    *)
(* WashInv.                                                                *)
(***************************************************************************)
EXTENDS CleaningOrder, FiniteSetTheorems, SequenceTheorems, TLAPS

EntryRec == [parts : SUBSET Part, live : BOOLEAN]
OrderRec(n) ==
  [status : Status, docstatus : 0..2, rate : [Item -> Price \cup {NoLine}], plan : 0..MaxClock,
   washer : User \cup {Nobody}, start : 0..MaxClock, by : User \cup {Nobody}, finish : 0..MaxClock,
   entry : 0..n, billed : BOOLEAN, asked : BOOLEAN, closed : BOOLEAN,
   back : 0..MaxClock, typed : [Item -> Typed \cup {NoLine}]]

(* A submitted order carries an issue of its parts; any other carries none.*)
Fits(r, es) ==
  IF r.docstatus = 1 /\ Parts(r) # {}
  THEN r.entry # 0 /\ es[r.entry] = [parts |-> Parts(r), live |-> TRUE]
  ELSE r.entry = 0

(* A price typed on a line stands, unless somebody types a 0, which reads  *)
(* as no price.                                                            *)
TypedStand(r) == 0 \notin Typed => \A i \in Item : r.typed[i] # NoLine => r.rate[i] = r.typed[i]

(* What an order's status says of the rest of it.                          *)
Sane(r) ==
  /\ r.status = "Completed" <=> r.docstatus = 1
  /\ r.status = "Cancelled" <=> r.docstatus = 2
  /\ r.billed \/ r.asked \/ r.closed => r.docstatus = 1
  /\ r.status \in {"New", ServiceSetup, "Pending"} =>
       r.start = 0 /\ r.finish = 0 /\ r.washer = Nobody /\ r.by = Nobody
  /\ r.status \in {"In_Progress", PendingReview, "Completed"} => r.start # 0
  /\ TypedStand(r)

(* What is true of an order's times.                                       *)
Timed(r) ==
  /\ r.back <= clock /\ (r.start <= clock \/ r.start = r.plan)
  /\ r.finish # 0 /\ ~r.closed => r.finish >= r.back
  /\ r.start # 0 /\ r.finish # 0 => r.start <= r.finish \/ r.start = r.plan

Apart == \A o, q \in Order : co[o].entry = co[q].entry /\ co[o].entry # 0 => o = q
Owned == \A k \in DOMAIN entries : entries[k].live => \E o \in Order : co[o].entry = k
InStock(es) == \A p \in Part : OnHand(p, es) >= 0

WashInv ==
  /\ TypeOK /\ Apart /\ Owned /\ InStock(entries)
  /\ \A o \in Order : Fits(co[o], entries) /\ Sane(co[o]) /\ Timed(co[o])

(* What a request may not change of what somebody did.                     *)
WorkStands(o, s) ==
  /\ co[o].start # 0 => s.start = co[o].start
  /\ co[o].washer # Nobody => s.washer = co[o].washer
  /\ co[o].by # Nobody => s.by = co[o].by

(* What a request may write: the order s and the entries es, in which      *)
(* nothing has happened to what the other orders carry.                    *)
Prepared(o, s, es) ==
  /\ es \in Seq(EntryRec) /\ Len(es) >= Len(entries) /\ Len(es) <= MaxEntry /\ InStock(es)
  /\ s \in OrderRec(Len(es)) /\ Fits(s, es) /\ Sane(s) /\ Timed(s) /\ WorkStands(o, s)
  /\ \A q \in Order \ {o} : co[q].entry # 0 => es[co[q].entry] = entries[co[q].entry] /\ co[q].entry # s.entry
  /\ \A k \in DOMAIN es : es[k].live => k = s.entry \/ \E q \in Order \ {o} : co[q].entry = k

(* The stages' names are names of nothing else.                            *)
LEMMA StageNames ==
  /\ ServiceSetup # PendingReview
  /\ \A s \in {"New", "Pending", "In_Progress", "Completed", "Cancelled"} : s # ServiceSetup /\ s # PendingReview
  BY Zenon DEF ServiceSetup, PendingReview

LEMMA OrderIs ==
  ASSUME WashInv, BoundAssumption, NEW o \in Order
  PROVE  /\ co \in [Order -> OrderRec(Len(entries))] /\ co[o] \in OrderRec(Len(entries))
         /\ Fits(co[o], entries) /\ Sane(co[o]) /\ Timed(co[o])
         /\ entries \in Seq(EntryRec) /\ Len(entries) \in Nat /\ DOMAIN entries = 1..Len(entries)
         /\ Len(entries) <= MaxEntry /\ MaxEntry \in Nat /\ MaxClock \in Nat
         /\ clock \in 1..MaxClock /\ contract \in [Item -> Tariff]
  BY DEF WashInv, TypeOK, OrderRec, EntryRec, BoundAssumption

LEMMA Lands ==
  ASSUME WashInv, BoundAssumption, NEW o \in Order, NEW s, NEW es, Prepared(o, s, es),
         co' = [co EXCEPT ![o] = s], entries' = es, contract' = contract, clock' = clock
  PROVE  WashInv' /\ WorkKept
<1>1. /\ co \in [Order -> OrderRec(Len(entries))] /\ Len(entries) \in Nat
      /\ \A q \in Order : co[q] \in OrderRec(Len(entries)) /\ Fits(co[q], entries) /\ Sane(co[q]) /\ Timed(co[q])
  BY OrderIs
<1>2. /\ es \in Seq(EntryRec) /\ Len(es) \in Nat /\ Len(es) >= Len(entries) /\ Len(es) <= MaxEntry
      /\ s \in OrderRec(Len(es)) /\ Fits(s, es) /\ Sane(s) /\ Timed(s) /\ WorkStands(o, s)
  BY DEF Prepared
<1>3. \A q \in Order : co'[q] = IF q = o THEN s ELSE co[q]
  BY <1>1
<1>4. \A q \in Order : co[q] \in OrderRec(Len(es)) /\ co[q].entry \in 0..Len(entries)
  <2> SUFFICES ASSUME NEW q \in Order PROVE co[q] \in OrderRec(Len(es)) /\ co[q].entry \in 0..Len(entries)
    OBVIOUS
  <2>1. co[q] \in OrderRec(Len(entries))
    BY <1>1
  <2>2. \A e \in 0..Len(entries) : e \in 0..Len(es)
    BY <1>1, <1>2
  <2> QED
    BY <2>1, <2>2 DEF OrderRec
<1>5. co' \in [Order -> OrderRec(Len(es))]
  <2>1. co' = [q \in Order |-> IF q = o THEN s ELSE co[q]]
    BY <1>1
  <2> QED
    BY <1>2, <1>4, <2>1
<1>6. TypeOK'
  BY <1>2, <1>5 DEF WashInv, TypeOK, OrderRec, EntryRec
<1>7. ASSUME NEW q \in Order, q # o, co[q].entry # 0
      PROVE  es[co[q].entry] = entries[co[q].entry] /\ co[q].entry # s.entry
  BY <1>7 DEF Prepared
<1>8. \A q \in Order : Fits(co'[q], entries') /\ Sane(co'[q])
  <2> SUFFICES ASSUME NEW q \in Order, q # o PROVE Fits(co[q], es) /\ Sane(co[q])
    BY <1>2, <1>3
  <2> QED
    BY <1>1, <1>7 DEF Fits
<1>9. \A q \in Order : Timed(co[q])'
  BY <1>1, <1>2, <1>3 DEF Timed
<1>10. Apart'
  <2> SUFFICES ASSUME NEW p \in Order, NEW q \in Order, co'[p].entry = co'[q].entry, co'[p].entry # 0
               PROVE  p = q
    BY DEF Apart
  <2>1. CASE p # o /\ q # o
    BY <2>1, <1>3 DEF WashInv, Apart
  <2>2. CASE p = o \/ q = o
    BY <2>2, <1>3, <1>7
  <2> QED
    BY <2>1, <2>2
<1>11. Owned'
  BY <1>3 DEF Owned, Prepared
<1>12. InStock(entries)'
  BY DEF Prepared, InStock, OnHand
<1>13. WorkKept
  BY <1>2, <1>3 DEF WorkKept, WorkStands
<1> QED
  BY <1>6, <1>8, <1>9, <1>10, <1>11, <1>12, <1>13 DEF WashInv

-----------------------------------------------------------------------------
(* The stock.                                                              *)
Takers(p, es) == {k \in DOMAIN es : es[k].live /\ p \in es[k].parts}

LEMMA TakersFinite ==
  ASSUME NEW es \in Seq(EntryRec), NEW p
  PROVE  IsFiniteSet(Takers(p, es)) /\ Cardinality(Takers(p, es)) \in Nat
<1>1. Takers(p, es) \subseteq 1..Len(es) /\ Len(es) \in Int
  BY DEF Takers
<1>2. IsFiniteSet(1..Len(es))
  BY <1>1, FS_Interval
<1> QED
  BY <1>1, <1>2, FS_Subset, FS_CardinalityType

LEMMA CancelledIs ==
  ASSUME NEW es \in Seq(EntryRec), NEW k \in 0..Len(es), ItemAssumption
  PROVE  /\ CancelEntry(es, k) \in Seq(EntryRec) /\ Len(CancelEntry(es, k)) = Len(es)
         /\ \A j \in 1..Len(es) : /\ j # k => CancelEntry(es, k)[j] = es[j]
                                  /\ j = k => ~CancelEntry(es, k)[j].live
         /\ InStock(es) => InStock(CancelEntry(es, k))
<1> DEFINE cs == CancelEntry(es, k)
<1>1. /\ cs \in Seq(EntryRec) /\ Len(cs) = Len(es)
      /\ \A j \in 1..Len(es) : /\ j # k => cs[j] = es[j]
                               /\ j = k => ~cs[j].live
  <2>1. CASE k = 0
    BY <2>1 DEF CancelEntry
  <2>2. CASE k # 0
    <3> DEFINE cut == [es[k] EXCEPT !.live = FALSE]
    <3>1. k \in 1..Len(es) /\ es[k] \in EntryRec
      <4>1. Len(es) \in Nat /\ k \in 1..Len(es)
        BY <2>2
      <4> QED
        BY <4>1, ElementOfSeq
    <3>2. cut \in EntryRec /\ ~cut.live
      BY <3>1 DEF EntryRec
    <3>3. cs = [es EXCEPT ![k] = cut]
      BY <2>2 DEF CancelEntry
    <3> HIDE DEF cut
    <3>4. /\ [es EXCEPT ![k] = cut] \in Seq(EntryRec) /\ Len([es EXCEPT ![k] = cut]) = Len(es)
          /\ \A j \in 1..Len(es) : [es EXCEPT ![k] = cut][j] = IF j = k THEN cut ELSE es[j]
      BY <3>1, <3>2, ExceptSeq
    <3> QED
      BY <3>2, <3>3, <3>4
  <2> QED
    BY <2>1, <2>2
<1> HIDE DEF cs
<1>2. ASSUME InStock(es), NEW p \in Part PROVE OnHand(p, cs) >= 0
  <2>1. Takers(p, cs) \subseteq Takers(p, es)
    <3>1. DOMAIN cs = 1..Len(es) /\ DOMAIN es = 1..Len(es)
      BY <1>1
    <3> QED
      BY <1>1, <3>1 DEF Takers
  <2>2. /\ IsFiniteSet(Takers(p, es)) /\ Cardinality(Takers(p, es)) \in Nat
        /\ Cardinality(Takers(p, cs)) \in Nat
    BY <1>1, TakersFinite
  <2>3. Cardinality(Takers(p, cs)) <= Cardinality(Takers(p, es))
    BY <2>1, <2>2, FS_Subset
  <2>4. Supply[p] - Cardinality(Takers(p, es)) >= 0 /\ Supply[p] \in Nat
    BY <1>2 DEF InStock, OnHand, Takers, ItemAssumption
  <2>5. OnHand(p, cs) = Supply[p] - Cardinality(Takers(p, cs))
    BY DEF OnHand, Takers
  <2> QED
    BY <2>2, <2>3, <2>4, <2>5
<1> QED
  BY <1>1, <1>2 DEF InStock, cs

LEMMA AppendedIs ==
  ASSUME NEW es \in Seq(EntryRec), NEW new \in EntryRec, ItemAssumption, InStock(es),
         \A p \in new.parts : OnHand(p, es) >= 1
  PROVE  InStock(Append(es, new))
<1> DEFINE as == Append(es, new)
<1>1. /\ Len(es) \in Nat /\ as \in Seq(EntryRec) /\ DOMAIN as = 1..(Len(es) + 1) /\ DOMAIN es = 1..Len(es)
      /\ as[Len(es) + 1] = new /\ \A k \in 1..Len(es) : as[k] = es[k]
  OBVIOUS
<1> HIDE DEF as
<1>2. ASSUME NEW p \in Part PROVE OnHand(p, as) >= 0
  <2> DEFINE n == Len(es) + 1
  <2>1. /\ IsFiniteSet(Takers(p, es)) /\ Cardinality(Takers(p, es)) \in Nat
        /\ Cardinality(Takers(p, as)) \in Nat
    BY <1>1, TakersFinite
  <2>2. n \notin Takers(p, es)
    BY <1>1 DEF Takers
  <2>3. OnHand(p, es) = Supply[p] - Cardinality(Takers(p, es)) /\ Supply[p] \in Nat
        /\ OnHand(p, as) = Supply[p] - Cardinality(Takers(p, as))
    BY DEF OnHand, Takers, ItemAssumption
  <2>6. /\ \A k \in DOMAIN as : (k = n /\ as[k] = new) \/ (k \in DOMAIN es /\ as[k] = es[k])
        /\ \A k \in DOMAIN es : k \in DOMAIN as /\ as[k] = es[k]
    <3>1. \A k \in 1..n : k = n \/ k \in 1..Len(es)
      BY <1>1
    <3>2. \A k \in 1..Len(es) : k \in 1..n
      BY <1>1
    <3> QED
      BY <1>1, <3>1, <3>2
  <2>4. CASE p \in new.parts
    <3>1. Takers(p, as) \subseteq Takers(p, es) \cup {n}
      BY <2>6 DEF Takers
    <3>2. /\ IsFiniteSet(Takers(p, es) \cup {n})
          /\ Cardinality(Takers(p, es) \cup {n}) = Cardinality(Takers(p, es)) + 1
      BY <2>1, <2>2, FS_AddElement
    <3>3. Cardinality(Takers(p, as)) <= Cardinality(Takers(p, es)) + 1
      BY <3>1, <3>2, FS_Subset
    <3>4. OnHand(p, es) >= 1
      BY <2>4
    <3> DEFINE a == Cardinality(Takers(p, as))  e == Cardinality(Takers(p, es))
    <3>5. a \in Nat /\ e \in Nat /\ Supply[p] \in Nat /\ a <= e + 1 /\ Supply[p] - e >= 1
      BY <2>1, <2>3, <3>3, <3>4
    <3> HIDE DEF a, e
    <3>6. Supply[p] - a >= 0
      BY <3>5
    <3> QED
      BY <2>3, <3>6 DEF a
  <2>5. CASE p \notin new.parts
    <3>1. Takers(p, as) = Takers(p, es)
      BY <2>5, <2>6 DEF Takers
    <3>2. OnHand(p, es) >= 0
      BY DEF InStock
    <3> QED
      BY <2>3, <3>1, <3>2
  <2> QED
    BY <2>4, <2>5
<1> QED
  BY <1>2 DEF InStock, as

-----------------------------------------------------------------------------
(* What a request may make of an order.                                    *)

(* The order keeps the issue it has.                                       *)
LEMMA PlainIs ==
  ASSUME WashInv, BoundAssumption, NEW o \in Order, NEW s \in OrderRec(Len(entries)),
         s.entry = co[o].entry, Fits(s, entries), Sane(s), Timed(s), WorkStands(o, s)
  PROVE  Prepared(o, s, entries)
<1>1. entries \in Seq(EntryRec) /\ Len(entries) \in Nat /\ Len(entries) <= MaxEntry /\ InStock(entries)
  BY OrderIs DEF WashInv
<1>2. \A q \in Order \ {o} : co[q].entry # 0 => co[q].entry # s.entry
  BY DEF WashInv, Apart
<1>3. \A k \in DOMAIN entries : entries[k].live => k = s.entry \/ \E q \in Order \ {o} : co[q].entry = k
  <2> SUFFICES ASSUME NEW k \in DOMAIN entries, entries[k].live, k # s.entry
               PROVE  \E q \in Order \ {o} : co[q].entry = k
    OBVIOUS
  <2>1. PICK q \in Order : co[q].entry = k
    BY DEF WashInv, Owned
  <2> QED
    BY <2>1
<1> QED
  BY <1>1, <1>2, <1>3 DEF Prepared

(* What the order carried goes back to the gudang.                         *)
LEMMA BackIs ==
  ASSUME WashInv, BoundAssumption, ItemAssumption, NEW o \in Order
  PROVE  LET cs == CancelEntry(entries, co[o].entry)
         IN /\ cs \in Seq(EntryRec) /\ Len(cs) = Len(entries) /\ DOMAIN cs = 1..Len(entries) /\ InStock(cs)
            /\ \A q \in Order \ {o} : co[q].entry # 0 => cs[co[q].entry] = entries[co[q].entry]
            /\ \A k \in DOMAIN cs : cs[k].live => \E q \in Order \ {o} : co[q].entry = k
<1> DEFINE cs == CancelEntry(entries, co[o].entry)
<1>1. /\ entries \in Seq(EntryRec) /\ Len(entries) \in Nat /\ DOMAIN entries = 1..Len(entries)
      /\ InStock(entries) /\ \A q \in Order : co[q].entry \in 0..Len(entries)
  BY OrderIs DEF WashInv, OrderRec
<1>2. /\ cs \in Seq(EntryRec) /\ Len(cs) = Len(entries)
      /\ \A j \in 1..Len(entries) : /\ j # co[o].entry => cs[j] = entries[j]
                                    /\ j = co[o].entry => ~cs[j].live
      /\ InStock(cs)
  BY <1>1, CancelledIs
<1> HIDE DEF cs
<1>3. ASSUME NEW q \in Order \ {o}, co[q].entry # 0 PROVE cs[co[q].entry] = entries[co[q].entry]
  <2>1. co[q].entry # co[o].entry
    BY <1>3 DEF WashInv, Apart
  <2>2. co[q].entry \in 1..Len(entries)
    BY <1>1, <1>3
  <2> QED
    BY <1>2, <2>1, <2>2
<1>4. DOMAIN cs = 1..Len(entries)
  BY <1>2
<1>5. ASSUME NEW k \in DOMAIN cs, cs[k].live PROVE \E q \in Order \ {o} : co[q].entry = k
  <2>1. k \in DOMAIN entries /\ k # co[o].entry /\ entries[k].live
    BY <1>1, <1>2, <1>4, <1>5
  <2>2. PICK q \in Order : co[q].entry = k
    BY <2>1 DEF WashInv, Owned
  <2> QED
    BY <2>1, <2>2
<1> QED
  BY <1>2, <1>3, <1>4, <1>5 DEF cs

LEMMA ReturnIs ==
  ASSUME WashInv, BoundAssumption, ItemAssumption, NEW o \in Order, NEW s \in OrderRec(Len(entries)),
         s.entry = 0, Fits(s, entries), Sane(s), Timed(s), WorkStands(o, s)
  PROVE  Prepared(o, s, CancelEntry(entries, co[o].entry))
<1> DEFINE cs == CancelEntry(entries, co[o].entry)
<1>1. Len(entries) \in Nat /\ Len(entries) <= MaxEntry
  BY OrderIs
<1>2. /\ cs \in Seq(EntryRec) /\ Len(cs) = Len(entries) /\ InStock(cs)
      /\ \A q \in Order \ {o} : co[q].entry # 0 => cs[co[q].entry] = entries[co[q].entry]
      /\ \A k \in DOMAIN cs : cs[k].live => \E q \in Order \ {o} : co[q].entry = k
  BY BackIs
<1> HIDE DEF cs
<1>3. Fits(s, cs)
  BY DEF Fits
<1> QED
  BY <1>1, <1>2, <1>3 DEF Prepared, cs

(* A submitted order without an issue takes its parts.                     *)
LEMMA IssueIs ==
  ASSUME WashInv, BoundAssumption, ItemAssumption, NEW o \in Order, NEW s \in OrderRec(Len(entries)),
         s.entry = 0, s.docstatus = 1, Sane(s), Timed(s), WorkStands(o, s),
         NEW es, es = CancelEntry(entries, co[o].entry), CanIssue(s, es)
  PROVE  Prepared(o, Issued(s, es), AfterIssue(s, es))
<1>1. /\ es \in Seq(EntryRec) /\ Len(es) = Len(entries) /\ DOMAIN es = 1..Len(es) /\ InStock(es)
      /\ \A q \in Order \ {o} : co[q].entry # 0 => es[co[q].entry] = entries[co[q].entry]
      /\ \A k \in DOMAIN es : es[k].live => \E q \in Order \ {o} : co[q].entry = k
  BY BackIs
<1>2. CASE Parts(s) = {}
  <2>1. Fits(s, entries)
    BY <1>2 DEF Fits
  <2>2. Issued(s, es) = s /\ AfterIssue(s, es) = es
    BY <1>2 DEF Issued, AfterIssue, Issues
  <2> QED
    BY <2>1, <2>2, ReturnIs
<1>3. CASE Parts(s) # {}
  <2> DEFINE new == [parts |-> Parts(s), live |-> TRUE]
  <2> DEFINE as == Append(es, new)
  <2> DEFINE n == Len(es) + 1
  <2> DEFINE r == [s EXCEPT !.entry = n]
  <2>1. Issued(s, es) = r /\ AfterIssue(s, es) = as
    BY <1>3 DEF Issued, AfterIssue, Issues
  <2>2. /\ Len(es) \in Nat /\ Len(es) < MaxEntry /\ MaxEntry \in Nat
        /\ \A p \in Parts(s) : OnHand(p, es) >= 1
    BY <1>1, <1>3, OrderIs DEF CanIssue, Issues, Covered
  <2>3. new \in EntryRec /\ new.parts = Parts(s)
    BY DEF EntryRec, Parts
  <2>4. InStock(as)
    BY <1>1, <2>2, <2>3, AppendedIs
  <2>5. /\ as \in Seq(EntryRec) /\ Len(as) = n /\ DOMAIN as = 1..n /\ as[n] = new
        /\ \A k \in 1..Len(es) : as[k] = es[k]
    BY <1>1, <2>2, <2>3
  <2>6. /\ r \in OrderRec(n) /\ r.entry = n /\ n # 0 /\ r.docstatus = 1 /\ r.rate = s.rate
        /\ r.status = s.status /\ r.billed = s.billed /\ r.asked = s.asked /\ r.closed = s.closed
        /\ r.start = s.start /\ r.finish = s.finish /\ r.washer = s.washer /\ r.by = s.by
        /\ r.back = s.back /\ r.plan = s.plan /\ r.typed = s.typed
    <3>1. n \in 0..n /\ n # 0
      BY <2>2
    <3> HIDE DEF n
    <3> QED
      BY <3>1 DEF OrderRec
  <2> HIDE DEF r
  <2>7. Parts(r) = Parts(s) /\ Sane(r) /\ Timed(r) /\ WorkStands(o, r)
    <3>1. Parts(r) = Parts(s)
      BY <2>6 DEF Parts, Lines
    <3>2. Sane(r)
      BY <2>6 DEF Sane, TypedStand
    <3>3. Timed(r)
      BY <2>6 DEF Timed
    <3>4. WorkStands(o, r)
      BY <2>6 DEF WorkStands
    <3> QED
      BY <3>1, <3>2, <3>3, <3>4
  <2> HIDE DEF as
  <2>8. Fits(r, as)
    <3>1. as[r.entry] = [parts |-> Parts(r), live |-> TRUE]
      BY <2>5, <2>6, <2>7
    <3> QED
      BY <1>3, <2>6, <2>7, <3>1 DEF Fits
  <2>9. \A q \in Order \ {o} : co[q].entry # 0 => as[co[q].entry] = entries[co[q].entry] /\ co[q].entry # r.entry
    <3> SUFFICES ASSUME NEW q \in Order \ {o}, co[q].entry # 0
                 PROVE  as[co[q].entry] = entries[co[q].entry] /\ co[q].entry # n
      BY <2>6
    <3>1. co[q].entry \in 0..Len(es)
      BY <1>1, OrderIs DEF OrderRec
    <3>2. co[q].entry \in 1..Len(es) /\ co[q].entry # n
      BY <2>2, <3>1
    <3> QED
      BY <1>1, <2>5, <3>2
  <2>10. \A k \in DOMAIN as : as[k].live => k = r.entry \/ \E q \in Order \ {o} : co[q].entry = k
    <3> SUFFICES ASSUME NEW k \in DOMAIN as, as[k].live, k # n
                 PROVE  \E q \in Order \ {o} : co[q].entry = k
      BY <2>6
    <3>1. k \in 1..Len(es)
      BY <2>2, <2>5
    <3> QED
      BY <1>1, <2>5, <3>1
  <2>11. Len(as) >= Len(entries) /\ Len(as) <= MaxEntry
    BY <1>1, <2>2, <2>5
  <2> HIDE DEF n
  <2> QED
    BY <2>1, <2>4, <2>5, <2>6, <2>7, <2>8, <2>9, <2>10, <2>11 DEF Prepared
<1> QED
  BY <1>2, <1>3

(* Pricing keeps the rows, and the prices a person typed.                  *)
LEMMA SeedIs ==
  ASSUME PriceAssumption, contract \in [Item -> Tariff], NEW n, NEW r \in OrderRec(n),
         TypedStand(r)
  PROVE  /\ Seed(r) \in OrderRec(n) /\ Parts(Seed(r)) = Parts(r) /\ Seed(r).entry = r.entry
         /\ Seed(r).docstatus = r.docstatus
         /\ Sane(r) => Sane(Seed(r))
         /\ Timed(r) => Timed(Seed(r))
         /\ \A o \in Order : WorkStands(o, r) => WorkStands(o, Seed(r))
<1> DEFINE rt == [i \in Item |-> IF r.rate[i] = 0 THEN contract[i] ELSE r.rate[i]]
<1> DEFINE s == [r EXCEPT !.rate = rt]
<1>1. Seed(r) = s
  BY DEF Seed
<1>2. r.rate \in [Item -> Price \cup {NoLine}] /\ r.typed \in [Item -> Typed \cup {NoLine}]
  BY DEF OrderRec
<1>3. \A i \in Item : /\ rt[i] = IF r.rate[i] = 0 THEN contract[i] ELSE r.rate[i]
                      /\ rt[i] \in Price \cup {NoLine}
                      /\ (rt[i] # NoLine <=> r.rate[i] # NoLine)
                      /\ (0 \notin Typed /\ r.typed[i] # NoLine => rt[i] = r.typed[i])
  <2> SUFFICES ASSUME NEW i \in Item
               PROVE  /\ rt[i] = IF r.rate[i] = 0 THEN contract[i] ELSE r.rate[i]
                      /\ rt[i] \in Price \cup {NoLine}
                      /\ (rt[i] # NoLine <=> r.rate[i] # NoLine)
                      /\ (0 \notin Typed /\ r.typed[i] # NoLine => rt[i] = r.typed[i])
    OBVIOUS
  <2>1. rt[i] = IF r.rate[i] = 0 THEN contract[i] ELSE r.rate[i]
    OBVIOUS
  <2>2. contract[i] \in Tariff /\ contract[i] \in Nat /\ r.rate[i] \in Price \cup {NoLine}
    BY <1>2 DEF PriceAssumption
  <2>3. 0 \notin Typed /\ r.typed[i] # NoLine => r.typed[i] # 0 /\ r.rate[i] = r.typed[i]
    BY <1>2 DEF TypedStand
  <2> HIDE DEF rt
  <2>4. NoLine # 0 /\ contract[i] # NoLine /\ contract[i] \in Price
    BY <2>2 DEF NoLine, Price
  <2> QED
    BY <2>1, <2>2, <2>3, <2>4
<1>4. rt \in [Item -> Price \cup {NoLine}]
  BY <1>3
<1> HIDE DEF rt
<1>5. /\ s \in OrderRec(n) /\ s.rate = rt
      /\ s.entry = r.entry /\ s.docstatus = r.docstatus
      /\ s.status = r.status /\ s.billed = r.billed /\ s.asked = r.asked /\ s.closed = r.closed
      /\ s.start = r.start /\ s.finish = r.finish /\ s.washer = r.washer /\ s.by = r.by
      /\ s.back = r.back /\ s.plan = r.plan /\ s.typed = r.typed
  BY <1>4 DEF OrderRec
<1> HIDE DEF s
<1>6. Parts(s) = Parts(r)
  BY <1>3, <1>5 DEF Parts, Lines
<1>7. Sane(r) => Sane(s)
  BY <1>3, <1>5 DEF Sane, TypedStand
<1>8. Timed(r) => Timed(s)
  BY <1>5 DEF Timed
<1>9. \A o \in Order : WorkStands(o, r) => WorkStands(o, s)
  BY <1>5 DEF WorkStands
<1> QED
  BY <1>1, <1>5, <1>6, <1>7, <1>8, <1>9

(* The rows of the form: what a person typed stands on them.               *)
LEMMA RowsAre ==
  ASSUME PriceAssumption, NEW n, NEW r \in OrderRec(n), NEW S, NEW T, NEW price,
         T = {} \/ price \in Typed,
         TypedStand(r)
  PROVE  LET w == WithRows(r, S, T, price)
         IN /\ w \in OrderRec(n) /\ w.entry = r.entry /\ w.docstatus = r.docstatus
            /\ w.status = r.status /\ w.billed = r.billed /\ w.asked = r.asked /\ w.closed = r.closed
            /\ w.start = r.start /\ w.finish = r.finish /\ w.washer = r.washer /\ w.by = r.by
            /\ w.back = r.back /\ w.plan = r.plan
            /\ TypedStand(w)
<1> DEFINE rt == [i \in Item |-> CASE i \in T -> price
                                   [] i \in (S \ T) \cap Lines(r) -> r.rate[i]
                                   [] i \in S \ (T \cup Lines(r)) -> 0
                                   [] OTHER -> NoLine]
           ty == [i \in Item |-> CASE i \in T -> price
                                   [] i \in S \ T -> r.typed[i]
                                   [] OTHER -> NoLine]
           w == [r EXCEPT !.rate = rt, !.typed = ty]
<1>1. WithRows(r, S, T, price) = w
  BY DEF WithRows
<1>2. r.rate \in [Item -> Price \cup {NoLine}] /\ r.typed \in [Item -> Typed \cup {NoLine}] /\ 0 \in Price
  BY DEF OrderRec, PriceAssumption, Price
<1>3. ASSUME NEW i \in Item
      PROVE  /\ rt[i] \in Price \cup {NoLine} /\ ty[i] \in Typed \cup {NoLine}
             /\ (0 \notin Typed /\ ty[i] # NoLine => rt[i] = ty[i])
  <2>1. CASE i \in T
    <3>1. rt[i] = price /\ ty[i] = price
      BY <2>1
    <3> HIDE DEF rt, ty
    <3> QED
      BY <2>1, <3>1 DEF Price
  <2>2. CASE i \in S \ T
    <3>1. ty[i] = r.typed[i]
      BY <2>2
    <3>2. i \in Lines(r) => rt[i] = r.rate[i]
      BY <2>2
    <3>3. i \notin Lines(r) => rt[i] = 0
      BY <2>2
    <3>4. 0 \notin Typed /\ r.typed[i] # NoLine => r.rate[i] = r.typed[i]
      BY DEF TypedStand
    <3> HIDE DEF rt, ty
    <3>5. i \notin Lines(r) => r.rate[i] = NoLine
      BY DEF Lines
    <3> QED
      BY <1>2, <3>1, <3>2, <3>3, <3>4, <3>5
  <2>3. CASE i \notin S /\ i \notin T
    <3>1. rt[i] = NoLine /\ ty[i] = NoLine
      BY <2>3
    <3> HIDE DEF rt, ty
    <3> QED
      BY <3>1
  <2> QED
    BY <2>1, <2>2, <2>3
<1>4. rt \in [Item -> Price \cup {NoLine}] /\ ty \in [Item -> Typed \cup {NoLine}]
  BY <1>3
<1> HIDE DEF rt, ty
<1>5. /\ w \in OrderRec(n) /\ w.rate = rt /\ w.typed = ty
      /\ w.entry = r.entry /\ w.docstatus = r.docstatus
      /\ w.status = r.status /\ w.billed = r.billed /\ w.asked = r.asked /\ w.closed = r.closed
      /\ w.start = r.start /\ w.finish = r.finish /\ w.washer = r.washer /\ w.by = r.by
      /\ w.back = r.back /\ w.plan = r.plan
  BY <1>4 DEF OrderRec
<1> HIDE DEF w
<1>6. TypedStand(w)
  BY <1>3, <1>5 DEF TypedStand
<1> QED
  BY <1>1, <1>5, <1>6

(* What an order is that takes the place of co[o].                         *)
Meant(o, r) == r \in OrderRec(Len(entries)) /\ Sane(r) /\ Timed(r) /\ WorkStands(o, r)

LEMMA SavedIs ==
  ASSUME WashInv, BoundAssumption, ItemAssumption, PriceAssumption, NEW o \in Order, NEW r,
         Meant(o, r), r.entry = co[o].entry, co[o].docstatus # 1, r.docstatus # 1, Save(o, r)
  PROVE  WashInv' /\ WorkKept
<1> DEFINE s == Seed(r)
<1>1. /\ s \in OrderRec(Len(entries)) /\ s.entry = r.entry /\ s.docstatus = r.docstatus
      /\ Sane(s) /\ Timed(s) /\ WorkStands(o, s)
  BY OrderIs, SeedIs DEF Meant, Sane
<1>2. co' = [co EXCEPT ![o] = s] /\ entries' = entries /\ contract' = contract /\ clock' = clock
  BY DEF Save, Same
<1> HIDE DEF s
<1>3. Fits(s, entries)
  BY <1>1, OrderIs DEF Fits
<1>4. Prepared(o, s, entries)
  BY <1>1, <1>3, PlainIs
<1> QED
  BY <1>2, <1>4, Lands

(* A submitted order, seeded, takes its parts from the stock es.           *)
LEMMA SubmittedIs ==
  ASSUME WashInv, BoundAssumption, ItemAssumption, PriceAssumption, NEW o \in Order, NEW r,
         Meant(o, r), r.entry = 0, r.docstatus = 1,
         NEW es, es = CancelEntry(entries, co[o].entry), CanIssue(r, es),
         co' = [co EXCEPT ![o] = Issued(Seed(r), es)], entries' = AfterIssue(r, es),
         contract' = contract, clock' = clock
  PROVE  WashInv' /\ WorkKept
<1> DEFINE s == Seed(r)
<1>1. /\ s \in OrderRec(Len(entries)) /\ s.entry = 0 /\ s.docstatus = 1 /\ Parts(s) = Parts(r)
      /\ Sane(s) /\ Timed(s) /\ WorkStands(o, s)
  BY OrderIs, SeedIs DEF Meant, Sane
<1>2. co' = [co EXCEPT ![o] = Issued(s, es)]
  OBVIOUS
<1> HIDE DEF s
<1>3. CanIssue(s, es) /\ AfterIssue(r, es) = AfterIssue(s, es)
  BY <1>1 DEF CanIssue, AfterIssue, Issues, Covered
<1>4. Prepared(o, Issued(s, es), AfterIssue(s, es))
  BY <1>1, <1>3, IssueIs
<1> DEFINE t == Issued(s, es)  as == AfterIssue(s, es)
<1>5. Prepared(o, t, as) /\ co' = [co EXCEPT ![o] = t] /\ entries' = as
  BY <1>2, <1>3, <1>4
<1> HIDE DEF t, as
<1> QED
  BY <1>5, Lands

-----------------------------------------------------------------------------
(* The actions.                                                            *)
LEMMA OpenIs ==
  ASSUME WashInv, BoundAssumption, NEW o \in Order, co[o].status \in Open
  PROVE  /\ co[o] \in OrderRec(Len(entries)) /\ Sane(co[o]) /\ Timed(co[o])
         /\ co[o].docstatus = 0 /\ co[o].entry = 0 /\ ~co[o].billed /\ ~co[o].asked /\ ~co[o].closed
         /\ clock \in 1..MaxClock /\ clock \in 0..MaxClock /\ clock \in Nat /\ clock # 0 /\ 0 \in 0..MaxClock
         /\ co[o].finish \in Nat /\ co[o].start \in Nat /\ co[o].back \in Nat /\ co[o].plan \in Nat
         /\ co[o].status = ServiceSetup \/ co[o].status = "Pending" =>
              co[o].start = 0 /\ co[o].finish = 0 /\ co[o].washer = Nobody /\ co[o].by = Nobody
         /\ co[o].status = "In_Progress" \/ co[o].status = PendingReview => co[o].start # 0
<1>1. co[o] \in OrderRec(Len(entries)) /\ Sane(co[o]) /\ Timed(co[o]) /\ Fits(co[o], entries)
      /\ clock \in 1..MaxClock /\ MaxClock \in Nat
  BY OrderIs
<1>2. clock \in 0..MaxClock /\ clock \in Nat /\ clock # 0 /\ 0 \in 0..MaxClock
  BY <1>1
<1>3. co[o].finish \in 0..MaxClock /\ co[o].start \in 0..MaxClock /\ co[o].back \in 0..MaxClock
      /\ co[o].plan \in 0..MaxClock /\ co[o].docstatus \in 0..2
  BY <1>1 DEF OrderRec
<1>4. co[o].finish \in Nat /\ co[o].start \in Nat /\ co[o].back \in Nat /\ co[o].plan \in Nat
  BY <1>3
<1>5. co[o].status # "Completed" /\ co[o].status # "Cancelled"
  BY StageNames DEF Open
<1>6. co[o].docstatus # 1 /\ co[o].docstatus # 2
  BY <1>1, <1>5 DEF Sane
<1>7. co[o].docstatus = 0
  BY <1>3, <1>6
<1>8. co[o].entry = 0
  BY <1>1, <1>6 DEF Fits
<1>9. ~co[o].billed /\ ~co[o].asked /\ ~co[o].closed
  BY <1>1, <1>6 DEF Sane
<1>10. /\ co[o].status = ServiceSetup \/ co[o].status = "Pending" =>
            co[o].start = 0 /\ co[o].finish = 0 /\ co[o].washer = Nobody /\ co[o].by = Nobody
       /\ co[o].status = "In_Progress" \/ co[o].status = PendingReview => co[o].start # 0
  BY <1>1 DEF Sane
<1> QED
  BY <1>1, <1>2, <1>4, <1>7, <1>8, <1>9, <1>10
LEMMA FreshIs ==
  ASSUME BoundAssumption, NEW n \in Nat
  PROVE  /\ Fresh \in OrderRec(n) /\ Fresh.entry = 0 /\ Fresh.docstatus = 0 /\ Fresh.status = "New"
         /\ ~Fresh.billed /\ ~Fresh.asked /\ ~Fresh.closed /\ Fresh.start = 0 /\ Fresh.finish = 0
         /\ Fresh.back = 0 /\ Fresh.washer = Nobody /\ Fresh.by = Nobody
         /\ Fresh.typed = [i \in Item |-> NoLine]
<1>1. /\ [i \in Item |-> NoLine] \in [Item -> Price \cup {NoLine}]
      /\ [i \in Item |-> NoLine] \in [Item -> Typed \cup {NoLine}]
      /\ "New" \in Status /\ 0 \in 0..n /\ 0 \in 0..MaxClock /\ 0 \in 0..2
  BY DEF Status, BoundAssumption
<1> QED
  BY <1>1 DEF Fresh, OrderRec

LEMMA CreateKeeps ==
  ASSUME WashInv, BoundAssumption, ItemAssumption, PriceAssumption, NEW o \in Order,
         NEW day \in 1..MaxClock, Create(o, day)
  PROVE  WashInv' /\ WorkKept
<1> DEFINE s == [Fresh EXCEPT !.status = ServiceSetup, !.plan = day]
<1>1. /\ s \in OrderRec(Len(entries)) /\ s.entry = 0 /\ s.docstatus = 0 /\ s.status = ServiceSetup
      /\ ~s.billed /\ ~s.asked /\ ~s.closed /\ s.start = 0 /\ s.finish = 0 /\ s.back = 0
      /\ s.washer = Nobody /\ s.by = Nobody /\ \A i \in Item : s.typed[i] = NoLine
  <2>1. day \in 0..MaxClock /\ Len(entries) \in Nat
    BY OrderIs
  <2> QED
    BY <2>1, FreshIs DEF OrderRec, Status, Open
<1>2. co' = [co EXCEPT ![o] = s] /\ entries' = entries /\ contract' = contract /\ clock' = clock
  BY DEF Create, Same
<1> HIDE DEF s
<1>3. co[o].status = "New" /\ co[o].entry = 0 /\ WorkStands(o, s)
  BY OrderIs DEF Create, Sane, Fits, WorkStands, OrderRec
<1>4. Sane(s)
  BY <1>1, StageNames DEF Sane, TypedStand
<1>5. Fits(s, entries)
  <2>1. s.docstatus # 1 /\ s.entry = 0
    BY <1>1
  <2> QED
    BY <2>1 DEF Fits
<1>6. Timed(s)
  <2>1. clock \in Nat /\ s.back <= clock /\ s.start <= clock
    <3>1. clock \in Nat
      BY OrderIs
    <3> QED
      BY <1>1, <3>1
  <2> QED
    BY <1>1, <2>1 DEF Timed
<1>7. Prepared(o, s, entries)
  BY <1>1, <1>3, <1>4, <1>5, <1>6, PlainIs
<1> QED
  BY <1>2, <1>7, Lands

LEMMA EditKeeps ==
  ASSUME WashInv, BoundAssumption, ItemAssumption, PriceAssumption, NEW o \in Order,
         NEW S, NEW T, NEW price, T = {} \/ price \in Typed, EditLines(o, S, T, price)
  PROVE  WashInv' /\ WorkKept
<1> DEFINE w == WithRows(co[o], S, T, price)
<1>1. /\ co[o] \in OrderRec(Len(entries)) /\ Sane(co[o]) /\ Timed(co[o]) /\ co[o].docstatus = 0
      /\ TypedStand(co[o])
  BY OpenIs DEF EditLines, Sane
<1>2. /\ w \in OrderRec(Len(entries)) /\ w.entry = co[o].entry /\ w.docstatus = co[o].docstatus
      /\ w.status = co[o].status /\ w.billed = co[o].billed /\ w.asked = co[o].asked /\ w.closed = co[o].closed
      /\ w.start = co[o].start /\ w.finish = co[o].finish /\ w.washer = co[o].washer /\ w.by = co[o].by
      /\ w.back = co[o].back /\ w.plan = co[o].plan
      /\ TypedStand(w)
  BY <1>1, RowsAre
<1>3. Save(o, w)
  BY DEF EditLines
<1> HIDE DEF w
<1>4. Sane(w) /\ Timed(w) /\ WorkStands(o, w)
  BY <1>1, <1>2 DEF Sane, Timed, WorkStands
<1> QED
  BY <1>1, <1>2, <1>3, <1>4, SavedIs DEF Meant

(* A step of the draft that writes neither its rows nor what it carries.   *)
SameRows(r, c) ==
  r.rate = c.rate /\ r.typed = c.typed /\ r.entry = c.entry /\ r.billed = c.billed /\ r.plan = c.plan

LEMMA ForwardKeeps ==
  ASSUME WashInv, BoundAssumption, ItemAssumption, PriceAssumption, NEW o \in Order, forward_to_team(o)
  PROVE  WashInv' /\ WorkKept
<1> DEFINE r == [co[o] EXCEPT !.status = "Pending"]
<1>0. co[o].status = ServiceSetup
  BY DEF forward_to_team
<1>1. co[o].status \in Open
  BY <1>0 DEF Open
<1>2. /\ r \in OrderRec(Len(entries)) /\ SameRows(r, co[o]) /\ r.docstatus = co[o].docstatus
      /\ r.status = "Pending" /\ r.asked = co[o].asked /\ r.closed = co[o].closed
      /\ r.start = co[o].start /\ r.finish = co[o].finish /\ r.washer = co[o].washer /\ r.by = co[o].by
      /\ r.back = co[o].back
  BY <1>0, <1>1, OpenIs DEF OrderRec, SameRows, Status, Open
<1>3. Save(o, r)
  BY DEF forward_to_team
<1> HIDE DEF r
<1>4. Sane(r) /\ Timed(r) /\ WorkStands(o, r)
  BY <1>0, <1>1, <1>2, OpenIs, StageNames DEF Sane, Timed, WorkStands, SameRows, TypedStand
<1>6. Meant(o, r) /\ r.entry = co[o].entry /\ co[o].docstatus # 1 /\ r.docstatus # 1
  BY <1>1, <1>2, <1>4, OpenIs DEF Meant, SameRows
<1> QED
  BY <1>3, <1>6, SavedIs

LEMMA StartKeeps ==
  ASSUME WashInv, BoundAssumption, ItemAssumption, PriceAssumption, NEW o \in Order,
         NEW u \in User, start_cleaning(o, u), Starts(o)
  PROVE  WashInv' /\ WorkKept
<1> DEFINE r == [co[o] EXCEPT !.status = "In_Progress", !.start = clock, !.washer = u]
<1>0. co[o].status = ServiceSetup \/ co[o].status = "Pending"
  BY DEF start_cleaning, Starts
<1>1. co[o].status \in Open
  BY <1>0 DEF Open
<1>2. /\ r \in OrderRec(Len(entries)) /\ SameRows(r, co[o]) /\ r.docstatus = co[o].docstatus
      /\ r.status = "In_Progress" /\ r.asked = co[o].asked /\ r.closed = co[o].closed
      /\ r.start = clock /\ r.finish = co[o].finish /\ r.washer = u /\ r.by = co[o].by
      /\ r.back = co[o].back
  BY <1>0, <1>1, OpenIs DEF OrderRec, SameRows, Status, Open
<1>3. Save(o, r)
  BY DEF start_cleaning
<1> HIDE DEF r
<1>4. Sane(r) /\ WorkStands(o, r)
  BY <1>0, <1>1, <1>2, OpenIs, StageNames DEF Sane, WorkStands, SameRows, TypedStand
<1>5. Timed(r)
  BY <1>0, <1>1, <1>2, OpenIs DEF Timed, SameRows
<1>6. Meant(o, r) /\ r.entry = co[o].entry /\ co[o].docstatus # 1 /\ r.docstatus # 1
  BY <1>1, <1>2, <1>4, <1>5, OpenIs DEF Meant, SameRows
<1> QED
  BY <1>3, <1>6, SavedIs

LEMMA SignOffKeeps ==
  ASSUME WashInv, BoundAssumption, ItemAssumption, PriceAssumption, NEW o \in Order,
         NEW u \in User, submit_for_review(o, u)
  PROVE  WashInv' /\ WorkKept
<1> DEFINE fin == IF co[o].finish = 0 THEN clock ELSE co[o].finish
           by  == IF co[o].by = Nobody THEN u ELSE co[o].by
           r == [co[o] EXCEPT !.status = PendingReview, !.finish = fin, !.by = by]
<1>0. co[o].status = "In_Progress"
  BY DEF submit_for_review
<1>1. co[o].status \in Open
  BY <1>0 DEF Open
<1>2. /\ r \in OrderRec(Len(entries)) /\ SameRows(r, co[o]) /\ r.docstatus = co[o].docstatus
      /\ r.status = PendingReview /\ r.asked = co[o].asked /\ r.closed = co[o].closed
      /\ r.start = co[o].start /\ r.finish = fin /\ r.washer = co[o].washer /\ r.by = by
      /\ r.back = co[o].back
  <2>1. fin \in 0..MaxClock /\ by \in User \cup {Nobody}
    BY <1>0, <1>1, OpenIs DEF OrderRec
  <2> HIDE DEF fin, by
  <2> QED
    BY <1>0, <1>1, <2>1, OpenIs DEF OrderRec, SameRows, Status, Open
<1>3. Save(o, r)
  BY DEF submit_for_review
<1> HIDE DEF r
<1>4. Sane(r) /\ WorkStands(o, r)
  BY <1>0, <1>1, <1>2, OpenIs, StageNames DEF Sane, WorkStands, SameRows, TypedStand
<1>5. Timed(r)
  <2>1. co[o].finish \in Nat /\ co[o].start \in Nat /\ co[o].back \in Nat /\ clock \in Nat
    BY <1>0, <1>1, OpenIs DEF OrderRec
  <2> QED
    BY <1>0, <1>1, <1>2, OpenIs, <2>1 DEF Timed, SameRows
<1>6. Meant(o, r) /\ r.entry = co[o].entry /\ co[o].docstatus # 1 /\ r.docstatus # 1
  BY <1>1, <1>2, <1>4, <1>5, OpenIs DEF Meant, SameRows
<1> QED
  BY <1>3, <1>6, SavedIs

LEMMA WithdrawKeeps ==
  ASSUME WashInv, BoundAssumption, ItemAssumption, PriceAssumption, NEW o \in Order, withdraw_review(o)
  PROVE  WashInv' /\ WorkKept
<1> DEFINE r == BackToWork(co[o])
<1>0. co[o].status = PendingReview
  BY DEF withdraw_review
<1>1. co[o].status \in Open
  BY <1>0 DEF Open
<1>2. /\ r \in OrderRec(Len(entries)) /\ SameRows(r, co[o]) /\ r.docstatus = co[o].docstatus
      /\ r.status = "In_Progress" /\ r.asked = co[o].asked /\ r.closed = co[o].closed
      /\ r.start = co[o].start /\ r.finish = 0 /\ r.washer = co[o].washer /\ r.by = co[o].by
      /\ r.back = clock
  <2>1. 0 \in 0..MaxClock
    BY <1>1, OpenIs
  <2>2. /\ co[o] \in OrderRec(Len(entries)) /\ "In_Progress" \in Status
        /\ 0 \in 0..MaxClock /\ clock \in 0..MaxClock
    BY <1>1, OpenIs DEF Status, Open
  <2> QED
    BY <2>2 DEF BackToWork, OrderRec, SameRows
<1>3. Save(o, r)
  BY DEF withdraw_review
<1> HIDE DEF r
<1>4. Sane(r) /\ WorkStands(o, r)
  BY <1>0, <1>1, <1>2, OpenIs, StageNames DEF Sane, WorkStands, SameRows, TypedStand
<1>5. Timed(r)
  BY <1>0, <1>1, <1>2, OpenIs DEF Timed, SameRows
<1>6. Meant(o, r) /\ r.entry = co[o].entry /\ co[o].docstatus # 1 /\ r.docstatus # 1
  BY <1>1, <1>2, <1>4, <1>5, OpenIs DEF Meant, SameRows
<1> QED
  BY <1>3, <1>6, SavedIs

(* What Submit stamps on the order.                                        *)
LEMMA FinishedIs ==
  ASSUME NEW n, NEW c \in OrderRec(n), NEW u \in User, clock \in 0..MaxClock
  PROVE  LET r == Finished(c, u)
         IN /\ r \in OrderRec(n) /\ SameRows(r, c) /\ r.status = "Completed" /\ r.docstatus = 1
            /\ r.asked = c.asked /\ r.closed = c.closed /\ r.washer = c.washer /\ r.back = c.back
            /\ r.by = (IF c.by = Nobody THEN u ELSE c.by)
            /\ r.start = (IF c.start = 0 THEN clock ELSE c.start)
            /\ r.finish = (IF c.finish = 0 THEN clock ELSE c.finish)
<1> DEFINE st == IF c.start = 0 THEN clock ELSE c.start
           fi == IF c.finish = 0 THEN clock ELSE c.finish
           by == IF c.by = Nobody THEN u ELSE c.by
           r == [c EXCEPT !.status = "Completed", !.docstatus = 1, !.by = by, !.start = st, !.finish = fi]
<1>1. Finished(c, u) = r
  BY DEF Finished
<1>2. st \in 0..MaxClock /\ fi \in 0..MaxClock /\ by \in User \cup {Nobody} /\ "Completed" \in Status
      /\ 1 \in 0..2
  BY DEF OrderRec, Status
<1> HIDE DEF st, fi, by
<1>3. /\ r \in OrderRec(n) /\ SameRows(r, c) /\ r.status = "Completed" /\ r.docstatus = 1
      /\ r.asked = c.asked /\ r.closed = c.closed /\ r.washer = c.washer /\ r.back = c.back
      /\ r.by = by /\ r.start = st /\ r.finish = fi
  BY <1>2 DEF OrderRec, SameRows
<1> HIDE DEF r
<1> QED
  BY <1>1, <1>3 DEF st, fi, by

LEMMA SubmitKeeps ==
  ASSUME WashInv, BoundAssumption, ItemAssumption, PriceAssumption, NEW o \in Order,
         NEW u \in User, DeskSubmit(o, u)
  PROVE  WashInv' /\ WorkKept
<1> DEFINE r == Finished(co[o], u)
<1>1. co[o].status \in Open
  BY DEF DeskSubmit
<1>2. /\ r \in OrderRec(Len(entries)) /\ SameRows(r, co[o]) /\ r.status = "Completed" /\ r.docstatus = 1
      /\ r.asked = co[o].asked /\ r.closed = co[o].closed /\ r.washer = co[o].washer /\ r.back = co[o].back
      /\ r.by = (IF co[o].by = Nobody THEN u ELSE co[o].by)
      /\ r.start = (IF co[o].start = 0 THEN clock ELSE co[o].start)
      /\ r.finish = (IF co[o].finish = 0 THEN clock ELSE co[o].finish)
  BY <1>1, OpenIs, FinishedIs
<1>3. /\ CanIssue(r, entries) /\ co' = [co EXCEPT ![o] = Issued(Seed(r), entries)]
      /\ entries' = AfterIssue(r, entries) /\ contract' = contract /\ clock' = clock
  BY DEF DeskSubmit, Submit, Same
<1> HIDE DEF r
<1>4. Sane(r) /\ WorkStands(o, r)
  BY <1>1, <1>2, OpenIs, StageNames DEF Sane, WorkStands, SameRows, TypedStand
<1>5. Timed(r)
  BY <1>1, <1>2, OpenIs, StageNames DEF Timed, Open, SameRows
<1>6. CancelEntry(entries, co[o].entry) = entries /\ r.entry = 0 /\ Meant(o, r)
  BY <1>1, <1>2, <1>4, <1>5, OpenIs DEF CancelEntry, Meant, SameRows
<1> QED
  BY <1>2, <1>3, <1>6, SubmittedIs

(* Tutup Order's own dates: what was recorded stands.                      *)
LEMMA CloseKeeps ==
  ASSUME WashInv, BoundAssumption, ItemAssumption, PriceAssumption, NEW o \in Order,
         NEW u \in User, close_cleaning(o, u)
  PROVE  WashInv' /\ WorkKept
<1> DEFINE st == IF co[o].start = 0 THEN co[o].plan ELSE co[o].start
           fi == IF co[o].finish = 0 THEN LaterOf(co[o].plan, st) ELSE co[o].finish
           c == [co[o] EXCEPT !.start = st, !.finish = fi, !.closed = TRUE]
           r == Finished(c, u)
<1>1. co[o].status \in Open
  BY DEF close_cleaning
<1>2. OwnDates(co[o]) = c
  BY DEF OwnDates
<1>3. /\ CanIssue(r, entries) /\ co' = [co EXCEPT ![o] = Issued(Seed(r), entries)]
      /\ entries' = AfterIssue(r, entries) /\ contract' = contract /\ clock' = clock
  BY <1>2 DEF close_cleaning, Submit, Same
<1>4. co[o] \in OrderRec(Len(entries)) /\ co[o].plan \in 0..MaxClock /\ co[o].start \in 0..MaxClock
      /\ co[o].finish \in 0..MaxClock
  BY <1>1, OpenIs DEF OrderRec
<1>5. st \in 0..MaxClock /\ fi \in 0..MaxClock
  BY <1>4 DEF LaterOf
<1>6. co[o].plan \in Nat /\ co[o].start \in Nat /\ co[o].finish \in Nat /\ co[o].back \in Nat /\ clock \in Nat
      /\ clock # 0 /\ clock \in 0..MaxClock
  BY <1>1, OpenIs
<1>7. co[o].start = 0 => co[o].finish = 0
  BY <1>1, OpenIs DEF Open
<1>8. /\ st = co[o].start \/ (co[o].start = 0 /\ st = co[o].plan)
      /\ fi = co[o].finish \/ (co[o].finish = 0 /\ fi \in Nat /\ fi >= st)
      /\ co[o].start # 0 => st = co[o].start
      /\ co[o].start = 0 => st = co[o].plan
      /\ co[o].finish # 0 => fi = co[o].finish
      /\ co[o].finish = 0 => fi >= st /\ (fi = st \/ fi = co[o].plan)
  BY <1>6 DEF LaterOf
<1>9. st \in Nat /\ fi \in Nat
  BY <1>6 DEF LaterOf
<1> HIDE DEF st, fi
<1>10. /\ c \in OrderRec(Len(entries)) /\ SameRows(c, co[o]) /\ c.asked = co[o].asked /\ c.closed = TRUE
       /\ c.washer = co[o].washer /\ c.back = co[o].back /\ c.by = co[o].by /\ c.start = st /\ c.finish = fi
  BY <1>4, <1>5 DEF OrderRec, SameRows
<1> HIDE DEF c
<1>11. /\ r \in OrderRec(Len(entries)) /\ SameRows(r, c) /\ r.status = "Completed" /\ r.docstatus = 1
       /\ r.asked = c.asked /\ r.closed = c.closed /\ r.washer = c.washer /\ r.back = c.back
       /\ r.by = (IF c.by = Nobody THEN u ELSE c.by)
       /\ r.start = (IF c.start = 0 THEN clock ELSE c.start)
       /\ r.finish = (IF c.finish = 0 THEN clock ELSE c.finish)
  BY <1>6, <1>10, FinishedIs
<1> HIDE DEF r
<1>12. SameRows(r, co[o]) /\ r.closed /\ r.asked = co[o].asked /\ r.back = co[o].back /\ r.washer = co[o].washer
       /\ r.by = (IF co[o].by = Nobody THEN u ELSE co[o].by)
       /\ r.start = (IF st = 0 THEN clock ELSE st) /\ r.finish = (IF fi = 0 THEN clock ELSE fi)
  BY <1>10, <1>11 DEF SameRows
<1>13. Sane(r)
  BY <1>1, <1>6, <1>9, <1>11, <1>12, OpenIs, StageNames DEF Sane, SameRows, TypedStand
<1>14. WorkStands(o, r)
  BY <1>6, <1>8, <1>9, <1>12 DEF WorkStands
<1>15. Timed(r)
  <2>1. Timed(co[o])
    BY <1>1, OpenIs
  <2>2. r.back <= clock /\ (r.start <= clock \/ r.start = r.plan)
    BY <1>6, <1>8, <1>9, <1>12, <2>1 DEF Timed, SameRows
  <2>3. r.start <= r.finish \/ r.start = r.plan
    <3>1. r.plan = co[o].plan
      BY <1>12 DEF SameRows
    <3>2. CASE co[o].start = 0
      BY <1>6, <1>7, <1>8, <1>9, <1>12, <3>1, <3>2
    <3>3. CASE co[o].start # 0
      BY <1>6, <1>8, <1>9, <1>12, <2>1, <3>1, <3>3 DEF Timed
    <3> QED
      BY <3>2, <3>3
  <2> QED
    BY <1>12, <2>2, <2>3 DEF Timed
<1>16. CancelEntry(entries, co[o].entry) = entries /\ r.entry = 0 /\ Meant(o, r)
  BY <1>1, <1>11, <1>12, <1>13, <1>14, <1>15, OpenIs DEF CancelEntry, Meant, SameRows
<1> QED
  BY <1>3, <1>11, <1>16, SubmittedIs

(* A submitted order.                                                      *)
LEMMA DoneIs ==
  ASSUME WashInv, BoundAssumption, NEW o \in Order, co[o].docstatus = 1
  PROVE  /\ co[o] \in OrderRec(Len(entries)) /\ Sane(co[o]) /\ Timed(co[o]) /\ Fits(co[o], entries)
         /\ co[o].status = "Completed" /\ co[o].start # 0
         /\ clock \in 1..MaxClock /\ clock \in 0..MaxClock /\ clock \in Nat /\ 0 \in 0..MaxClock
         /\ 0 \in 0..Len(entries) /\ 0 \in 0..2
         /\ co[o].finish \in Nat /\ co[o].start \in Nat /\ co[o].back \in Nat /\ co[o].plan \in Nat
<1>1. co[o] \in OrderRec(Len(entries)) /\ Sane(co[o]) /\ Timed(co[o]) /\ Fits(co[o], entries)
      /\ clock \in 1..MaxClock /\ MaxClock \in Nat /\ Len(entries) \in Nat
  BY OrderIs
<1>2. clock \in 0..MaxClock /\ clock \in Nat /\ 0 \in 0..MaxClock /\ 0 \in 0..Len(entries)
  BY <1>1
<1>3. co[o].finish \in 0..MaxClock /\ co[o].start \in 0..MaxClock /\ co[o].back \in 0..MaxClock
      /\ co[o].plan \in 0..MaxClock
  BY <1>1 DEF OrderRec
<1>4. co[o].finish \in Nat /\ co[o].start \in Nat /\ co[o].back \in Nat /\ co[o].plan \in Nat
  BY <1>3
<1>5. co[o].status = "Completed" /\ co[o].start # 0
  BY <1>1 DEF Sane
<1> QED
  BY <1>1, <1>2, <1>4, <1>5

LEMMA RevertKeeps ==
  ASSUME WashInv, BoundAssumption, ItemAssumption, PriceAssumption, NEW o \in Order, revert_to_draft(o)
  PROVE  WashInv' /\ WorkKept
<1> DEFINE b == BackToWork(co[o])
           s == [b EXCEPT !.docstatus = 0, !.entry = 0, !.closed = FALSE, !.asked = FALSE]
           es == CancelEntry(entries, co[o].entry)
<1>1. /\ co[o].docstatus = 1 /\ ~co[o].billed /\ co' = [co EXCEPT ![o] = s] /\ entries' = es
      /\ contract' = contract /\ clock' = clock
  BY DEF revert_to_draft, MayRevert, PartsBack, Same
<1>2. /\ b \in OrderRec(Len(entries)) /\ SameRows(b, co[o]) /\ b.status = "In_Progress" /\ b.finish = 0
      /\ b.back = clock /\ b.start = co[o].start /\ b.washer = co[o].washer /\ b.by = co[o].by
  <2>1. /\ co[o] \in OrderRec(Len(entries)) /\ "In_Progress" \in Status
        /\ 0 \in 0..MaxClock /\ clock \in 0..MaxClock
    BY <1>1, DoneIs DEF Status, Open
  <2> QED
    BY <2>1 DEF BackToWork, OrderRec, SameRows
<1> HIDE DEF b
<1>3. /\ s \in OrderRec(Len(entries)) /\ s.docstatus = 0 /\ s.entry = 0 /\ s.closed = FALSE /\ s.asked = FALSE
      /\ s.rate = b.rate /\ s.typed = b.typed /\ s.billed = b.billed /\ s.plan = b.plan /\ s.status = b.status
      /\ s.finish = b.finish /\ s.back = b.back /\ s.start = b.start /\ s.washer = b.washer /\ s.by = b.by
  BY <1>1, <1>2, DoneIs DEF OrderRec
<1> HIDE DEF s, es
<1>4. Sane(s) /\ WorkStands(o, s)
  BY <1>1, <1>2, <1>3, DoneIs, StageNames DEF Sane, WorkStands, SameRows, TypedStand
<1>5. Timed(s)
  BY <1>1, <1>2, <1>3, DoneIs DEF Timed, SameRows
<1>6. Fits(s, entries)
  BY <1>3 DEF Fits
<1>7. Prepared(o, s, es)
  BY <1>3, <1>4, <1>5, <1>6, ReturnIs DEF es
<1> QED
  BY <1>1, <1>7, Lands

LEMMA CancelKeeps ==
  ASSUME WashInv, BoundAssumption, ItemAssumption, PriceAssumption, NEW o \in Order, cancel_order(o)
  PROVE  WashInv' /\ WorkKept
<1> DEFINE s == [co[o] EXCEPT !.status = "Cancelled", !.docstatus = 2, !.asked = FALSE]
           es == CancelEntry(entries, co[o].entry)
<1>1. /\ co[o].status \in Open /\ co' = [co EXCEPT ![o] = s] /\ entries' = es
      /\ contract' = contract /\ clock' = clock
  BY DEF cancel_order, Same
<1>2. /\ s \in OrderRec(Len(entries)) /\ SameRows(s, co[o]) /\ s.status = "Cancelled" /\ s.docstatus = 2
      /\ s.asked = FALSE /\ s.closed = co[o].closed /\ s.start = co[o].start /\ s.finish = co[o].finish
      /\ s.back = co[o].back /\ s.washer = co[o].washer /\ s.by = co[o].by
  <2>1. co[o] \in OrderRec(Len(entries)) /\ "Cancelled" \in Status /\ 2 \in 0..2
    BY <1>1, OpenIs DEF Status
  <2> QED
    BY <2>1 DEF OrderRec, SameRows
<1> HIDE DEF s, es
<1>3. Sane(s) /\ WorkStands(o, s)
  BY <1>1, <1>2, OpenIs, StageNames DEF Sane, WorkStands, SameRows, TypedStand
<1>4. Timed(s)
  BY <1>1, <1>2, OpenIs DEF Timed, SameRows
<1>5. s.entry = 0 /\ Fits(s, entries)
  BY <1>1, <1>2, OpenIs DEF Fits, SameRows
<1>6. Prepared(o, s, es)
  BY <1>2, <1>3, <1>4, <1>5, ReturnIs DEF es
<1> QED
  BY <1>1, <1>6, Lands

(* A mark on a submitted order, or off it.                                 *)
LEMMA MarkKeeps ==
  ASSUME WashInv, BoundAssumption, NEW o \in Order, NEW s, s \in OrderRec(Len(entries)),
         co[o].docstatus = 1 \/ ((s.billed => co[o].billed) /\ (s.asked => co[o].asked)),
         SameRows([s EXCEPT !.billed = co[o].billed], co[o]), s.docstatus = co[o].docstatus,
         s.status = co[o].status, s.closed = co[o].closed, s.start = co[o].start,
         s.finish = co[o].finish, s.back = co[o].back, s.washer = co[o].washer, s.by = co[o].by,
         co' = [co EXCEPT ![o] = s], entries' = entries, contract' = contract, clock' = clock
  PROVE  WashInv' /\ WorkKept
<1>1. co[o] \in OrderRec(Len(entries)) /\ Sane(co[o]) /\ Timed(co[o]) /\ Fits(co[o], entries)
  BY OrderIs
<1>2. s.rate = co[o].rate /\ s.typed = co[o].typed /\ s.entry = co[o].entry /\ s.plan = co[o].plan
  BY DEF SameRows, OrderRec
<1>3. Sane(s)
  BY <1>1, <1>2 DEF Sane, TypedStand
<1>4. Timed(s)
  BY <1>1, <1>2 DEF Timed
<1>5. Fits(s, entries)
  BY <1>1, <1>2 DEF Fits, Parts, Lines
<1>6. WorkStands(o, s)
  BY DEF WorkStands
<1>7. Prepared(o, s, entries)
  BY <1>2, <1>3, <1>4, <1>5, <1>6, PlainIs
<1> QED
  BY <1>7, Lands

LEMMA MarksKeep ==
  ASSUME WashInv, BoundAssumption, NEW o \in Order,
         request_revision(o) \/ reject_revision(o) \/ Bill(o) \/ Unbill(o)
  PROVE  WashInv' /\ WorkKept
<1>1. co[o] \in OrderRec(Len(entries)) /\ Sane(co[o])
  BY OrderIs
<1>2. CASE request_revision(o)
  <2> DEFINE s == [co[o] EXCEPT !.asked = TRUE]
  <2>1. /\ s \in OrderRec(Len(entries)) /\ SameRows([s EXCEPT !.billed = co[o].billed], co[o])
        /\ s.docstatus = co[o].docstatus /\ s.status = co[o].status /\ s.closed = co[o].closed
        /\ s.start = co[o].start /\ s.finish = co[o].finish /\ s.back = co[o].back
        /\ s.washer = co[o].washer /\ s.by = co[o].by
    BY <1>1 DEF OrderRec, SameRows
  <2>2. /\ co[o].docstatus = 1 /\ co' = [co EXCEPT ![o] = s] /\ entries' = entries
        /\ contract' = contract /\ clock' = clock
    BY <1>2 DEF request_revision, Same
  <2> HIDE DEF s
  <2> QED
    BY <2>1, <2>2, MarkKeeps
<1>3. CASE reject_revision(o)
  <2> DEFINE s == [co[o] EXCEPT !.asked = FALSE]
  <2>1. /\ s \in OrderRec(Len(entries)) /\ SameRows([s EXCEPT !.billed = co[o].billed], co[o])
        /\ s.docstatus = co[o].docstatus /\ s.status = co[o].status /\ s.closed = co[o].closed
        /\ s.start = co[o].start /\ s.finish = co[o].finish /\ s.back = co[o].back
        /\ s.washer = co[o].washer /\ s.by = co[o].by /\ (s.billed => co[o].billed) /\ s.asked = FALSE
    BY <1>1 DEF OrderRec, SameRows
  <2>2. /\ co' = [co EXCEPT ![o] = s] /\ entries' = entries
        /\ contract' = contract /\ clock' = clock
    BY <1>3 DEF reject_revision, Same
  <2> HIDE DEF s
  <2> QED
    BY <2>1, <2>2, MarkKeeps
<1>4. CASE Bill(o)
  <2> DEFINE s == [co[o] EXCEPT !.billed = TRUE]
  <2>1. /\ s \in OrderRec(Len(entries)) /\ SameRows([s EXCEPT !.billed = co[o].billed], co[o])
        /\ s.docstatus = co[o].docstatus /\ s.status = co[o].status /\ s.closed = co[o].closed
        /\ s.start = co[o].start /\ s.finish = co[o].finish /\ s.back = co[o].back
        /\ s.washer = co[o].washer /\ s.by = co[o].by
    BY <1>1 DEF OrderRec, SameRows
  <2>2. /\ co[o].docstatus = 1 /\ co' = [co EXCEPT ![o] = s] /\ entries' = entries
        /\ contract' = contract /\ clock' = clock
    BY <1>1, <1>4 DEF Bill, Same, Sane
  <2> HIDE DEF s
  <2> QED
    BY <2>1, <2>2, MarkKeeps
<1>5. CASE Unbill(o)
  <2> DEFINE s == [co[o] EXCEPT !.billed = FALSE]
  <2>1. /\ s \in OrderRec(Len(entries)) /\ SameRows([s EXCEPT !.billed = co[o].billed], co[o])
        /\ s.docstatus = co[o].docstatus /\ s.status = co[o].status /\ s.closed = co[o].closed
        /\ s.start = co[o].start /\ s.finish = co[o].finish /\ s.back = co[o].back
        /\ s.washer = co[o].washer /\ s.by = co[o].by /\ s.billed = FALSE /\ s.asked = co[o].asked
    BY <1>1 DEF OrderRec, SameRows
  <2>2. /\ co' = [co EXCEPT ![o] = s] /\ entries' = entries
        /\ contract' = contract /\ clock' = clock
    BY <1>5 DEF Unbill, Same
  <2> HIDE DEF s
  <2> QED
    BY <2>1, <2>2, MarkKeeps
<1> QED
  BY <1>2, <1>3, <1>4, <1>5

(* Revisi Data.                                                            *)
LEMMA ReviseKeeps ==
  ASSUME WashInv, BoundAssumption, ItemAssumption, PriceAssumption, NEW o \in Order,
         NEW S, NEW T, NEW price, T = {} \/ price \in Typed, Revise(o, S, T, price)
  PROVE  WashInv' /\ WorkKept
<1> DEFINE w == WithRows(co[o], S, T, price)
           r == [w EXCEPT !.asked = FALSE]
           bare == [r EXCEPT !.entry = 0]
<1>1. /\ co[o].docstatus = 1 /\ contract' = contract /\ clock' = clock
      /\ \/ /\ Parts(r) = Parts(co[o]) /\ co' = [co EXCEPT ![o] = Seed(r)] /\ entries' = entries
         \/ /\ CanIssue(bare, CancelEntry(entries, r.entry))
            /\ co' = [co EXCEPT ![o] = Issued(Seed(bare), CancelEntry(entries, r.entry))]
            /\ entries' = AfterIssue(bare, CancelEntry(entries, r.entry))
  BY DEF Revise, Same
<1>2. /\ w \in OrderRec(Len(entries)) /\ w.entry = co[o].entry /\ w.docstatus = co[o].docstatus
      /\ w.status = co[o].status /\ w.billed = co[o].billed /\ w.asked = co[o].asked /\ w.closed = co[o].closed
      /\ w.start = co[o].start /\ w.finish = co[o].finish /\ w.washer = co[o].washer /\ w.by = co[o].by
      /\ w.back = co[o].back /\ w.plan = co[o].plan
      /\ TypedStand(w)
  <2>1. co[o] \in OrderRec(Len(entries)) /\ TypedStand(co[o])
    BY <1>1, DoneIs DEF Sane
  <2> QED
    BY <2>1, RowsAre
<1> HIDE DEF w
<1>3. /\ r \in OrderRec(Len(entries)) /\ r.entry = w.entry /\ r.docstatus = w.docstatus
      /\ r.status = w.status /\ r.billed = w.billed /\ r.asked = FALSE /\ r.closed = w.closed
      /\ r.start = w.start /\ r.finish = w.finish /\ r.washer = w.washer /\ r.by = w.by
      /\ r.back = w.back /\ r.plan = w.plan /\ r.rate = w.rate /\ r.typed = w.typed
  BY <1>2 DEF OrderRec
<1> HIDE DEF r
<1>4. /\ bare \in OrderRec(Len(entries)) /\ bare.entry = 0 /\ bare.docstatus = r.docstatus
      /\ bare.status = r.status /\ bare.billed = r.billed /\ bare.asked = r.asked /\ bare.closed = r.closed
      /\ bare.start = r.start /\ bare.finish = r.finish /\ bare.washer = r.washer /\ bare.by = r.by
      /\ bare.back = r.back /\ bare.plan = r.plan /\ bare.rate = r.rate /\ bare.typed = r.typed
  BY <1>1, <1>3, DoneIs DEF OrderRec
<1> HIDE DEF bare
<1>5. Sane(r) /\ Sane(bare)
  <2>1. Sane(r)
    BY <1>1, <1>2, <1>3, DoneIs DEF Sane, TypedStand
  <2> QED
    BY <1>4, <2>1 DEF Sane, TypedStand
<1>6. Timed(r) /\ Timed(bare)
  <2>1. Timed(r)
    BY <1>1, <1>2, <1>3, DoneIs DEF Timed
  <2> QED
    BY <1>4, <2>1 DEF Timed
<1>7. WorkStands(o, r) /\ WorkStands(o, bare)
  BY <1>2, <1>3, <1>4 DEF WorkStands
<1>8. CASE Parts(r) = Parts(co[o]) /\ co' = [co EXCEPT ![o] = Seed(r)] /\ entries' = entries
  <2> DEFINE s == Seed(r)
  <2>1. /\ s \in OrderRec(Len(entries)) /\ s.entry = r.entry /\ s.docstatus = r.docstatus
        /\ Parts(s) = Parts(r) /\ Sane(s) /\ Timed(s) /\ WorkStands(o, s)
    BY <1>3, <1>5, <1>6, <1>7, OrderIs, SeedIs DEF Sane
  <2>2. co' = [co EXCEPT ![o] = s]
    BY <1>8
  <2> HIDE DEF s
  <2>3. Fits(s, entries)
    <3>1. /\ Parts(s) = Parts(co[o]) /\ s.entry = co[o].entry /\ s.docstatus = 1
          /\ co[o].docstatus = 1 /\ Fits(co[o], entries)
      BY <1>1, <1>2, <1>3, <1>8, <2>1, DoneIs
    <3> QED
      BY <3>1 DEF Fits
  <2>4. Prepared(o, s, entries)
    BY <1>2, <1>3, <2>1, <2>3, PlainIs
  <2> QED
    BY <1>1, <1>8, <2>2, <2>4, Lands
<1>9. CASE /\ CanIssue(bare, CancelEntry(entries, r.entry))
           /\ co' = [co EXCEPT ![o] = Issued(Seed(bare), CancelEntry(entries, r.entry))]
           /\ entries' = AfterIssue(bare, CancelEntry(entries, r.entry))
  <2> DEFINE es == CancelEntry(entries, co[o].entry)
  <2>1. CancelEntry(entries, r.entry) = es
    BY <1>2, <1>3
  <2>2. CanIssue(bare, es) /\ co' = [co EXCEPT ![o] = Issued(Seed(bare), es)] /\ entries' = AfterIssue(bare, es)
    BY <1>9, <2>1
  <2>3. Meant(o, bare) /\ bare.entry = 0 /\ bare.docstatus = 1
    BY <1>1, <1>2, <1>3, <1>4, <1>5, <1>6, <1>7 DEF Meant
  <2>4. es = CancelEntry(entries, co[o].entry)
    OBVIOUS
  <2> HIDE DEF es
  <2> QED
    BY <1>1, <2>2, <2>3, <2>4, SubmittedIs
<1> QED
  BY <1>1, <1>8, <1>9

(* The clock and the contract move, and the orders do not.                 *)
LEMMA AroundKeeps ==
  ASSUME WashInv, BoundAssumption, co' = co, entries' = entries,
         contract' \in [Item -> Tariff], clock' \in 1..MaxClock, clock' >= clock
  PROVE  WashInv' /\ WorkKept
<1>1. TypeOK'
  BY DEF WashInv, TypeOK
<1>2. \A o \in Order : Fits(co[o], entries)' /\ Sane(co[o])'
  BY DEF WashInv, Fits, Parts, Lines, Sane
<1>3. \A o \in Order : Timed(co[o])'
  <2> SUFFICES ASSUME NEW o \in Order PROVE Timed(co[o])'
    OBVIOUS
  <2>1. /\ co[o].back \in Nat /\ co[o].start \in Nat /\ clock \in Nat /\ clock' \in Nat /\ Timed(co[o])
    <3>1. co[o].back \in 0..MaxClock /\ co[o].start \in 0..MaxClock /\ clock \in 1..MaxClock /\ Timed(co[o])
      BY OrderIs DEF OrderRec
    <3> QED
      BY <3>1
  <2> QED
    BY <2>1 DEF Timed
<1>4. Apart' /\ Owned' /\ InStock(entries)'
  BY DEF WashInv, Apart, Owned, InStock, OnHand
<1>5. WorkKept
  BY DEF WorkKept
<1> QED
  BY <1>1, <1>2, <1>3, <1>4, <1>5 DEF WashInv

LEMMA WashStart == ASSUME Init, BoundAssumption, ItemAssumption, PriceAssumption PROVE WashInv
<1>1. entries = <<>> /\ Len(entries) = 0 /\ DOMAIN entries = {} /\ clock = 1 /\ MaxClock \in Nat /\ MaxClock >= 1
      /\ MaxEntry \in Nat
  BY DEF Init, BoundAssumption
<1>2. /\ \A o \in Order : co[o] = Fresh
      /\ co = [o \in Order |-> Fresh] /\ contract \in [Item -> Tariff]
  BY DEF Init
<1>3. /\ Fresh \in OrderRec(0) /\ Fresh.entry = 0 /\ Fresh.docstatus = 0 /\ Fresh.status = "New"
      /\ ~Fresh.billed /\ ~Fresh.asked /\ ~Fresh.closed /\ Fresh.start = 0 /\ Fresh.finish = 0
      /\ Fresh.back = 0 /\ Fresh.washer = Nobody /\ Fresh.by = Nobody
      /\ \A i \in Item : Fresh.typed[i] = NoLine
  BY FreshIs
<1>4. TypeOK
  <2>1. co \in [Order -> OrderRec(Len(entries))]
    BY <1>1, <1>2, <1>3
  <2>2. entries \in Seq(EntryRec) /\ Len(entries) <= MaxEntry /\ clock \in 1..MaxClock
    BY <1>1
  <2> QED
    BY <1>2, <2>1, <2>2 DEF TypeOK, OrderRec, EntryRec
<1>5. Fits(Fresh, entries)
  BY <1>3 DEF Fits
<1>6. Sane(Fresh)
  BY <1>3, StageNames DEF Sane, TypedStand
<1>7. Timed(Fresh)
  BY <1>1, <1>3 DEF Timed
<1>8. Apart /\ Owned
  BY <1>1, <1>2, <1>3 DEF Apart, Owned
<1>9. InStock(entries)
  <2> SUFFICES ASSUME NEW p \in Part PROVE OnHand(p, entries) >= 0
    BY DEF InStock
  <2>1. {k \in DOMAIN entries : entries[k].live /\ p \in entries[k].parts} = {}
    BY <1>1
  <2>2. OnHand(p, entries) = Supply[p] - 0 /\ Supply[p] \in Nat
    BY <2>1, FS_EmptySet DEF OnHand, ItemAssumption
  <2> QED
    BY <2>2
<1> QED
  BY <1>2, <1>4, <1>5, <1>6, <1>7, <1>8, <1>9 DEF WashInv

LEMMA WashStep ==
  ASSUME WashInv, BoundAssumption, ItemAssumption, PriceAssumption, [Next]_vars
  PROVE  WashInv' /\ WorkKept
<1>0. contract \in [Item -> Tariff] /\ clock \in 1..MaxClock /\ MaxClock \in Nat
  BY DEF WashInv, TypeOK, BoundAssumption
<1>1. CASE UNCHANGED vars
  BY <1>0, <1>1, AroundKeeps DEF vars
<1>2. ASSUME NEW o \in Order, NEW day \in 1..MaxClock, Create(o, day) PROVE WashInv' /\ WorkKept
  BY <1>2, CreateKeeps
<1>3. ASSUME NEW o \in Order, NEW S \in SUBSET Item, NEW e \in Edited(S),
             EditLines(o, S, e[1], e[2]) \/ Revise(o, S, e[1], e[2])
      PROVE  WashInv' /\ WorkKept
  <2>1. e[1] = {} \/ e[2] \in Typed
    BY DEF Edited
  <2> QED
    BY <1>3, <2>1, EditKeeps, ReviseKeeps
<1>4. ASSUME NEW o \in Order,
             \/ forward_to_team(o) \/ withdraw_review(o) \/ revert_to_draft(o) \/ cancel_order(o)
             \/ request_revision(o) \/ reject_revision(o) \/ Bill(o) \/ Unbill(o)
      PROVE  WashInv' /\ WorkKept
  BY <1>4, ForwardKeeps, WithdrawKeeps, RevertKeeps, CancelKeeps, MarksKeep
<1>5. ASSUME NEW o \in Order, NEW u \in User, start_cleaning(o, u) PROVE WashInv' /\ WorkKept
  <2>1. CASE Starts(o)
    BY <1>5, <2>1, StartKeeps
  <2>2. CASE ~Starts(o)
    <3>1. UNCHANGED vars
      BY <1>5, <2>2 DEF start_cleaning
    <3> QED
      BY <1>0, <3>1, AroundKeeps DEF vars
  <2> QED
    BY <2>1, <2>2
<1>6. ASSUME NEW o \in Order, NEW u \in User,
             submit_for_review(o, u) \/ DeskSubmit(o, u) \/ close_cleaning(o, u)
      PROVE  WashInv' /\ WorkKept
  BY <1>6, SignOffKeeps, SubmitKeeps, CloseKeeps
<1>7. ASSUME NEW i \in Item, NEW price \in Tariff, NewContract(i, price) PROVE WashInv' /\ WorkKept
  BY <1>0, <1>7, AroundKeeps DEF NewContract
<1>8. CASE Tick
  BY <1>0, <1>8, AroundKeeps DEF Tick
<1> QED
  BY <1>1, <1>2, <1>3, <1>4, <1>5, <1>6, <1>7, <1>8 DEF Next

LEMMA WashAsMeant ==
  ASSUME WashInv, BoundAssumption
  PROVE  /\ TypeOK /\ PartsAccounted /\ MarksOnSubmitted /\ FinishRetimed /\ StartBeforeFinish
         /\ 0 \notin Typed => TypedPriceStands
<1>1. ASSUME NEW o \in Order
      PROVE  /\ Fits(co[o], entries) /\ Sane(co[o]) /\ Timed(co[o])
  BY DEF WashInv
<1>2. ASSUME NEW k \in DOMAIN entries, entries[k].live
      PROVE  Cardinality({o \in Order : co[o].entry = k}) = 1
  <2>1. PICK o \in Order : co[o].entry = k
    BY <1>2 DEF WashInv, Owned
  <2>2. k # 0
    BY OrderIs
  <2>3. {q \in Order : co[q].entry = k} = {o}
    BY <2>1, <2>2 DEF WashInv, Apart
  <2> QED
    BY <2>3, FS_Singleton
<1>3. PartsAccounted
  BY <1>1, <1>2 DEF PartsAccounted, Fits, WashInv, InStock
<1>4. MarksOnSubmitted
  BY <1>1 DEF MarksOnSubmitted, Sane
<1>5. FinishRetimed /\ StartBeforeFinish
  BY <1>1 DEF FinishRetimed, StartBeforeFinish, Timed
<1>6. 0 \notin Typed => TypedPriceStands
  BY <1>1 DEF TypedPriceStands, Sane, TypedStand
<1> QED
  BY <1>3, <1>4, <1>5, <1>6 DEF WashInv

(* Whatever is corrected, pulled back, reopened, cancelled or closed, the  *)
(* gudang is short of exactly the parts of submitted washes and never of   *)
(* more than it had; a mark of an invoice or of a request keeps the wash   *)
(* submitted; a wash is timed by its last round and ends after it starts   *)
(* (_issue_parts, revert_to_draft, revision_apply, withdraw_review).       *)
THEOREM WashPartsAccounted ==
  ASSUME ItemAssumption, PriceAssumption, BoundAssumption
  PROVE  Spec => [](TypeOK /\ PartsAccounted /\ MarksOnSubmitted /\ FinishRetimed /\ StartBeforeFinish)
<1>1. Init => WashInv
  BY WashStart
<1>2. WashInv /\ [Next]_vars => WashInv'
  BY WashStep
<1>3. WashInv => TypeOK /\ PartsAccounted /\ MarksOnSubmitted /\ FinishRetimed /\ StartBeforeFinish
  BY WashAsMeant
<1> QED
  BY <1>1, <1>2, <1>3, PTL DEF Spec

(* A price a person typed stands through every save, whatever the contract *)
(* says by then, while nobody types a 0: a wash made free is priced again  *)
(* by its next save (_resolve_cleaning_services).                          *)
THEOREM TypedPricesStand ==
  ASSUME ItemAssumption, PriceAssumption, BoundAssumption, 0 \notin Typed
  PROVE  Spec => []TypedPriceStands
<1>1. Init => WashInv
  BY WashStart
<1>2. WashInv /\ [Next]_vars => WashInv'
  BY WashStep
<1>3. WashInv => TypedPriceStands
  BY WashAsMeant
<1> QED
  BY <1>1, <1>2, <1>3, PTL DEF Spec

(* No step changes who opened a wash, since when, or who did the work      *)
(* (start_cleaning, before_submit, close_cleaning).                        *)
THEOREM WashWorkKept ==
  ASSUME ItemAssumption, PriceAssumption, BoundAssumption
  PROVE  Spec => [][WorkKept]_vars
<1>1. Init => WashInv
  BY WashStart
<1>2. WashInv /\ [Next]_vars => WashInv' /\ WorkKept
  BY WashStep
<1> QED
  BY <1>1, <1>2, PTL DEF Spec
=============================================================================
