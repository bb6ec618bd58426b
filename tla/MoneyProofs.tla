---------------------------- MODULE MoneyProofs ----------------------------
(***************************************************************************)
(* Proofs about PendingCash: its money is the purse the books see, though  *)
(* the requests of payments overlap, and with requests that run alone its  *)
(* drafts, totals and status agree as well.                                *)
(*                                                                         *)
(* PurseInv is the inductive invariant.  Its heart is Firm: the claims that*)
(* are posted, and those a request under way is about to post.  A posting  *)
(* is checked against every other live row, the drafts too; so of two that *)
(* overlap the later one has counted the earlier, whose row waits as it is.*)
(*                                                                         *)
(* Then one booking's money (BookingPayment, here Counter): what each      *)
(* request leaves of the booking and of its bills, and from that each      *)
(* property by an invariant of its own.                                    *)
(*                                                                         *)
(* Last the desk of MCMoney as a whole.  Its parts share variables, so its *)
(* invariant is that of the part that is on: those of BillingProofs and    *)
(* StorageProofs, at the values each part is given.                        *)
(***************************************************************************)
EXTENDS MCMoney, Sequences, FiniteSetTheorems, TLAPS

\* The units of money a sum counts.
Units(k, cs) == {u \in cs \X Amount : u[2] <= k[u[1]].amount}

\* A table of claims.
Rows == [Claim -> ClaimRecord]

Doc == Claim \cup {PC}

\* Two requests are under way at once only where the constant lets them.
Apart == \A d, e \in Doc : flight[d] # Idle /\ flight[e] # Idle /\ d # e => {d, e} \subseteq Overlap

\* What a request that runs alone has read is still so.
Fresh(d) == flight[d] # Idle => flight[d].seen.pc = pc /\ flight[d].seen.claim = claim

Alone == \A d \in Doc \ Payment : Fresh(d)

\* The row of a request's own document waits for it as it found it.
RowWaits(f, k) ==
  /\ f.op \in Write
  /\ f.op = "save" => k.state \in {"none", "draft"} /\ f.amount > 0
  /\ f.op = "post" => k.state = "draft" /\ f.amount = k.amount
  /\ f.op = "unpost" => k.state = "posted" /\ f.amount = k.amount
  /\ f.op = "void" => Live(k) /\ f.amount = k.amount
  /\ f.op = "delete" => k.state = "draft"

RowsWait == \A c \in Claim : flight[c] # Idle => RowWaits(flight[c], claim[c])

Handled == flight[PC] # Idle => flight[PC].op \in Request /\ Handler(flight[PC].op)

JournalFollows == pc.journal = (pc.paid /\ ~pc.void) /\ (pc.void => ~pc.paid)

Funded == \A c \in Claim : Live(claim[c]) \/ flight[c] # Idle => pc.paid /\ ~pc.void

Positive == \A c \in Claim : Live(claim[c]) => claim[c].amount > 0

\* The claims that are posted or about to be.
Firm == {c \in Claim : \/ claim[c].state = "posted"
                       \/ flight[c] # Idle /\ flight[c].op = "post"}

FirmFits == Summed(claim, Firm) <= Total

RefundsFit ==
  /\ Took(claim, Refund) <= Total
  /\ \A r \in Refund : flight[r] # Idle /\ flight[r].op = "save"
                         => flight[r].amount + Took(claim, Refund \ {r}) <= Total

PurseInv ==
  /\ TypeOK /\ Apart /\ Alone /\ RowsWait /\ Handled /\ JournalFollows /\ Funded /\ Positive
  /\ RefundedAgrees /\ RefundsFit /\ FirmFits

\* A payment or a refund asks for something: its row allows it, and what it
\* claims anew fits beside everybody else's claims.
Asked(c, op, amount) ==
  /\ Begin(c, op, amount)
  /\ op \in Write /\ amount \in 0..Total
  /\ RowWaits([op |-> op, amount |-> amount], claim[c])
  /\ pc.paid /\ ~pc.void
  /\ op \in {"save", "post"} => amount + Took(claim, Claim \ {c}) <= Total
-----------------------------------------------------------------------------

\* A sum counts finitely many units.
LEMMA UnitsFinite == ASSUME NEW k, NEW cs \in SUBSET Claim
                     PROVE  IsFiniteSet(Units(k, cs)) /\ Summed(k, cs) \in Nat
<1>1. IsFiniteSet(Claim)
  BY ClaimAssumption DEF Claim
<1>2. IsFiniteSet(cs)
  BY <1>1, FS_Subset
<1>3. IsFiniteSet(Amount)
  BY FS_Interval, TotalAssumption DEF Amount
<1>4. IsFiniteSet(cs \X Amount)
  BY <1>2, <1>3, FS_Product
<1>5. Units(k, cs) \subseteq cs \X Amount
  BY DEF Units
<1>6. IsFiniteSet(Units(k, cs))
  BY <1>4, <1>5, FS_Subset
<1>7. Summed(k, cs) = Cardinality(Units(k, cs))
  BY DEF Summed, Units
<1> QED
  BY <1>6, <1>7, FS_CardinalityType

\* Fewer rows add up to no more.
LEMMA SummedLess == ASSUME NEW k, NEW cs \in SUBSET Claim, NEW ds \in SUBSET cs
                    PROVE  Summed(k, ds) <= Summed(k, cs)
<1>1. IsFiniteSet(Units(k, cs))
  BY UnitsFinite
<1>2. Units(k, ds) \subseteq Units(k, cs)
  BY DEF Units
<1>3. Cardinality(Units(k, ds)) <= Cardinality(Units(k, cs))
  BY <1>1, <1>2, FS_Subset
<1> QED
  BY <1>3 DEF Summed, Units

\* The sum reads only the amounts of its rows.
LEMMA SummedSame == ASSUME NEW k, NEW l, NEW cs, \A c \in cs : k[c].amount = l[c].amount
                    PROVE  Summed(k, cs) = Summed(l, cs)
<1>1. {u \in cs \X Amount : u[2] <= k[u[1]].amount} = {u \in cs \X Amount : u[2] <= l[u[1]].amount}
  OBVIOUS
<1> QED
  BY <1>1 DEF Summed

\* Sums of disjoint rows add.
LEMMA SummedApart == ASSUME NEW k, NEW cs \in SUBSET Claim, NEW ds \in SUBSET Claim, cs \cap ds = {}
                     PROVE  Summed(k, cs \cup ds) = Summed(k, cs) + Summed(k, ds)
<1>1. IsFiniteSet(Units(k, cs)) /\ IsFiniteSet(Units(k, ds))
  BY UnitsFinite
<1>2. Units(k, cs \cup ds) = Units(k, cs) \cup Units(k, ds)
  BY DEF Units
<1>3. Units(k, cs) \cap Units(k, ds) = {}
  BY DEF Units
<1>4. Cardinality(Units(k, cs) \cup Units(k, ds))
        = Cardinality(Units(k, cs)) + Cardinality(Units(k, ds)) - Cardinality(Units(k, cs) \cap Units(k, ds))
  BY <1>1, FS_Union
<1>5. Cardinality(Units(k, cs) \cap Units(k, ds)) = 0
  BY <1>3, FS_EmptySet
<1>6. Cardinality(Units(k, cs)) \in Nat /\ Cardinality(Units(k, ds)) \in Nat
  BY <1>1, FS_CardinalityType
<1>7. Cardinality(Units(k, cs) \cup Units(k, ds)) = Cardinality(Units(k, cs)) + Cardinality(Units(k, ds))
  BY <1>4, <1>5, <1>6
<1>8. /\ Summed(k, cs \cup ds) = Cardinality(Units(k, cs \cup ds))
      /\ Summed(k, cs) = Cardinality(Units(k, cs))
      /\ Summed(k, ds) = Cardinality(Units(k, ds))
  BY DEF Summed, Units
<1> QED
  BY <1>2, <1>7, <1>8, Zenon

\* One row adds up to its amount.
LEMMA SummedOne == ASSUME NEW k \in Rows, NEW c \in Claim
                   PROVE  Summed(k, {c}) = k[c].amount
<1>1. k[c].amount \in 0..Total
  BY DEF Rows, ClaimRecord
<1>2. Units(k, {c}) = {c} \X (1..k[c].amount)
  BY <1>1, TotalAssumption DEF Units, Amount
<1>3. IsFiniteSet({c}) /\ Cardinality({c}) = 1
  BY FS_Singleton
<1>4. IsFiniteSet(1..k[c].amount) /\ Cardinality(1..k[c].amount) = k[c].amount
  <2>1. k[c].amount \in Int /\ 1 \in Int /\ k[c].amount >= 0
    BY <1>1, TotalAssumption
  <2>2. PICK n \in Int : n = k[c].amount /\ n >= 0
    BY <2>1
  <2>3. IsFiniteSet(1..n) /\ Cardinality(1..n) = IF 1 > n THEN 0 ELSE n - 1 + 1
    BY <2>1, FS_Interval
  <2>4. IsFiniteSet(1..n) /\ Cardinality(1..n) = n
    BY <2>2, <2>3
  <2> QED
    BY <2>2, <2>4, Zenon
<1>5. Cardinality({c} \X (1..k[c].amount)) = 1 * k[c].amount
  <2>1. Cardinality({c} \X (1..k[c].amount)) = Cardinality({c}) * Cardinality(1..k[c].amount)
    BY <1>3, <1>4, FS_Product, Zenon
  <2> QED
    BY <2>1, <1>3, <1>4, Zenon
<1>6. Cardinality(Units(k, {c})) = k[c].amount
  <2>1. 1 * k[c].amount = k[c].amount
    BY <1>1, TotalAssumption
  <2>2. Cardinality(Units(k, {c})) = 1 * k[c].amount
    BY <1>2, <1>5, Zenon
  <2> QED
    BY <2>1, <2>2, Zenon
<1> QED
  BY <1>6 DEF Summed, Units

\* A row more adds its amount.
LEMMA SummedWith == ASSUME NEW k \in Rows, NEW cs \in SUBSET Claim, NEW c \in Claim, c \notin cs
                    PROVE  Summed(k, cs \cup {c}) = Summed(k, cs) + k[c].amount
<1>1. Summed(k, cs \cup {c}) = Summed(k, cs) + Summed(k, {c})
  BY SummedApart
<1> QED
  BY <1>1, SummedOne

\* The same facts of what the live rows took.
LEMMA TookIsNat == ASSUME NEW k, NEW cs \in SUBSET Claim
                   PROVE  Took(k, cs) \in Nat
  BY UnitsFinite DEF Took

\* Fewer rows took no more.
LEMMA TookLess == ASSUME NEW k, NEW cs \in SUBSET Claim, NEW ds \in SUBSET cs
                  PROVE  Took(k, ds) <= Took(k, cs)
<1>1. {c \in ds : Live(k[c])} \in SUBSET {c \in cs : Live(k[c])}
  OBVIOUS
<1>2. {c \in cs : Live(k[c])} \in SUBSET Claim
  OBVIOUS
<1> QED
  BY <1>1, <1>2, SummedLess DEF Took

\* What was taken depends on the rows counted alone.
LEMMA TookSame == ASSUME NEW k, NEW l, NEW cs, \A c \in cs : k[c] = l[c]
                  PROVE  Took(k, cs) = Took(l, cs)
<1>1. {c \in cs : Live(k[c])} = {c \in cs : Live(l[c])}
  OBVIOUS
<1>2. \A c \in {c \in cs : Live(k[c])} : k[c].amount = l[c].amount
  OBVIOUS
<1>3. Summed(k, {c \in cs : Live(k[c])}) = Summed(l, {c \in cs : Live(k[c])})
  BY <1>2, SummedSame
<1> QED
  BY <1>1, <1>3 DEF Took

\* What disjoint rows took adds.
LEMMA TookApart == ASSUME NEW k, NEW cs \in SUBSET Claim, NEW ds \in SUBSET Claim, cs \cap ds = {}
                   PROVE  Took(k, cs \cup ds) = Took(k, cs) + Took(k, ds)
<1>1. /\ {c \in cs : Live(k[c])} \in SUBSET Claim
      /\ {c \in ds : Live(k[c])} \in SUBSET Claim
      /\ {c \in cs : Live(k[c])} \cap {c \in ds : Live(k[c])} = {}
  OBVIOUS
<1>2. {c \in cs \cup ds : Live(k[c])} = {c \in cs : Live(k[c])} \cup {c \in ds : Live(k[c])}
  OBVIOUS
<1>3. Summed(k, {c \in cs : Live(k[c])} \cup {c \in ds : Live(k[c])})
        = Summed(k, {c \in cs : Live(k[c])}) + Summed(k, {c \in ds : Live(k[c])})
  BY <1>1, SummedApart
<1> QED
  BY <1>2, <1>3 DEF Took

\* A row's own part of what its set took.
LEMMA TookWithout == ASSUME NEW k \in Rows, NEW cs \in SUBSET Claim, NEW c \in cs
                     PROVE  Took(k, cs) = Took(k, cs \ {c}) + IF Live(k[c]) THEN k[c].amount ELSE 0
<1>1. CASE Live(k[c])
  <2>1. {d \in cs : Live(k[d])} = {d \in cs \ {c} : Live(k[d])} \cup {c}
    BY <1>1
  <2>2. {d \in cs \ {c} : Live(k[d])} \in SUBSET Claim /\ c \in Claim /\ c \notin {d \in cs \ {c} : Live(k[d])}
    OBVIOUS
  <2>3. Summed(k, {d \in cs \ {c} : Live(k[d])} \cup {c})
          = Summed(k, {d \in cs \ {c} : Live(k[d])}) + k[c].amount
    BY <2>2, SummedWith
  <2> QED
    BY <1>1, <2>1, <2>3 DEF Took
<1>2. CASE ~Live(k[c])
  <2>1. {d \in cs : Live(k[d])} = {d \in cs \ {c} : Live(k[d])}
    BY <1>2
  <2>2. Took(k, cs) = Took(k, cs \ {c}) /\ Took(k, cs \ {c}) \in Nat
    BY <2>1, TookIsNat DEF Took
  <2> QED
    BY <1>2, <2>2
<1> QED
  BY <1>1, <1>2
-----------------------------------------------------------------------------
\* A request that begins changes nothing but its own place in flight.
LEMMA BeginShape ==
  ASSUME TypeOK, NEW d \in Doc, NEW op, NEW amount, Begin(d, op, amount)
  PROVE  /\ flight[d] = Idle
         /\ \A e \in Doc : flight[e] # Idle => {d, e} \subseteq Overlap
         /\ DOMAIN flight' = Doc
         /\ \A e \in Doc \ {d} : flight'[e] = flight[e]
         /\ flight'[d].op = op /\ flight'[d].amount = amount
         /\ flight'[d].seen.pc = pc /\ flight'[d].seen.claim = claim
         /\ pc' = pc /\ claim' = claim
  BY DEF TypeOK, Begin, Doc

\* What TypeOK says of the rows and the Pending Cash.
LEMMA Typed ==
  ASSUME TypeOK
  PROVE  /\ claim \in Rows /\ pc \in PCRecord /\ DOMAIN flight = Doc
         /\ \A c \in Claim : claim[c].amount \in 0..Total /\ claim[c].state \in {"none", "draft", "posted", "void"}
  BY DEF TypeOK, Rows, Doc, ClaimRecord

\* What a payment may take: the refunds' roll-up is what the refunds took.
LEMMA PaymentFits ==
  ASSUME TypeOK, RefundedAgrees, NEW p \in Payment, NEW amount \in 0..Total,
         amount <= LeftForPayment(p)
  PROVE  amount + Took(claim, Claim \ {p}) <= Total
<1>1. Claim \ {p} = (Payment \ {p}) \cup Refund
  BY ClaimAssumption DEF Claim
<1>2. /\ Payment \ {p} \in SUBSET Claim /\ Refund \in SUBSET Claim
      /\ (Payment \ {p}) \cap Refund = {}
  BY ClaimAssumption DEF Claim
<1>3. Took(claim, (Payment \ {p}) \cup Refund) = Took(claim, Payment \ {p}) + Took(claim, Refund)
  BY <1>2, TookApart
<1>4. Took(claim, Payment \ {p}) \in Nat /\ Took(claim, Refund) \in Nat
  BY <1>2, TookIsNat
<1>5. Took(claim, Claim \ {p}) = Took(claim, Payment \ {p}) + Took(claim, Refund)
  BY <1>1, <1>3, Zenon
<1>6. amount <= Total - Took(claim, Payment \ {p}) - Took(claim, Refund)
  BY DEF LeftForPayment, RefundedAgrees
<1> QED
  BY <1>4, <1>5, <1>6, TotalAssumption

\* What a refund may take: both kinds of claims are counted from their rows.
LEMMA RefundFits ==
  ASSUME NEW r \in Refund, NEW amount \in 0..Total, amount <= available(r)
  PROVE  amount + Took(claim, Claim \ {r}) <= Total
<1>1. Claim \ {r} = Payment \cup (Refund \ {r})
  BY ClaimAssumption DEF Claim
<1>2. /\ Payment \in SUBSET Claim /\ Refund \ {r} \in SUBSET Claim
      /\ Payment \cap (Refund \ {r}) = {}
  BY ClaimAssumption DEF Claim
<1>3. Took(claim, Payment \cup (Refund \ {r})) = Took(claim, Payment) + Took(claim, Refund \ {r})
  BY <1>2, TookApart
<1>4. Took(claim, Payment) \in Nat /\ Took(claim, Refund \ {r}) \in Nat
  BY <1>2, TookIsNat
<1>5. Took(claim, Claim \ {r}) = Took(claim, Payment) + Took(claim, Refund \ {r})
  BY <1>1, <1>3, Zenon
<1>6. amount <= Total - Took(claim, Payment) - Took(claim, Refund \ {r})
  BY DEF available
<1> QED
  BY <1>4, <1>5, <1>6, TotalAssumption

\* Every request of a payment is one that its row and the deposit allow.
LEMMA PaymentAsks ==
  ASSUME TypeOK, RefundedAgrees, Funded, NEW p \in Payment
  PROVE  /\ \A a \in Amount : SavePayment(p, a) => Asked(p, "save", a)
         /\ SubmitPayment(p) => Asked(p, "post", claim[p].amount)
         /\ CancelPayment(p) => Asked(p, "void", claim[p].amount)
         /\ DeletePayment(p) => Asked(p, "delete", 0)
<1>1. p \in Claim
  BY DEF Claim
<1>2. claim[p].amount \in 0..Total
  BY <1>1, Typed
<1>3. \A a \in Amount : a \in 0..Total /\ a > 0
  BY TotalAssumption DEF Amount
<1>4. 0 \in 0..Total
  BY TotalAssumption
<1>5. Live(claim[p]) => pc.paid /\ ~pc.void
  BY <1>1 DEF Funded
<1>6. ASSUME NEW a \in Amount, SavePayment(p, a)
      PROVE  Asked(p, "save", a)
  <2>1. a + Took(claim, Claim \ {p}) <= Total
    BY <1>3, <1>6, PaymentFits DEF SavePayment, apply_kasbon
  <2> QED
    BY <1>3, <1>6, <2>1 DEF SavePayment, apply_kasbon, Asked, RowWaits, Write
<1>7. ASSUME SubmitPayment(p)
      PROVE  Asked(p, "post", claim[p].amount)
  <2>1. claim[p].amount + Took(claim, Claim \ {p}) <= Total
    BY <1>2, <1>7, PaymentFits DEF SubmitPayment, apply_kasbon
  <2> QED
    BY <1>2, <1>7, <2>1 DEF SubmitPayment, apply_kasbon, Asked, RowWaits, Write
<1>8. ASSUME CancelPayment(p)
      PROVE  Asked(p, "void", claim[p].amount)
  BY <1>2, <1>5, <1>8 DEF CancelPayment, Asked, RowWaits, Write, Live
<1>9. ASSUME DeletePayment(p)
      PROVE  Asked(p, "delete", 0)
  BY <1>4, <1>5, <1>9 DEF DeletePayment, Asked, RowWaits, Write, Live
<1> QED
  BY <1>6, <1>7, <1>8, <1>9

\* The same of a refund.
LEMMA RefundAsks ==
  ASSUME TypeOK, Funded, NEW r \in Refund
  PROVE  /\ \A a \in Amount : SaveRefund(r, a) => Asked(r, "save", a)
         /\ ValidateRefund(r) => Asked(r, "post", claim[r].amount)
         /\ InvalidateRefund(r) => Asked(r, "unpost", claim[r].amount)
         /\ VoidRefund(r) => Asked(r, "void", claim[r].amount)
         /\ DeleteRefund(r) => Asked(r, "delete", 0)
<1>1. r \in Claim
  BY DEF Claim
<1>2. claim[r].amount \in 0..Total
  BY <1>1, Typed
<1>3. \A a \in Amount : a \in 0..Total /\ a > 0
  BY TotalAssumption DEF Amount
<1>4. 0 \in 0..Total
  BY TotalAssumption
<1>5. Live(claim[r]) => pc.paid /\ ~pc.void
  BY <1>1 DEF Funded
<1>6. ASSUME NEW a \in Amount, SaveRefund(r, a)
      PROVE  Asked(r, "save", a)
  <2>1. a + Took(claim, Claim \ {r}) <= Total
    BY <1>3, <1>6, RefundFits DEF SaveRefund, check_allocations
  <2> QED
    BY <1>3, <1>6, <2>1 DEF SaveRefund, check_allocations, Asked, RowWaits, Write
<1>7. ASSUME ValidateRefund(r)
      PROVE  Asked(r, "post", claim[r].amount)
  <2>1. claim[r].amount + Took(claim, Claim \ {r}) <= Total
    BY <1>2, <1>7, RefundFits DEF ValidateRefund, check_allocations
  <2> QED
    BY <1>2, <1>7, <2>1 DEF ValidateRefund, check_allocations, Asked, RowWaits, Write
<1>8. ASSUME InvalidateRefund(r)
      PROVE  Asked(r, "unpost", claim[r].amount)
  BY <1>2, <1>8 DEF InvalidateRefund, check_allocations, Asked, RowWaits, Write
<1>9. ASSUME VoidRefund(r)
      PROVE  Asked(r, "void", claim[r].amount)
  BY <1>2, <1>5, <1>9 DEF VoidRefund, Asked, RowWaits, Write, Live
<1>10. ASSUME DeleteRefund(r)
       PROVE  Asked(r, "delete", 0)
  BY <1>4, <1>5, <1>10 DEF DeleteRefund, Asked, RowWaits, Write, Live
<1> QED
  BY <1>6, <1>7, <1>8, <1>9, <1>10

\* A step begins a request of a claim or of the Pending Cash, or ends one.
LEMMA StepKinds ==
  ASSUME TypeOK, RefundedAgrees, Funded, Next
  PROVE  \/ \E c \in Claim, op \in Write, amount \in 0..Total : Asked(c, op, amount)
         \/ \E op \in Request : run_action(op)
         \/ \E c \in Claim : CommitClaim(c)
         \/ CommitAction
<1>1. Payment \subseteq Claim /\ Refund \subseteq Claim
  BY DEF Claim
<1>2. {"save", "post", "unpost", "void", "delete"} \subseteq Write
  BY DEF Write
<1>3. \A a \in Amount : a \in 0..Total
  BY TotalAssumption DEF Amount
<1>4. 0 \in 0..Total
  BY TotalAssumption
<1>5. \A c \in Claim : claim[c].amount \in 0..Total
  BY Typed
<1>6. ASSUME NEW p \in Payment,
             SubmitPayment(p) \/ CancelPayment(p) \/ DeletePayment(p) \/ \E a \in Amount : SavePayment(p, a)
      PROVE  \E c \in Claim, op \in Write, amount \in 0..Total : Asked(c, op, amount)
  BY <1>1, <1>2, <1>3, <1>4, <1>5, <1>6, PaymentAsks
<1>7. ASSUME NEW r \in Refund,
             \/ ValidateRefund(r) \/ InvalidateRefund(r) \/ VoidRefund(r) \/ DeleteRefund(r)
             \/ \E a \in Amount : SaveRefund(r, a)
      PROVE  \E c \in Claim, op \in Write, amount \in 0..Total : Asked(c, op, amount)
  BY <1>1, <1>2, <1>3, <1>4, <1>5, <1>7, RefundAsks
<1> QED
  BY <1>6, <1>7 DEF Next

\* The invariant through a request of a payment or a refund.
LEMMA AskedKeeps ==
  ASSUME PurseInv, NEW c \in Claim, NEW op \in Write, NEW amount \in 0..Total, Asked(c, op, amount)
  PROVE  PurseInv'
<1>1. TypeOK /\ c \in Doc /\ Begin(c, op, amount)
  BY DEF PurseInv, Asked, Doc
<1>2. /\ flight[c] = Idle
      /\ \A e \in Doc : flight[e] # Idle => {c, e} \subseteq Overlap
      /\ DOMAIN flight' = Doc
      /\ \A e \in Doc \ {c} : flight'[e] = flight[e]
      /\ flight'[c].op = op /\ flight'[c].amount = amount
      /\ flight'[c].seen.pc = pc /\ flight'[c].seen.claim = claim
      /\ pc' = pc /\ claim' = claim
  BY <1>1, BeginShape
<1>3. c # PC
  BY ClaimAssumption DEF Claim
<1>4. TypeOK'
  BY <1>1, <1>2 DEF TypeOK, Doc
<1>5. Apart'
  BY <1>2 DEF PurseInv, Apart, Doc
<1>6. Alone'
  BY <1>2 DEF PurseInv, Alone, Fresh, Doc
<1>7. RowsWait'
  <2>1. RowWaits(flight'[c], claim[c])
    BY <1>2 DEF Asked, RowWaits
  <2>2. ASSUME NEW d \in Claim, flight'[d] # Idle
        PROVE  RowWaits(flight'[d], claim'[d])
    <3>1. CASE d = c
      BY <1>2, <2>1, <3>1
    <3>2. CASE d # c
      BY <1>2, <2>2, <3>2 DEF PurseInv, RowsWait, Doc
    <3> QED
      BY <3>1, <3>2
  <2> QED
    BY <2>2 DEF RowsWait
<1>8. Handled'
  <2>1. flight'[PC] = flight[PC]
    BY <1>2, <1>3 DEF Doc
  <2>2. \A x : Handler(x)' <=> Handler(x)
    BY <1>2 DEF Handler, guard_not_used, guard_not_refunded
  <2> QED
    BY <2>1, <2>2 DEF PurseInv, Handled
<1>9. JournalFollows'
  BY <1>2 DEF PurseInv, JournalFollows
<1>10. Funded'
  BY <1>2 DEF PurseInv, Funded, Asked
<1>11. Positive'
  BY <1>2 DEF PurseInv, Positive
<1>12. RefundedAgrees'
  BY <1>2 DEF PurseInv, RefundedAgrees, Took, Summed
<1>13. RefundsFit'
  <2>1. \A r \in Refund : Took(claim', Refund \ {r}) = Took(claim, Refund \ {r})
    BY <1>2
  <2>2. Took(claim', Refund) = Took(claim, Refund)
    BY <1>2
  <2>3. ASSUME c \in Refund, op = "save"
        PROVE  amount + Took(claim, Refund \ {c}) <= Total
    <3>1. amount + Took(claim, Claim \ {c}) <= Total
      BY <2>3 DEF Asked
    <3>2. Refund \ {c} \in SUBSET (Claim \ {c}) /\ Claim \ {c} \in SUBSET Claim /\ Refund \ {c} \in SUBSET Claim
      BY DEF Claim
    <3>3. Took(claim, Refund \ {c}) <= Took(claim, Claim \ {c})
      BY <3>2, TookLess
    <3>4. Took(claim, Refund \ {c}) \in Nat /\ Took(claim, Claim \ {c}) \in Nat
      BY <3>2, TookIsNat
    <3> QED
      BY <3>1, <3>3, <3>4, TotalAssumption
  <2>4. ASSUME NEW r \in Refund, flight'[r] # Idle, flight'[r].op = "save"
        PROVE  flight'[r].amount + Took(claim', Refund \ {r}) <= Total
    <3>1. CASE r = c
      BY <1>2, <2>3, <2>4, <3>1
    <3>2. CASE r # c
      BY <1>2, <2>4, <3>2 DEF PurseInv, RefundsFit, Doc, Claim
    <3> QED
      BY <3>1, <3>2
  <2> QED
    BY <2>2, <2>4 DEF PurseInv, RefundsFit
<1>14. FirmFits'
  <2>1. CASE op # "post"
    <3>1. Firm' = Firm
      BY <1>2, <2>1 DEF Firm, Doc
    <3> QED
      BY <1>2, <3>1 DEF PurseInv, FirmFits
  <2>2. CASE op = "post"
    <3>1. Firm' \in SUBSET (Firm \cup {c})
      BY <1>2, <2>2 DEF Firm, Doc
    <3>2. c \notin Firm
      BY <1>2, <2>2 DEF Firm, Asked, RowWaits
    <3>3. Firm \in SUBSET Claim
      BY DEF Firm
    <3>4. Summed(claim, Firm \cup {c}) = Summed(claim, Firm) + claim[c].amount
      BY <1>1, <3>2, <3>3, SummedWith, Typed
    <3>5. {d \in Claim \ {c} : Live(claim[d])} \in SUBSET Claim
      OBVIOUS
    <3>6. Firm \in SUBSET {d \in Claim \ {c} : Live(claim[d])}
      BY <3>2 DEF Firm, PurseInv, RowsWait, RowWaits, Live
    <3>7. Summed(claim, Firm) <= Took(claim, Claim \ {c})
      BY <3>5, <3>6, SummedLess DEF Took
    <3>8. Summed(claim, Firm) \in Nat /\ Took(claim, Claim \ {c}) \in Nat
      BY <3>3, UnitsFinite, TookIsNat
    <3>9. amount = claim[c].amount /\ amount + Took(claim, Claim \ {c}) <= Total
      BY <2>2 DEF Asked, RowWaits
    <3>10. Summed(claim, Firm \cup {c}) <= Total
      BY <3>4, <3>7, <3>8, <3>9, TotalAssumption
    <3>11. Firm \cup {c} \in SUBSET Claim
      BY <3>3
    <3>12. /\ Summed(claim, Firm') <= Summed(claim, Firm \cup {c})
           /\ Summed(claim, Firm') \in Nat /\ Summed(claim, Firm \cup {c}) \in Nat
      BY <3>1, <3>11, SummedLess, UnitsFinite
    <3> QED
      BY <1>2, <3>10, <3>12, TotalAssumption DEF FirmFits
  <2> QED
    BY <2>1, <2>2
<1> QED
  BY <1>4, <1>5, <1>6, <1>7, <1>8, <1>9, <1>10, <1>11, <1>12, <1>13, <1>14 DEF PurseInv

\* The invariant through a request of the Pending Cash itself.
LEMMA RunKeeps ==
  ASSUME PurseInv, NEW op \in Request, run_action(op)
  PROVE  PurseInv'
<1>1. TypeOK /\ PC \in Doc /\ Begin(PC, op, 0) /\ Handler(op)
  BY DEF PurseInv, run_action, Doc
<1>2. /\ flight[PC] = Idle
      /\ \A e \in Doc : flight[e] # Idle => {PC, e} \subseteq Overlap
      /\ DOMAIN flight' = Doc
      /\ \A e \in Doc \ {PC} : flight'[e] = flight[e]
      /\ flight'[PC].op = op /\ flight'[PC].amount = 0
      /\ flight'[PC].seen.pc = pc /\ flight'[PC].seen.claim = claim
      /\ pc' = pc /\ claim' = claim
  BY <1>1, BeginShape
<1>3. PC \notin Claim /\ \A c \in Claim : flight'[c] = flight[c]
  BY <1>2, ClaimAssumption DEF Claim, Doc
<1>4. 0 \in 0..Total
  BY TotalAssumption
<1>5. TypeOK'
  BY <1>1, <1>2, <1>4 DEF TypeOK, Doc
<1>6. Apart'
  BY <1>2 DEF PurseInv, Apart, Doc
<1>7. Alone'
  BY <1>2 DEF PurseInv, Alone, Fresh, Doc
<1>8. RowsWait' /\ JournalFollows' /\ Funded' /\ Positive'
  BY <1>2, <1>3 DEF PurseInv, RowsWait, JournalFollows, Funded, Positive
<1>9. Handled'
  <2>1. Handler(op)' <=> Handler(op)
    BY <1>2 DEF Handler, guard_not_used, guard_not_refunded
  <2> QED
    BY <1>1, <1>2, <2>1 DEF Handled
<1>10. RefundedAgrees'
  BY <1>2 DEF PurseInv, RefundedAgrees, Took, Summed
<1>11. RefundsFit'
  BY <1>2, <1>3 DEF PurseInv, RefundsFit, Claim
<1>12. FirmFits'
  <2>1. Firm' = Firm
    BY <1>2, <1>3 DEF Firm
  <2> QED
    BY <1>2, <2>1 DEF PurseInv, FirmFits
<1> QED
  BY <1>5, <1>6, <1>7, <1>8, <1>9, <1>10, <1>11, <1>12 DEF PurseInv

\* Only documents that may overlap have requests under way beside another.
LEMMA NobodyElse ==
  ASSUME Overlap \subseteq Payment, Apart, NEW d \in Doc, flight[d] # Idle, d \notin Payment
  PROVE  \A e \in Doc \ {d} : flight[e] = Idle
  BY DEF Apart

\* What the end of a claim's request changes.
LEMMA CommitShape ==
  ASSUME TypeOK, NEW c \in Claim, CommitClaim(c)
  PROVE  /\ flight[c] # Idle
         /\ claim' = [claim EXCEPT ![c] = Written(flight[c])]
         /\ claim'[c] = Written(flight[c])
         /\ \A d \in Claim \ {c} : claim'[d] = claim[d]
         /\ DOMAIN flight' = Doc /\ flight'[c] = Idle
         /\ \A e \in Doc \ {c} : flight'[e] = flight[e]
         /\ pc'.paid = pc.paid /\ pc'.void = pc.void /\ pc'.journal = pc.journal
         /\ pc'.validated = pc.validated
         /\ c \in Payment => pc'.refunded = pc.refunded
         /\ c \notin Payment => /\ pc'.settled = pc.settled /\ pc'.status = pc.status
                               /\ pc'.refunded = Took([flight[c].seen.claim EXCEPT ![c] = Written(flight[c])], Refund)
<1>1. /\ pc \in PCRecord /\ claim \in Rows /\ DOMAIN flight = Doc /\ c \in Doc
  BY Typed DEF Doc
<1>2. /\ flight[c] # Idle
      /\ claim' = [claim EXCEPT ![c] = Written(flight[c])]
      /\ flight' = [flight EXCEPT ![c] = Idle]
  BY DEF CommitClaim, Commit
<1>3. /\ claim'[c] = Written(flight[c])
      /\ \A d \in Claim \ {c} : claim'[d] = claim[d]
  BY <1>1, <1>2 DEF Rows
<1>4. /\ DOMAIN flight' = Doc /\ flight'[c] = Idle
      /\ \A e \in Doc \ {c} : flight'[e] = flight[e]
  BY <1>1, <1>2
<1>5. CASE c \in Payment
  <2>1. pc' = sync_document_links(pc, [flight[c].seen.claim EXCEPT ![c] = Written(flight[c])], flight[c].seen.pc)
    BY <1>5 DEF CommitClaim
  <2> QED
    BY <1>1, <1>2, <1>3, <1>4, <1>5, <2>1 DEF sync_document_links, PCRecord
<1>6. CASE c \notin Payment
  <2>1. pc' = sync_refunded(pc, [flight[c].seen.claim EXCEPT ![c] = Written(flight[c])])
    BY <1>6 DEF CommitClaim
  <2> QED
    BY <1>1, <1>2, <1>3, <1>4, <1>6, <2>1 DEF sync_refunded, PCRecord
<1> QED
  BY <1>5, <1>6

\* What a write leaves of a row.
LEMMA WrittenIs ==
  ASSUME NEW f, f.op \in Write, f.amount \in 0..Total
  PROVE  /\ f.op \in {"save", "unpost"} => Written(f) = [state |-> "draft", amount |-> f.amount]
         /\ f.op = "post" => Written(f) = [state |-> "posted", amount |-> f.amount]
         /\ f.op = "void" => Written(f) = [state |-> "void", amount |-> f.amount]
         /\ f.op = "delete" => Written(f) = [state |-> "none", amount |-> 0]
         /\ Written(f) \in ClaimRecord
<1>1. 0 \in 0..Total
  BY TotalAssumption
<1>2. f.op \in {"save", "post", "unpost", "void", "delete"}
  BY DEF Write
<1>3. CASE f.op \in {"save", "unpost"}
  BY <1>3 DEF Written, ClaimRecord
<1>4. CASE f.op = "post"
  BY <1>4 DEF Written, ClaimRecord
<1>5. CASE f.op = "void"
  BY <1>5 DEF Written, ClaimRecord
<1>6. CASE f.op = "delete"
  BY <1>1, <1>6 DEF Written, ClaimRecord, NoClaim
<1> QED
  BY <1>2, <1>3, <1>4, <1>5, <1>6

\* What the write does to its row, seen from its claim.
LEMMA ClaimWritten ==
  ASSUME PurseInv, NEW c \in Claim, CommitClaim(c)
  PROVE  /\ claim'[c] \in ClaimRecord /\ flight[c].op \in Write
         /\ flight[c].op = "post" =>
              /\ claim[c].state = "draft" /\ claim'[c].state = "posted"
              /\ claim'[c].amount = claim[c].amount /\ claim[c].amount = flight[c].amount
         /\ flight[c].op # "post" => claim'[c].state # "posted"
         /\ flight[c].op = "save" =>
              /\ claim[c].state \in {"none", "draft"} /\ claim'[c].state = "draft"
              /\ claim'[c].amount = flight[c].amount /\ flight[c].amount > 0
         /\ flight[c].op = "unpost" =>
              claim[c].state = "posted" /\ claim'[c].state = "draft" /\ claim'[c].amount = claim[c].amount
         /\ flight[c].op = "void" => Live(claim[c]) /\ claim'[c].state = "void"
         /\ flight[c].op = "delete" => claim[c].state = "draft" /\ claim'[c].state = "none"
<1>1. TypeOK /\ c \in Doc
  BY DEF PurseInv, Doc
<1>2. flight[c] # Idle /\ claim'[c] = Written(flight[c])
  BY <1>1, CommitShape
<1>3. RowWaits(flight[c], claim[c])
  BY <1>2 DEF PurseInv, RowsWait
<1>4. flight[c].amount \in 0..Total
  BY <1>1, <1>2 DEF TypeOK, Doc
<1>5. flight[c].op \in Write
  BY <1>3 DEF RowWaits
<1>6. PICK f : f = flight[c]
  OBVIOUS
<1>7. f.op \in Write /\ f.amount \in 0..Total
  BY <1>4, <1>5, <1>6
<1>8. /\ f.op \in {"save", "unpost"} => Written(f) = [state |-> "draft", amount |-> f.amount]
      /\ f.op = "post" => Written(f) = [state |-> "posted", amount |-> f.amount]
      /\ f.op = "void" => Written(f) = [state |-> "void", amount |-> f.amount]
      /\ f.op = "delete" => Written(f) = [state |-> "none", amount |-> 0]
      /\ Written(f) \in ClaimRecord
  BY <1>7, WrittenIs
<1> QED
  BY <1>2, <1>3, <1>6, <1>7, <1>8 DEF RowWaits, Write

\* The invariant through a claim's write.
LEMMA ClaimKeeps ==
  ASSUME Overlap \subseteq Payment, PurseInv, NEW c \in Claim, CommitClaim(c)
  PROVE  PurseInv'
<1>1. /\ TypeOK /\ c \in Doc /\ PC \notin Claim /\ c # PC
      /\ claim \in Rows /\ pc \in PCRecord
  BY Typed, ClaimAssumption DEF PurseInv, Doc, Claim
<1>2. /\ flight[c] # Idle
      /\ claim' = [claim EXCEPT ![c] = Written(flight[c])]
      /\ \A d \in Claim \ {c} : claim'[d] = claim[d]
      /\ DOMAIN flight' = Doc /\ flight'[c] = Idle
      /\ \A e \in Doc \ {c} : flight'[e] = flight[e]
      /\ pc'.paid = pc.paid /\ pc'.void = pc.void /\ pc'.journal = pc.journal
      /\ c \in Payment => pc'.refunded = pc.refunded
      /\ c \notin Payment =>
           pc'.refunded = Took([flight[c].seen.claim EXCEPT ![c] = Written(flight[c])], Refund)
  BY <1>1, CommitShape
<1>3. /\ claim'[c] \in ClaimRecord /\ flight[c].op \in Write
      /\ flight[c].op = "post" =>
           /\ claim[c].state = "draft" /\ claim'[c].state = "posted"
           /\ claim'[c].amount = claim[c].amount /\ claim[c].amount = flight[c].amount
      /\ flight[c].op # "post" => claim'[c].state # "posted"
      /\ flight[c].op = "save" =>
           /\ claim[c].state \in {"none", "draft"} /\ claim'[c].state = "draft"
           /\ claim'[c].amount = flight[c].amount /\ flight[c].amount > 0
      /\ flight[c].op = "unpost" =>
           claim[c].state = "posted" /\ claim'[c].state = "draft" /\ claim'[c].amount = claim[c].amount
      /\ flight[c].op = "void" => Live(claim[c]) /\ claim'[c].state = "void"
      /\ flight[c].op = "delete" => claim[c].state = "draft" /\ claim'[c].state = "none"
  BY ClaimWritten
<1>4. claim' \in Rows
  BY <1>1, <1>2, <1>3 DEF Rows
<1>5. c \notin Payment => c \in Refund /\ (\A e \in Doc \ {c} : flight[e] = Idle) /\ flight[c].seen.claim = claim
  BY <1>1, <1>2, NobodyElse DEF PurseInv, Alone, Fresh, Claim
<1>6. c \in Payment => \A r \in Refund \cup {PC} : flight[r] = Idle
  <2>1. ASSUME c \in Payment, NEW r \in Refund \cup {PC}, flight[r] # Idle
        PROVE  FALSE
    <3>1. r \in Doc /\ r # c /\ r \notin Payment
      BY <2>1, ClaimAssumption DEF Doc, Claim
    <3>2. \A e \in Doc \ {r} : flight[e] = Idle
      BY <2>1, <3>1, NobodyElse DEF PurseInv
    <3> QED
      BY <1>1, <1>2, <3>1, <3>2
  <2> QED
    BY <2>1
<1>7. \A r \in Refund \cup {PC} : flight'[r] = Idle
  BY <1>1, <1>2, <1>5, <1>6 DEF Doc, Claim
<1>8. Took(claim', Refund) \in Nat /\ Took(claim', Refund) <= Total /\ pc'.refunded = Took(claim', Refund)
  <2>1. Refund \in SUBSET Claim
    BY DEF Claim
  <2>2. CASE c \in Payment
    <3>1. \A r \in Refund : claim'[r] = claim[r]
      BY <1>2, <2>1, <2>2, ClaimAssumption
    <3>2. Took(claim', Refund) = Took(claim, Refund)
      BY <3>1, TookSame
    <3>3. Took(claim, Refund) \in Nat
      BY <2>1, TookIsNat
    <3>4. Took(claim, Refund) <= Total /\ pc.refunded = Took(claim, Refund)
      BY DEF PurseInv, RefundsFit, RefundedAgrees
    <3> QED
      BY <1>2, <2>2, <3>2, <3>3, <3>4
  <2>3. CASE c \notin Payment
    <3>1. c \in Refund /\ pc'.refunded = Took(claim', Refund)
      BY <1>2, <1>5, <2>3
    <3>2. \A r \in Refund \ {c} : claim'[r] = claim[r]
      BY <1>2, <2>1
    <3>3. Took(claim', Refund \ {c}) = Took(claim, Refund \ {c})
      BY <3>2, TookSame
    <3>4. /\ Took(claim, Refund) = Took(claim, Refund \ {c}) + IF Live(claim[c]) THEN claim[c].amount ELSE 0
          /\ Took(claim', Refund) = Took(claim', Refund \ {c}) + IF Live(claim'[c]) THEN claim'[c].amount ELSE 0
      BY <1>1, <1>4, <2>1, <3>1, TookWithout
    <3>5. /\ Took(claim, Refund) \in Nat /\ Took(claim, Refund \ {c}) \in Nat
          /\ Took(claim', Refund) \in Nat
      BY <2>1, TookIsNat
    <3>6. claim[c].amount \in Nat /\ claim'[c].amount \in Nat
      BY <1>1, <1>4, TotalAssumption DEF Rows, ClaimRecord
    <3>7. Took(claim, Refund) <= Total
      BY DEF PurseInv, RefundsFit
    <3>8. flight[c].op = "save" => flight[c].amount + Took(claim, Refund \ {c}) <= Total
      BY <1>2, <3>1 DEF PurseInv, RefundsFit
    <3>9. CASE flight[c].op = "save"
      BY <1>3, <3>1, <3>3, <3>4, <3>5, <3>6, <3>8, <3>9, TotalAssumption DEF Live
    <3>10. CASE flight[c].op \in {"post", "unpost"}
      BY <1>3, <3>1, <3>3, <3>4, <3>5, <3>6, <3>7, <3>10, TotalAssumption DEF Live
    <3>11. CASE flight[c].op \in {"void", "delete"}
      BY <1>3, <3>1, <3>3, <3>4, <3>5, <3>6, <3>7, <3>11, TotalAssumption DEF Live
    <3> QED
      BY <1>3, <3>9, <3>10, <3>11 DEF Write
  <2> QED
    BY <2>2, <2>3
<1>9. TypeOK'
  <2>1. pc' \in PCRecord
    <3>1. pc'.refunded \in 0..Total
      BY <1>8, TotalAssumption
    <3>2. CASE c \in Payment
      <4>1. pc' = sync_document_links(pc, [flight[c].seen.claim EXCEPT ![c] = Written(flight[c])], flight[c].seen.pc)
        BY <3>2 DEF CommitClaim
      <4> QED
        BY <1>1, <4>1 DEF sync_document_links, status_of, PCRecord
    <3>3. CASE c \notin Payment
      <4>1. pc' = sync_refunded(pc, [flight[c].seen.claim EXCEPT ![c] = Written(flight[c])])
        BY <3>3 DEF CommitClaim
      <4>2. pc' = [pc EXCEPT !.refunded = pc'.refunded]
        BY <1>1, <4>1 DEF sync_refunded, PCRecord
      <4> QED
        BY <1>1, <3>1, <4>2 DEF PCRecord
    <3> QED
      BY <3>2, <3>3
  <2>2. claim' \in [Claim -> ClaimRecord]
    BY <1>4 DEF Rows
  <2>3. \A d \in Doc : flight'[d] # Idle => d # c /\ flight'[d] = flight[d]
    BY <1>2
  <2> QED
    BY <1>1, <1>2, <2>1, <2>2, <2>3 DEF TypeOK, Doc
<1>10. Apart'
  BY <1>2 DEF PurseInv, Apart, Doc
<1>11. Alone'
  <2>1. \A d \in Doc \ Payment : flight'[d] = Idle
    BY <1>7 DEF Doc, Claim
  <2> QED
    BY <2>1 DEF Alone, Fresh, Doc
<1>12. RowsWait'
  BY <1>2 DEF PurseInv, RowsWait, Doc
<1>13. Handled'
  BY <1>7 DEF Handled
<1>14. JournalFollows'
  BY <1>2 DEF PurseInv, JournalFollows
<1>15. Funded'
  <2>1. pc.paid /\ ~pc.void
    BY <1>2 DEF PurseInv, Funded
  <2> QED
    BY <1>2, <2>1 DEF Funded
<1>16. Positive'
  <2>1. Live(claim'[c]) => claim'[c].amount > 0
    BY <1>3 DEF PurseInv, Positive, Live, Write
  <2> QED
    BY <1>2, <2>1 DEF PurseInv, Positive
<1>17. RefundedAgrees'
  BY <1>8 DEF RefundedAgrees, Took, Summed
<1>18. RefundsFit'
  BY <1>7, <1>8 DEF RefundsFit
<1>19. FirmFits'
  <2>1. Firm \in SUBSET Claim
    BY DEF Firm
  <2>2. Firm' \in SUBSET Firm
    BY <1>2, <1>3 DEF Firm, Doc
  <2>3. \A d \in Firm' : claim'[d].amount = claim[d].amount
    BY <1>2, <1>3 DEF Firm, Doc
  <2>4. Summed(claim', Firm') = Summed(claim, Firm')
    BY <2>3, SummedSame
  <2>5. Summed(claim, Firm') <= Summed(claim, Firm)
    BY <2>1, <2>2, SummedLess
  <2>6. Summed(claim, Firm') \in Nat /\ Summed(claim, Firm) \in Nat
    BY <2>1, <2>2, UnitsFinite
  <2>7. Summed(claim, Firm) <= Total
    BY DEF PurseInv, FirmFits
  <2>8. Summed(claim', Firm') <= Total
    BY <2>4, <2>5, <2>6, <2>7, TotalAssumption
  <2> QED
    BY <2>8 DEF FirmFits
<1> QED
  BY <1>9, <1>10, <1>11, <1>12, <1>13, <1>14, <1>15, <1>16, <1>17, <1>18, <1>19 DEF PurseInv

\* What the end of the Pending Cash's own request changes: it ran alone.
LEMMA ActionShape ==
  ASSUME Overlap \subseteq Payment, PurseInv, CommitAction
  PROVE  /\ flight[PC] # Idle /\ flight[PC].op \in Request /\ Handler(flight[PC].op)
         /\ \A c \in Claim : flight[c] = Idle
         /\ claim' = claim
         /\ DOMAIN flight' = Doc /\ \A d \in Doc : flight'[d] = Idle
         /\ pc'.paid = Flagged(pc, flight[PC].op).paid
         /\ pc'.void = Flagged(pc, flight[PC].op).void
         /\ pc'.validated = Flagged(pc, flight[PC].op).validated
         /\ pc'.journal = (pc'.paid /\ ~pc'.void)
         /\ pc'.refunded = Took(claim, Refund)
         /\ pc'.settled = \E p \in Payment : claim[p].state = "posted"
         /\ pc'.status = status_of(pc')
         /\ pc' \in PCRecord
<1>1. /\ TypeOK /\ PC \in Doc /\ PC \notin Payment /\ PC \notin Claim
      /\ pc \in PCRecord /\ DOMAIN flight = Doc
  BY Typed, ClaimAssumption DEF PurseInv, Doc, Claim
<1>2. flight[PC] # Idle /\ claim' = claim /\ flight' = [flight EXCEPT ![PC] = Idle]
  BY DEF CommitAction, Commit
<1>3. \A e \in Doc \ {PC} : flight[e] = Idle
  BY <1>1, <1>2, NobodyElse DEF PurseInv
<1>4. flight[PC].op \in Request /\ Handler(flight[PC].op)
  BY <1>2 DEF PurseInv, Handled
<1>5. flight[PC].seen.pc = pc /\ flight[PC].seen.claim = claim
  BY <1>1, <1>2 DEF PurseInv, Alone, Fresh
<1>6. PICK op \in Request : op = flight[PC].op
  BY <1>4
<1>7. PICK flags : flags = Flagged(pc, op)
  OBVIOUS
<1>8. flags \in PCRecord
  BY <1>1, <1>7 DEF Flagged, Request, PCRecord
<1>9. PICK rolled : rolled = [flags EXCEPT !.refunded = Took(claim, Refund),
                             !.settled = \E c \in Payment : claim[c].state = "posted",
                             !.journal = flags.paid /\ ~flags.void]
  OBVIOUS
<1>10. pc' = [rolled EXCEPT !.status = status_of(rolled)]
  BY <1>5, <1>6, <1>7, <1>9 DEF CommitAction
<1>11. Took(claim, Refund) \in 0..Total
  <2>1. Refund \in SUBSET Claim
    BY DEF Claim
  <2> QED
    BY <2>1, TookIsNat, TotalAssumption DEF PurseInv, RefundsFit
<1>12. /\ rolled.paid = flags.paid /\ rolled.void = flags.void /\ rolled.validated = flags.validated
       /\ rolled.journal = (flags.paid /\ ~flags.void)
       /\ rolled.refunded = Took(claim, Refund)
       /\ rolled.settled = \E p \in Payment : claim[p].state = "posted"
       /\ rolled \in PCRecord
  BY <1>8, <1>9, <1>11 DEF PCRecord
<1>13. status_of(rolled) \in {"Draft", "Validated", "Paid", "Completed", "Void"}
  BY DEF status_of
<1>14. /\ pc'.paid = flags.paid /\ pc'.void = flags.void /\ pc'.validated = flags.validated
       /\ pc'.journal = (flags.paid /\ ~flags.void)
       /\ pc'.refunded = Took(claim, Refund)
       /\ pc'.settled = \E p \in Payment : claim[p].state = "posted"
       /\ pc'.status = status_of(rolled)
       /\ pc' \in PCRecord
  BY <1>10, <1>12, <1>13 DEF PCRecord
<1>15. status_of(rolled) = status_of(pc')
  BY <1>12, <1>14 DEF status_of
<1>16. (\A c \in Claim : flight[c] = Idle) /\ DOMAIN flight' = Doc /\ (\A d \in Doc : flight'[d] = Idle)
  BY <1>1, <1>2, <1>3 DEF Doc
<1> QED
  BY <1>2, <1>4, <1>6, <1>7, <1>14, <1>15, <1>16

\* The invariant through the Pending Cash's own write.
LEMMA ActionKeeps ==
  ASSUME Overlap \subseteq Payment, PurseInv, CommitAction
  PROVE  PurseInv'
<1>1. /\ flight[PC] # Idle /\ flight[PC].op \in Request /\ Handler(flight[PC].op)
      /\ \A c \in Claim : flight[c] = Idle
      /\ claim' = claim
      /\ DOMAIN flight' = Doc /\ \A d \in Doc : flight'[d] = Idle
      /\ pc'.paid = Flagged(pc, flight[PC].op).paid
      /\ pc'.void = Flagged(pc, flight[PC].op).void
      /\ pc'.journal = (pc'.paid /\ ~pc'.void)
      /\ pc'.refunded = Took(claim, Refund)
      /\ pc' \in PCRecord
  BY ActionShape
<1>2. Payment \subseteq Claim /\ Refund \subseteq Claim /\ Claim \subseteq Doc /\ PC \in Doc /\ pc \in PCRecord
  BY Typed DEF PurseInv, Doc, Claim
<1>3. TypeOK'
  BY <1>1 DEF PurseInv, TypeOK, Doc
<1>4. Apart' /\ Alone' /\ RowsWait' /\ Handled'
  BY <1>1, <1>2 DEF Apart, Alone, Fresh, RowsWait, Handled, Doc
<1>5. (pc'.void => ~pc'.paid) /\ ((\E c \in Claim : Live(claim[c])) => pc'.paid /\ ~pc'.void)
  <2>1. PICK op \in Request : op = flight[PC].op
    BY <1>1
  <2>2. /\ pc'.paid = Flagged(pc, op).paid /\ pc'.void = Flagged(pc, op).void /\ Handler(op)
        /\ (pc.void => ~pc.paid)
        /\ (\E c \in Claim : Live(claim[c])) => pc.paid /\ ~pc.void
    BY <1>1, <2>1 DEF PurseInv, JournalFollows, Funded
  <2>3. \A c \in Claim : c \in Payment \/ c \in Refund
    BY DEF Claim
  <2>4. CASE op \in {"validate", "invalidate", "save"}
    BY <1>2, <2>2, <2>4 DEF Flagged, PCRecord
  <2>5. CASE op = "pay"
    BY <1>2, <2>2, <2>5 DEF Flagged, PCRecord, Handler
  <2>6. CASE op = "unpaid"
    BY <1>2, <2>2, <2>3, <2>6 DEF Flagged, PCRecord, Handler, guard_not_used, guard_not_refunded
  <2>7. CASE op = "void"
    BY <1>2, <2>2, <2>7 DEF Flagged, PCRecord, Handler
  <2>8. CASE op = "unvoid"
    BY <1>2, <2>2, <2>8 DEF Flagged, PCRecord, Handler
  <2> QED
    BY <2>4, <2>5, <2>6, <2>7, <2>8 DEF Request
<1>6. JournalFollows'
  BY <1>1, <1>5 DEF JournalFollows
<1>7. Funded'
  BY <1>1, <1>2, <1>5 DEF Funded
<1>8. Positive'
  BY <1>1 DEF PurseInv, Positive
<1>9. RefundedAgrees'
  BY <1>1 DEF RefundedAgrees, Took, Summed
<1>10. RefundsFit'
  BY <1>1, <1>2 DEF PurseInv, RefundsFit
<1>11. FirmFits'
  <2>1. Firm' \in SUBSET Firm /\ Firm \in SUBSET Claim
    BY <1>1, <1>2 DEF Firm
  <2>2. /\ Summed(claim, Firm') <= Summed(claim, Firm)
        /\ Summed(claim, Firm') \in Nat /\ Summed(claim, Firm) \in Nat
    BY <2>1, SummedLess, UnitsFinite
  <2>3. Summed(claim, Firm) <= Total
    BY DEF PurseInv, FirmFits
  <2>4. Summed(claim, Firm') <= Total
    BY <2>2, <2>3, TotalAssumption
  <2> QED
    BY <1>1, <2>4 DEF FirmFits
<1> QED
  BY <1>3, <1>4, <1>6, <1>7, <1>8, <1>9, <1>10, <1>11 DEF PurseInv

-----------------------------------------------------------------------------
\* The invariant holds at the start, through every step, and so always.
LEMMA PurseBorn == Init => PurseInv
<1>1. ASSUME Init
      PROVE  PurseInv
  <2>1. /\ \A d \in Doc : flight[d] = Idle
        /\ DOMAIN flight = Doc
        /\ \A c \in Claim : claim[c] = NoClaim
        /\ claim = [c \in Claim |-> NoClaim]
        /\ pc.refunded = 0 /\ pc.paid = FALSE /\ pc.void = FALSE /\ pc.journal = FALSE
    BY <1>1 DEF Init, Doc
  <2>2. Payment \subseteq Claim /\ Refund \in SUBSET Claim /\ PC \in Doc /\ Claim \subseteq Doc
    BY DEF Claim, Doc
  <2>3. \A c \in Claim : ~Live(claim[c]) /\ claim[c].state = "none"
    BY <2>1 DEF NoClaim, Live
  <2>4. Took(claim, Refund) = 0
    <3>1. {c \in Refund : Live(claim[c])} = {}
      BY <2>2, <2>3
    <3>2. {u \in {} \X Amount : u[2] <= claim[u[1]].amount} = {}
      OBVIOUS
    <3>3. Summed(claim, {}) = 0
      BY <3>2, FS_EmptySet DEF Summed
    <3> QED
      BY <3>1, <3>3 DEF Took
  <2>5. Firm = {} /\ Summed(claim, {}) = 0
    <3>1. {u \in {} \X Amount : u[2] <= claim[u[1]].amount} = {}
      OBVIOUS
    <3>2. Summed(claim, {}) = 0
      BY <3>1, FS_EmptySet DEF Summed
    <3>3. Firm = {}
      BY <2>1, <2>2, <2>3 DEF Firm
    <3> QED
      BY <3>2, <3>3
  <2>6. TypeOK
    <3>1. 0 \in 0..Total
      BY TotalAssumption
    <3>2. pc \in PCRecord
      BY <1>1, <3>1 DEF Init, PCRecord
    <3>3. claim \in [Claim -> ClaimRecord]
      BY <2>1, <3>1 DEF NoClaim, ClaimRecord
    <3> QED
      BY <2>1, <3>2, <3>3 DEF TypeOK, Doc
  <2>7. Apart /\ Alone /\ RowsWait /\ Handled
    BY <2>1, <2>2 DEF Apart, Alone, Fresh, RowsWait, Handled
  <2>8. JournalFollows /\ Funded /\ Positive
    BY <2>1, <2>2, <2>3 DEF JournalFollows, Funded, Positive
  <2>9. RefundedAgrees /\ RefundsFit
    BY <2>1, <2>2, <2>4, TotalAssumption DEF RefundedAgrees, RefundsFit
  <2>10. FirmFits
    BY <2>5, TotalAssumption DEF FirmFits
  <2> QED
    BY <2>6, <2>7, <2>8, <2>9, <2>10 DEF PurseInv
<1> QED
  BY <1>1

\* The invariant through every step.
LEMMA PurseStep ==
  ASSUME Overlap \subseteq Payment, PurseInv, [Next]_vars
  PROVE  PurseInv'
<1>1. CASE UNCHANGED vars
  <2>1. pc' = pc /\ claim' = claim /\ flight' = flight
    BY <1>1 DEF vars
  <2>2. /\ TypeOK' /\ Apart' /\ Alone' /\ RowsWait' /\ JournalFollows' /\ Funded' /\ Positive'
        /\ RefundedAgrees'
    BY <2>1 DEF PurseInv, TypeOK, Apart, Alone, Fresh, RowsWait, JournalFollows, Funded, Positive,
                      RefundedAgrees, Took, Summed
  <2>3. Handled'
    BY <2>1 DEF PurseInv, Handled, Handler, guard_not_used, guard_not_refunded
  <2>4. Firm' = Firm
    BY <2>1 DEF Firm
  <2>5. RefundsFit' /\ FirmFits'
    BY <2>1, <2>4 DEF PurseInv, RefundsFit, FirmFits
  <2> QED
    BY <2>2, <2>3, <2>5 DEF PurseInv
<1>2. CASE Next
  <2>1. \/ \E c \in Claim, op \in Write, amount \in 0..Total : Asked(c, op, amount)
        \/ \E op \in Request : run_action(op)
        \/ \E c \in Claim : CommitClaim(c)
        \/ CommitAction
    BY <1>2, StepKinds DEF PurseInv
  <2> QED
    BY <2>1, AskedKeeps, RunKeeps, ClaimKeeps, ActionKeeps
<1> QED
  BY <1>1, <1>2

\* The invariant, whenever only payments overlap.
LEMMA PurseHolds == ASSUME Overlap \subseteq Payment PROVE Spec => []PurseInv
<1>1. Init => PurseInv
  BY PurseBorn
<1>2. PurseInv /\ [Next]_vars => PurseInv'
  BY PurseStep
<1> QED
  BY <1>1, <1>2, PTL DEF Spec

\* What the books see of a claim's write.
LEMMA ClaimOnBooks ==
  ASSUME Overlap \subseteq Payment, PurseInv, PurseInv', NEW c \in Claim, CommitClaim(c)
  PROVE  Books!Next \/ (Drawn' = Drawn /\ pc'.journal = pc.journal)
<1>1. TypeOK /\ c \in Doc
  BY DEF PurseInv, Doc
<1>2. /\ \A d \in Claim \ {c} : claim'[d] = claim[d]
      /\ pc'.journal = pc.journal /\ flight[c] # Idle /\ pc'.paid = pc.paid /\ pc'.void = pc.void
  BY <1>1, CommitShape
<1>3. /\ flight[c].op \in Write
      /\ flight[c].op = "post" =>
           /\ claim[c].state = "draft" /\ claim'[c].state = "posted"
           /\ claim'[c].amount = claim[c].amount
      /\ flight[c].op # "post" => claim'[c].state # "posted"
  BY ClaimWritten
<1>4. /\ Posted \in SUBSET Claim /\ Posted' \in SUBSET Claim /\ Posted \ {c} \in SUBSET Claim
      /\ claim \in Rows /\ c \notin Posted \ {c}
  BY Typed DEF Posted, PurseInv
<1>5. /\ Drawn \in Nat /\ Summed(claim, Posted \ {c}) \in Nat /\ Summed(claim', Posted') \in Nat
  BY <1>4, UnitsFinite DEF Drawn
<1>6. pc.journal
  BY <1>2 DEF PurseInv, Funded, JournalFollows
<1>7. CASE flight[c].op = "post"
  <2>1. Posted' = Posted \cup {c} /\ c \notin Posted
    BY <1>2, <1>3, <1>7 DEF Posted
  <2>2. \A d \in Posted' : claim'[d].amount = claim[d].amount
    BY <1>2, <1>3, <1>7 DEF Posted
  <2>3. Summed(claim', Posted') = Summed(claim, Posted')
    BY <2>2, SummedSame
  <2>4. Summed(claim, Posted \cup {c}) = Summed(claim, Posted) + claim[c].amount
    BY <1>4, <2>1, SummedWith
  <2>5. Drawn' = Drawn + claim[c].amount
    BY <2>1, <2>3, <2>4, Zenon DEF Drawn
  <2>6. claim[c].amount \in Nat /\ claim[c].amount > 0
    BY <1>3, <1>4, <1>7, TotalAssumption DEF PurseInv, Positive, Live, Rows, ClaimRecord
  <2>7. Drawn' <= Total
    <3>1. Firm' \in SUBSET Claim /\ Posted' \in SUBSET Firm'
      BY DEF Firm, Posted
    <3>2. Summed(claim', Posted') <= Summed(claim', Firm') /\ Summed(claim', Firm') \in Nat
      BY <3>1, SummedLess, UnitsFinite
    <3>3. Summed(claim', Firm') <= Total
      BY DEF PurseInv, FirmFits
    <3> QED
      BY <1>5, <3>2, <3>3, TotalAssumption DEF Drawn
  <2> QED
    BY <1>2, <1>5, <1>6, <2>5, <2>6, <2>7, TotalAssumption DEF Books!Next, Books!Draw
<1>8. CASE flight[c].op # "post"
  <2>1. Posted' = Posted \ {c}
    BY <1>2, <1>3, <1>8 DEF Posted
  <2>2. \A d \in Posted' : claim'[d].amount = claim[d].amount
    BY <1>2, <2>1 DEF Posted
  <2>3. Drawn' = Summed(claim, Posted \ {c})
    <3>1. Summed(claim', Posted') = Summed(claim, Posted')
      BY <2>2, SummedSame
    <3> QED
      BY <2>1, <3>1 DEF Drawn
  <2>4. CASE c \notin Posted
    <3>1. Posted \ {c} = Posted
      BY <2>4
    <3> QED
      BY <1>2, <2>3, <3>1 DEF Drawn
  <2>5. CASE c \in Posted
    <3>1. Posted = (Posted \ {c}) \cup {c}
      BY <2>5
    <3>2. Summed(claim, (Posted \ {c}) \cup {c}) = Summed(claim, Posted \ {c}) + claim[c].amount
      BY <1>4, SummedWith
    <3>3. Drawn = Drawn' + claim[c].amount
      BY <2>3, <3>1, <3>2, Zenon DEF Drawn
    <3>4. claim[c].amount \in Nat /\ claim[c].amount > 0
      BY <1>4, <2>5, TotalAssumption DEF PurseInv, Positive, Live, Posted, Rows, ClaimRecord
    <3>5. Drawn' \in Nat
      BY <1>5, <2>3
    <3> QED
      BY <1>2, <1>5, <3>3, <3>4, <3>5 DEF Books!Next, Books!GiveBack
  <2> QED
    BY <2>4, <2>5
<1> QED
  BY <1>7, <1>8

\* What the books see of the Pending Cash's own write: money comes, or goes unused.
LEMMA ActionOnBooks ==
  ASSUME Overlap \subseteq Payment, PurseInv, CommitAction
  PROVE  Books!Next \/ (Drawn' = Drawn /\ pc'.journal = pc.journal)
<1>1. /\ claim' = claim /\ pc'.journal = (pc'.paid /\ ~pc'.void)
      /\ pc' \in PCRecord /\ flight[PC].op \in Request /\ Handler(flight[PC].op)
      /\ pc'.paid = Flagged(pc, flight[PC].op).paid /\ pc'.void = Flagged(pc, flight[PC].op).void
  BY ActionShape
<1>2. pc \in PCRecord /\ pc.journal = (pc.paid /\ ~pc.void)
  BY Typed DEF PurseInv, JournalFollows
<1>3. pc.journal \in BOOLEAN /\ pc'.journal \in BOOLEAN
  BY <1>1, <1>2 DEF PCRecord
<1>4. Drawn' = Drawn
  BY <1>1 DEF Drawn, Posted, Summed
<1>5. CASE pc'.journal = pc.journal
  BY <1>4, <1>5
<1>6. CASE ~pc.journal /\ pc'.journal
  BY <1>3, <1>4, <1>6 DEF Books!Next, Books!Fund
<1>7. CASE pc.journal /\ ~pc'.journal
  <2>1. PICK op \in Request : op = flight[PC].op
    BY <1>1
  <2>2. Handler(op) /\ pc'.paid = Flagged(pc, op).paid /\ pc'.void = Flagged(pc, op).void
    BY <1>1, <2>1
  <2>3. op = "unpaid"
    BY <1>1, <1>2, <1>7, <2>2 DEF Handler, Flagged, Request, PCRecord
  <2>4. \A c \in Claim : ~Live(claim[c])
    BY <2>2, <2>3 DEF Handler, guard_not_used, guard_not_refunded, Claim
  <2>5. Posted = {}
    BY <2>4 DEF Posted, Live
  <2>6. {u \in {} \X Amount : u[2] <= claim[u[1]].amount} = {}
    OBVIOUS
  <2>7. Drawn = 0
    BY <2>5, <2>6, FS_EmptySet DEF Drawn, Summed
  <2> QED
    BY <1>3, <1>4, <1>7, <2>7 DEF Books!Next, Books!Unfund
<1> QED
  BY <1>3, <1>5, <1>6, <1>7

\* The money of a Pending Cash is the purse the books see, though cashiers
\* save and post their payments at the same moment: no step draws more than
\* is left, draws before the money came, or takes it back half used.
\* (apply_kasbon, check_allocations, _guard_not_used)
THEOREM PurseImplemented == ASSUME Overlap \subseteq Payment PROVE Spec => ImplementsPurse
<1>1. Init => Books!Init
  <2>1. ASSUME Init
        PROVE  Books!Init
    <3>1. Posted = {}
      BY <2>1 DEF Init, Posted, NoClaim
    <3>2. {u \in {} \X Amount : u[2] <= claim[u[1]].amount} = {}
      OBVIOUS
    <3>3. Drawn = 0
      BY <3>1, <3>2, FS_EmptySet DEF Drawn, Summed
    <3> QED
      BY <2>1, <3>3 DEF Init, Books!Init
  <2> QED
    BY <2>1
<1>2. PurseInv /\ PurseInv' /\ [Next]_vars => [Books!Next]_(Books!vars)
  <2>1. ASSUME PurseInv, PurseInv', [Next]_vars
        PROVE  Books!Next \/ (Drawn' = Drawn /\ pc'.journal = pc.journal)
    <3>1. ASSUME pc' = pc, claim' = claim
          PROVE  Drawn' = Drawn /\ pc'.journal = pc.journal
      BY <3>1 DEF Drawn, Posted, Summed
    <3>2. CASE UNCHANGED vars
      BY <3>1, <3>2 DEF vars
    <3>3. CASE Next
      <4>1. \/ \E c \in Claim, op \in Write, amount \in 0..Total : Asked(c, op, amount)
            \/ \E op \in Request : run_action(op)
            \/ \E c \in Claim : CommitClaim(c)
            \/ CommitAction
        BY <2>1, <3>3, StepKinds DEF PurseInv
      <4>2. ASSUME NEW c \in Claim, NEW op \in Write, NEW amount \in 0..Total, Asked(c, op, amount)
            PROVE  pc' = pc /\ claim' = claim
        BY <4>2 DEF Asked, Begin
      <4>3. ASSUME NEW op \in Request, run_action(op)
            PROVE  pc' = pc /\ claim' = claim
        BY <4>3 DEF run_action, Begin
      <4> QED
        BY <2>1, <3>1, <4>1, <4>2, <4>3, ClaimOnBooks, ActionOnBooks
    <3> QED
      BY <2>1, <3>2, <3>3
  <2> QED
    BY <2>1 DEF Books!vars
<1> QED
  BY <1>1, <1>2, PurseHolds, PTL DEF Spec, ImplementsPurse, Books!Spec
-----------------------------------------------------------------------------
\* With requests that run alone, a save under way still fits.
SaveFits ==
  \A c \in Claim : flight[c] # Idle /\ flight[c].op = "save"
                      => flight[c].amount + Took(claim, Claim \ {c}) <= Total

DepositInv == PurseInv /\ (\A d \in Doc : Fresh(d)) /\ ClaimsFit /\ SaveFits /\ StatusAgrees

\* A request that runs alone has nobody beside it and reads what is there.
LEMMA AloneBegins ==
  ASSUME Overlap = {}, TypeOK, \A e \in Doc : Fresh(e),
         NEW d \in Doc, NEW op, NEW amount, Begin(d, op, amount)
  PROVE  (\A e \in Doc \ {d} : flight'[e] = Idle) /\ (\A e \in Doc : Fresh(e))'
<1>1. /\ \A e \in Doc : flight[e] # Idle => {d, e} \subseteq Overlap
      /\ \A e \in Doc \ {d} : flight'[e] = flight[e]
      /\ flight'[d].seen.pc = pc /\ flight'[d].seen.claim = claim
      /\ pc' = pc /\ claim' = claim
  BY BeginShape
<1>2. \A e \in Doc \ {d} : flight'[e] = Idle
  BY <1>1
<1> QED
  BY <1>1, <1>2 DEF Fresh, Doc

\* With requests that run alone, a claim's write keeps totals and status.
LEMMA ClaimBooked ==
  ASSUME Overlap = {}, DepositInv, NEW c \in Claim, CommitClaim(c)
  PROVE  ClaimsFit' /\ StatusAgrees' /\ \A d \in Doc : flight'[d] = Idle
<1>1. /\ PurseInv /\ TypeOK /\ c \in Doc /\ claim \in Rows /\ pc \in PCRecord
      /\ Payment \subseteq Claim
  BY Typed DEF DepositInv, PurseInv, Doc, Claim
<1>2. /\ flight[c] # Idle
      /\ claim' = [claim EXCEPT ![c] = Written(flight[c])]
      /\ \A d \in Claim \ {c} : claim'[d] = claim[d]
      /\ flight'[c] = Idle
      /\ \A e \in Doc \ {c} : flight'[e] = flight[e]
      /\ pc'.paid = pc.paid /\ pc'.void = pc.void /\ pc'.validated = pc.validated
      /\ c \notin Payment => pc'.settled = pc.settled /\ pc'.status = pc.status
  BY <1>1, CommitShape
<1>3. /\ claim'[c] \in ClaimRecord /\ flight[c].op \in Write
      /\ flight[c].op = "post" =>
           /\ claim[c].state = "draft" /\ claim'[c].state = "posted"
           /\ claim'[c].amount = claim[c].amount
      /\ flight[c].op = "save" =>
           /\ claim[c].state \in {"none", "draft"} /\ claim'[c].state = "draft"
           /\ claim'[c].amount = flight[c].amount
      /\ flight[c].op = "unpost" =>
           claim[c].state = "posted" /\ claim'[c].state = "draft" /\ claim'[c].amount = claim[c].amount
      /\ flight[c].op = "void" => Live(claim[c]) /\ claim'[c].state = "void"
      /\ flight[c].op = "delete" => claim[c].state = "draft" /\ claim'[c].state = "none"
  BY <1>1, ClaimWritten
<1>4. claim' \in Rows
  BY <1>1, <1>2, <1>3 DEF Rows
<1>5. \A d \in Doc : flight'[d] = Idle
  BY <1>1, <1>2 DEF PurseInv, Apart
<1>6. ClaimsFit'
  <2>1. Took(claim', Claim \ {c}) = Took(claim, Claim \ {c})
    <3>1. \A d \in Claim \ {c} : claim'[d] = claim[d]
      BY <1>2
    <3> QED
      BY <3>1, TookSame
  <2>2. /\ Took(claim, Claim) = Took(claim, Claim \ {c}) + IF Live(claim[c]) THEN claim[c].amount ELSE 0
        /\ Took(claim', Claim) = Took(claim', Claim \ {c}) + IF Live(claim'[c]) THEN claim'[c].amount ELSE 0
    BY <1>1, <1>4, TookWithout
  <2>3. /\ Took(claim, Claim) \in Nat /\ Took(claim, Claim \ {c}) \in Nat /\ Took(claim', Claim) \in Nat
    BY TookIsNat
  <2>4. claim[c].amount \in Nat /\ claim'[c].amount \in Nat
    BY <1>1, <1>4, TotalAssumption DEF Rows, ClaimRecord
  <2>5. Took(claim, Claim) <= Total
    BY DEF DepositInv, ClaimsFit
  <2>6. flight[c].op = "save" => flight[c].amount + Took(claim, Claim \ {c}) <= Total
    BY <1>2 DEF DepositInv, SaveFits
  <2>7. Took(claim', Claim) <= Total
    <3>1. CASE flight[c].op = "save"
      BY <1>3, <2>1, <2>2, <2>3, <2>4, <2>6, <3>1, TotalAssumption DEF Live
    <3>2. CASE flight[c].op \in {"post", "unpost"}
      BY <1>3, <2>1, <2>2, <2>3, <2>4, <2>5, <3>2, TotalAssumption DEF Live
    <3>3. CASE flight[c].op \in {"void", "delete"}
      BY <1>3, <2>1, <2>2, <2>3, <2>4, <2>5, <3>3, TotalAssumption DEF Live
    <3> QED
      BY <1>3, <3>1, <3>2, <3>3 DEF Write
  <2> QED
    BY <2>7 DEF ClaimsFit, Took, Summed
<1>7. StatusAgrees'
  <2>1. /\ pc.status = status_of(pc)
        /\ pc.settled <=> \E p \in Payment : claim[p].state = "posted"
        /\ flight[c].seen.pc = pc /\ flight[c].seen.claim = claim
    BY <1>1, <1>2 DEF DepositInv, StatusAgrees, Fresh
  <2>2. CASE c \in Payment
    <3>1. pc' = sync_document_links(pc, claim', pc)
      BY <1>2, <2>1, <2>2 DEF CommitClaim
    <3>2. PICK s : s = (\E p \in Payment : claim'[p].state = "posted")
      OBVIOUS
    <3>3. pc' = [pc EXCEPT !.settled = s, !.status = status_of([pc EXCEPT !.settled = s])]
      BY <3>1, <3>2 DEF sync_document_links
    <3>4. pc'.settled = s /\ pc'.status = status_of([pc EXCEPT !.settled = s])
      BY <1>1, <3>3 DEF PCRecord
    <3>5. status_of([pc EXCEPT !.settled = s]) = status_of(pc')
      BY <1>1, <1>2, <3>4 DEF status_of, PCRecord
    <3> QED
      BY <3>2, <3>4, <3>5 DEF StatusAgrees, status_of
  <2>3. CASE c \notin Payment
    <3>1. \A p \in Payment : claim'[p] = claim[p]
      BY <1>1, <1>2, <2>3
    <3>2. pc'.settled = pc.settled /\ pc'.status = pc.status /\ status_of(pc') = status_of(pc)
      BY <1>2, <2>3 DEF status_of
    <3> QED
      BY <2>1, <3>1, <3>2 DEF StatusAgrees, status_of
  <2> QED
    BY <2>2, <2>3
<1> QED
  BY <1>5, <1>6, <1>7

\* The stronger invariant through every step.
LEMMA DepositMoves == ASSUME Overlap = {} PROVE DepositInv /\ [Next]_vars => DepositInv'
<1> SUFFICES ASSUME DepositInv, [Next]_vars
             PROVE  DepositInv'
  OBVIOUS
<1>1. /\ PurseInv /\ TypeOK /\ (\A d \in Doc : Fresh(d)) /\ ClaimsFit /\ SaveFits /\ StatusAgrees
      /\ Claim \subseteq Doc /\ PC \in Doc /\ PC \notin Claim
  BY ClaimAssumption DEF DepositInv, PurseInv, Doc, Claim
<1>2. ASSUME pc' = pc, claim' = claim
      PROVE  ClaimsFit' /\ StatusAgrees'
  BY <1>1, <1>2 DEF ClaimsFit, Took, Summed, StatusAgrees, status_of
<1>3. CASE UNCHANGED vars
  <2>1. pc' = pc /\ claim' = claim /\ flight' = flight
    BY <1>3 DEF vars
  <2>2. PurseInv'
    BY <1>1, <1>3, PurseStep
  <2>3. (\A d \in Doc : Fresh(d))'
    BY <1>1, <2>1 DEF Fresh
  <2>4. SaveFits'
    BY <1>1, <2>1 DEF SaveFits
  <2> QED
    BY <1>2, <2>1, <2>2, <2>3, <2>4 DEF DepositInv
<1>4. CASE Next
  <2>1. PurseInv'
    BY <1>1, <1>4, PurseStep
  <2>2. \/ \E c \in Claim, op \in Write, amount \in 0..Total : Asked(c, op, amount)
        \/ \E op \in Request : run_action(op)
        \/ \E c \in Claim : CommitClaim(c)
        \/ CommitAction
    BY <1>1, <1>4, StepKinds DEF PurseInv
  <2>3. ASSUME NEW c \in Claim, NEW op \in Write, NEW amount \in 0..Total, Asked(c, op, amount)
        PROVE  DepositInv'
    <3>1. Begin(c, op, amount) /\ c \in Doc
      BY <1>1, <2>3 DEF Asked
    <3>2. (\A e \in Doc \ {c} : flight'[e] = Idle) /\ (\A e \in Doc : Fresh(e))'
      BY <1>1, <3>1, AloneBegins
    <3>3. pc' = pc /\ claim' = claim /\ flight'[c].op = op /\ flight'[c].amount = amount
      BY <1>1, <3>1, BeginShape
    <3>4. SaveFits'
      BY <1>1, <2>3, <3>2, <3>3 DEF SaveFits, Asked
    <3> QED
      BY <1>2, <2>1, <3>2, <3>3, <3>4 DEF DepositInv
  <2>4. ASSUME NEW op \in Request, run_action(op)
        PROVE  DepositInv'
    <3>1. Begin(PC, op, 0)
      BY <2>4 DEF run_action
    <3>2. (\A e \in Doc \ {PC} : flight'[e] = Idle) /\ (\A e \in Doc : Fresh(e))'
      BY <1>1, <3>1, AloneBegins
    <3>3. pc' = pc /\ claim' = claim
      BY <3>1 DEF Begin
    <3>4. SaveFits'
      BY <1>1, <3>2 DEF SaveFits
    <3> QED
      BY <1>2, <2>1, <3>2, <3>3, <3>4 DEF DepositInv
  <2>5. ASSUME NEW c \in Claim, CommitClaim(c)
        PROVE  DepositInv'
    <3>1. ClaimsFit' /\ StatusAgrees' /\ \A d \in Doc : flight'[d] = Idle
      BY <2>5, ClaimBooked
    <3>2. SaveFits' /\ (\A d \in Doc : Fresh(d))'
      BY <1>1, <3>1 DEF SaveFits, Fresh, Doc
    <3> QED
      BY <2>1, <3>1, <3>2 DEF DepositInv
  <2>6. CASE CommitAction
    <3>1. /\ claim' = claim /\ \A d \in Doc : flight'[d] = Idle
          /\ pc'.settled = \E p \in Payment : claim[p].state = "posted"
          /\ pc'.status = status_of(pc')
      BY <1>1, <2>6, ActionShape
    <3>2. ClaimsFit'
      BY <1>1, <3>1 DEF ClaimsFit, Took, Summed
    <3>3. StatusAgrees'
      BY <3>1 DEF StatusAgrees, status_of
    <3>4. SaveFits' /\ (\A d \in Doc : Fresh(d))'
      BY <1>1, <3>1 DEF SaveFits, Fresh, Doc
    <3> QED
      BY <2>1, <3>2, <3>3, <3>4 DEF DepositInv
  <2> QED
    BY <2>2, <2>3, <2>4, <2>5, <2>6
<1> QED
  BY <1>3, <1>4

\* A deposit whose requests run one after another: drafts, payments and
\* refunds together never take more than was paid in, the roll-up is what the
\* refunds took, the status is what the payments make it, and nothing claims
\* money that is not there (apply_kasbon, check_allocations, sync_refunded,
\* sync_document_links, _guard_not_used).
THEOREM DepositAddsUp == ASSUME Overlap = {} PROVE Spec => []DepositHolds
<1>1. Init => DepositInv
  <2>1. ASSUME Init
        PROVE  DepositInv
    <3>1. PurseInv
      BY <2>1, PurseBorn
    <3>2. /\ \A d \in Doc : flight[d] = Idle
          /\ \A c \in Claim : claim[c].state = "none"
          /\ pc.settled = FALSE /\ pc.status = "Draft"
          /\ pc.void = FALSE /\ pc.paid = FALSE /\ pc.validated = FALSE
      BY <2>1 DEF Init, Doc, NoClaim
    <3>3. ClaimsFit
      <4>1. {c \in Claim : Live(claim[c])} = {}
        BY <3>2 DEF Live
      <4>2. {u \in {} \X Amount : u[2] <= claim[u[1]].amount} = {}
        OBVIOUS
      <4>3. Took(claim, Claim) = 0
        BY <4>1, <4>2, FS_EmptySet DEF Took, Summed
      <4> QED
        BY <4>3, TotalAssumption DEF ClaimsFit
    <3>4. SaveFits /\ \A d \in Doc : Fresh(d)
      BY <3>2 DEF SaveFits, Fresh, Doc
    <3>5. StatusAgrees
      BY <3>2 DEF StatusAgrees, status_of, Claim
    <3> QED
      BY <3>1, <3>3, <3>4, <3>5 DEF DepositInv
  <2> QED
    BY <2>1
<1>2. DepositInv => DepositHolds
  <2>1. ASSUME DepositInv
        PROVE  ClaimsOnPaid
    BY <2>1 DEF DepositInv, PurseInv, Funded, JournalFollows, ClaimsOnPaid
  <2> QED
    BY <2>1 DEF DepositInv, PurseInv, DepositHolds
<1>3. DepositInv /\ [Next]_vars => DepositInv'
  BY DepositMoves
<1> QED
  BY <1>1, <1>2, <1>3, PTL DEF Spec
-----------------------------------------------------------------------------
(* One booking's money (BookingPayment), for every value of its constants. *)
(* Sums is what its charges may add up to.                                 *)
CONSTANTS Finance, Form, Press, Sums, Mode, Agreement, MaxInvoice, TankEdits

Counter == INSTANCE BookingPayment WITH Amount <- Sums

CounterAssumptions ==
  /\ Counter!AmountAssumption /\ Counter!ModeAssumption
  /\ Counter!AgreementAssumption /\ Counter!SwitchAssumption

Bill == [docstatus : 0..2, paid : BOOLEAN, amount : Sums, kind : {"booking", "bill"}]

(* Nothing names an invoice that was never raised.                         *)
LinksKnown ==
  /\ bk.si \in 0..Len(inv)
  /\ \A f \in Form : \A b \in form[f] : b.si \in 0..Len(inv)

CounterInv == Counter!TypeOK /\ LinksKnown

(* The four states of a booking the invariants tell apart, by name.        *)
Unpaid == "Pending Payment"
ToConfirm == "Pending Confirmation"

LEMMA StatusNames ==
  /\ {Unpaid, ToConfirm} \subseteq Counter!Status
  /\ {"Draft", "Confirmed", "Cancelled", "Pengajuan"} \subseteq Counter!Status
BY Zenon DEF Counter!Status, Counter!Editable, Unpaid, ToConfirm

(* A booking under a new status is the same booking.                       *)
LEMMA Restatused ==
  ASSUME NEW b \in Counter!Booking, NEW s \in Counter!Status
  PROVE  LET c == [b EXCEPT !.status = s] IN
         /\ c \in Counter!Booking /\ c.status = s /\ c.docstatus = b.docstatus /\ c.mode = b.mode
         /\ c.si = b.si /\ c.pay = b.pay /\ c.charge = b.charge /\ c.portal = b.portal
BY DEF Counter!Booking

LEMMA SettlementIs ==
  ASSUME NEW i PROVE Counter!Settlement(i) \in {{}, {"Paid"}, {"Invoiced"}}
BY DEF Counter!Settlement

(* What validate makes of a form.                                          *)
LEMMA ValidatedIs ==
  ASSUME CounterAssumptions, CounterInv, NEW b \in Counter!Booking, NEW charge \in Sums,
         NEW mode \in Mode \cup {b.mode}
  PROVE  LET v == Counter!Validated(b, charge, mode) IN
         /\ v \in Counter!Booking /\ v.docstatus = b.docstatus /\ v.si = b.si /\ v.pay = b.pay
         /\ v.status = b.status /\ v.charge = charge /\ v.portal = b.portal
         /\ v.mode = Counter!Agreed(mode)
<1>1. Counter!Agreed(mode) \in {"Cash", "TOP"}
  <2>1. mode \in {"Cash", "TOP"}
    BY DEF CounterAssumptions, Counter!ModeAssumption, Counter!Booking
  <2> QED
    BY <2>1 DEF Counter!Agreed
<1> HIDE DEF CounterInv, CounterAssumptions
<1> QED
  BY <1>1 DEF Counter!Validated, Counter!Booking

LEMMA ConfirmedIs ==
  ASSUME CounterAssumptions, NEW b \in Counter!Booking
  PROVE  LET c == Counter!Confirmed(b) IN
         /\ c \in Counter!Booking /\ c.docstatus = 1 /\ c.si = b.si /\ c.mode = b.mode
         /\ c.charge = b.charge /\ c.portal = b.portal /\ c.status = "Confirmed"
         /\ c.pay = IF ~Finance THEN b.pay ELSE IF b.mode = "Cash" THEN "Paid" ELSE "Unpaid"
<1> DEFINE s == "Confirmed"
           p == IF ~Finance THEN b.pay ELSE IF b.mode = "Cash" THEN "Paid" ELSE "Unpaid"
           c == Counter!Confirmed(b)
<1>1. s \in Counter!Status
  BY StatusNames
<1>2. p \in {"Unpaid", "Invoiced", "Paid", "Cancelled"}
  BY DEF Counter!Booking
<1>3. c = [b EXCEPT !.docstatus = 1, !.status = s, !.pay = p]
  BY DEF Counter!Confirmed
<1> HIDE DEF s, p, c
<1>4. /\ b = [docstatus |-> b.docstatus, status |-> b.status, mode |-> b.mode, si |-> b.si,
              pay |-> b.pay, charge |-> b.charge, portal |-> b.portal]
      /\ b.mode \in {"Cash", "TOP"} /\ b.si \in 0..MaxInvoice /\ b.charge \in Sums
      /\ b.portal \in BOOLEAN
  BY DEF Counter!Booking
<1>5. c = [docstatus |-> 1, status |-> s, mode |-> b.mode, si |-> b.si,
           pay |-> p, charge |-> b.charge, portal |-> b.portal]
  BY <1>3, <1>4
<1>6. 1 \in 0..2
  OBVIOUS
<1>7. /\ c \in Counter!Booking /\ c.docstatus = 1 /\ c.si = b.si /\ c.mode = b.mode
      /\ c.charge = b.charge /\ c.portal = b.portal /\ c.status = s /\ c.pay = p
  BY <1>1, <1>2, <1>4, <1>5, <1>6 DEF Counter!Booking
<1> QED
  BY <1>7 DEF s, p, c

(* A bill is raised, or one of them is marked.                             *)
LEMMA BillRaised ==
  ASSUME CounterInv, NEW amount \in Sums, NEW kind \in {"booking", "bill"},
         inv' = Counter!Raised(amount, kind), Len(inv) < MaxInvoice, MaxInvoice \in Nat
  PROVE  /\ inv' \in Seq(Bill) /\ Len(inv') = Len(inv) + 1 /\ Len(inv') <= MaxInvoice
         /\ Len(inv) \in Nat /\ DOMAIN inv = 1..Len(inv) /\ DOMAIN inv' = 1..Len(inv) + 1
         /\ \A i \in DOMAIN inv : inv'[i] = inv[i]
         /\ inv'[Len(inv) + 1] = [docstatus |-> 0, paid |-> FALSE, amount |-> amount, kind |-> kind]
<1> DEFINE r == [docstatus |-> 0, paid |-> FALSE, amount |-> amount, kind |-> kind]
<1>1. r \in Bill /\ inv \in Seq(Bill) /\ inv' = Append(inv, r)
  BY DEF Bill, Counter!Raised, CounterInv, Counter!TypeOK
<1> HIDE DEF r, Bill
<1>2. /\ inv' \in Seq(Bill) /\ Len(inv') = Len(inv) + 1 /\ Len(inv) \in Nat
      /\ DOMAIN inv = 1..Len(inv) /\ DOMAIN inv' = 1..Len(inv) + 1
      /\ (\A i \in DOMAIN inv : inv'[i] = inv[i]) /\ inv'[Len(inv) + 1] = r
  BY <1>1
<1> QED
  BY <1>2 DEF r

(* What was marked on one bill leaves the others alone.                    *)
OneMarked(i, e) ==
  /\ e \in Bill /\ e.amount = inv[i].amount /\ e.kind = inv[i].kind
  /\ inv' = [inv EXCEPT ![i] = e]

LEMMA BillMarked ==
  ASSUME CounterInv, NEW i \in DOMAIN inv, NEW e, OneMarked(i, e)
  PROVE  /\ inv' \in Seq(Bill) /\ Len(inv') = Len(inv) /\ DOMAIN inv' = DOMAIN inv
         /\ inv'[i] = e /\ \A j \in DOMAIN inv \ {i} : inv'[j] = inv[j]
<1>1. inv \in Seq(Bill)
  BY DEF Bill, CounterInv, Counter!TypeOK
<1> HIDE DEF Bill
<1> QED
  BY <1>1 DEF OneMarked

(* The four ways a bill is marked.                                         *)
LEMMA Marks ==
  ASSUME CounterInv, NEW i \in DOMAIN inv
  PROVE  /\ inv' = [inv EXCEPT ![i].docstatus = 1]
              => OneMarked(i, [inv[i] EXCEPT !.docstatus = 1])
         /\ inv' = Counter!CancelledInv(i) => OneMarked(i, [inv[i] EXCEPT !.docstatus = 2])
         /\ \A p \in BOOLEAN : inv' = [inv EXCEPT ![i].paid = p]
              => OneMarked(i, [inv[i] EXCEPT !.paid = p])
<1>1. inv \in Seq(Bill)
  BY DEF Bill, CounterInv, Counter!TypeOK
<1>2. inv[i] \in Bill
  <2> HIDE DEF Bill
  <2> QED
    BY <1>1
<1> QED
  BY <1>2 DEF OneMarked, Counter!CancelledInv, Bill

-----------------------------------------------------------------------------
(* What each request leaves of the booking and of its bills.               *)

LEMMA HeldForm ==
  ASSUME CounterInv, NEW b \in Counter!Held \cup {bk}
  PROVE  b \in Counter!Booking /\ b.si \in 0..Len(inv)
<1>1. CASE b = bk
  BY <1>1 DEF CounterInv, LinksKnown, Counter!TypeOK
<1>2. CASE b \in Counter!Held
  <2>1. PICK f \in Form : b \in form[f]
    BY <1>2 DEF Counter!Held
  <2>2. form[f] \subseteq Counter!Booking
    BY DEF CounterInv, Counter!TypeOK
  <2> QED
    BY <2>1, <2>2 DEF CounterInv, LinksKnown
<1> QED
  BY <1>1, <1>2

LEMMA SaveDraftIs ==
  ASSUME CounterAssumptions, CounterInv, NEW b \in Counter!Held \cup {bk}, NEW charge \in Sums,
         NEW mode \in Mode \cup {b.mode}, Counter!SaveDraft(b, charge, mode)
  PROVE  /\ inv' = inv /\ bk' \in Counter!Booking /\ bk'.docstatus = 0 /\ bk'.si = b.si
         /\ bk'.status = b.status /\ bk'.charge = charge /\ bk'.portal = b.portal
         /\ bk'.mode = Counter!Agreed(mode)
<1> DEFINE v == Counter!Validated(b, charge, mode)
           s == Counter!Settled(v)
<1>1. /\ v \in Counter!Booking /\ v.docstatus = b.docstatus /\ v.si = b.si /\ v.pay = b.pay
      /\ v.status = b.status /\ v.charge = charge /\ v.portal = b.portal
      /\ v.mode = Counter!Agreed(mode)
  BY HeldForm, ValidatedIs
<1>2. inv' = inv /\ b.docstatus = 0 /\ bk' = [v EXCEPT !.pay = s]
  BY DEF Counter!SaveDraft, Counter!Savable, Counter!FollowsTanks
<1> HIDE DEF v
<1>3. s \in {"Unpaid", "Invoiced", "Paid", "Cancelled"}
  <2>1. CASE Counter!Settlement(v.si) = {}
    BY <1>1, <2>1 DEF Counter!Settled, Counter!Booking
  <2>2. CASE Counter!Settlement(v.si) # {}
    <3>1. s \in Counter!Settlement(v.si)
      BY <2>2 DEF Counter!Settled
    <3> QED
      BY <3>1, SettlementIs
  <2> QED
    BY <2>1, <2>2
<1> HIDE DEF s
<1> QED
  BY <1>1, <1>2, <1>3 DEF Counter!Booking

LEMMA SubmitIs ==
  ASSUME CounterAssumptions, CounterInv, NEW b \in Counter!Held \cup {bk}, NEW charge \in Sums,
         NEW mode \in Mode \cup {b.mode}, Counter!Submit(b, charge, mode)
  PROVE  /\ inv' = inv /\ bk' \in Counter!Booking /\ bk'.docstatus = 1 /\ bk'.si = b.si
         /\ bk'.status = "Confirmed" /\ bk'.charge = charge /\ bk'.portal = b.portal
         /\ bk'.mode = Counter!Agreed(mode)
         /\ Finance /\ bk'.mode = "Cash" /\ charge # 0 =>
              bk'.si # 0 /\ Counter!Settlement(bk'.si) = {"Paid"}
         /\ ~Finance /\ bk'.mode = "Cash" => bk'.pay = "Paid"
<1> DEFINE v == Counter!Validated(b, charge, mode)
<1>1. /\ v \in Counter!Booking /\ v.si = b.si /\ v.charge = charge /\ v.portal = b.portal
      /\ v.mode = Counter!Agreed(mode)
  BY HeldForm, ValidatedIs
<1>2. inv' = inv /\ Counter!MoneyIn(v) /\ bk' = Counter!Confirmed(v)
  BY DEF Counter!Submit
<1> HIDE DEF v
<1>3. /\ bk' \in Counter!Booking /\ bk'.docstatus = 1 /\ bk'.si = v.si /\ bk'.mode = v.mode
      /\ bk'.charge = v.charge /\ bk'.portal = v.portal /\ bk'.status = "Confirmed"
      /\ ~Finance => bk'.pay = v.pay
  BY <1>1, <1>2, ConfirmedIs
<1>4. Finance /\ v.mode = "Cash" /\ v.charge # 0 => v.si # 0 /\ Counter!Settlement(v.si) = {"Paid"}
  BY <1>2 DEF Counter!MoneyIn, Counter!NoInvoice
<1>5. ~Finance /\ v.mode = "Cash" => v.pay = "Paid"
  BY <1>2 DEF Counter!MoneyIn
<1> QED
  BY <1>1, <1>2, <1>3, <1>4, <1>5

(* A refused Submit, Ajukan and Kembali ke Draft move the status and       *)
(* nothing of the money.                                                   *)
LEMMA HoldIs ==
  ASSUME CounterAssumptions, CounterInv, NEW b, NEW charge, NEW mode,
         Counter!HoldPendingPayment(b, charge, mode)
  PROVE  /\ inv' = inv /\ bk.docstatus = 0 /\ bk' \in Counter!Booking /\ bk'.status = Unpaid
         /\ bk'.docstatus = bk.docstatus /\ bk'.mode = bk.mode /\ bk'.si = bk.si
         /\ bk'.pay = bk.pay /\ bk'.charge = bk.charge /\ bk'.portal = bk.portal
<1>1. inv' = inv /\ bk.docstatus = 0 /\ bk' = [bk EXCEPT !.status = Unpaid]
  BY Zenon DEF Counter!HoldPendingPayment, Counter!Savable, Unpaid
<1>2. Unpaid \in Counter!Status /\ bk \in Counter!Booking
  BY StatusNames DEF CounterInv, Counter!TypeOK
<1> QED
  BY <1>1, <1>2, Restatused

LEMMA RaiseIs ==
  ASSUME CounterAssumptions, CounterInv, NEW amount \in Sums, NEW b \in Counter!Booking,
         Counter!Raise(amount, b)
  PROVE  /\ Len(inv) < MaxInvoice /\ inv' = Counter!Raised(amount, "booking")
         /\ bk' \in Counter!Booking /\ bk'.status = b.status /\ bk'.docstatus = b.docstatus
         /\ bk'.mode = b.mode /\ bk'.si = Len(inv) + 1 /\ bk'.pay = "Unpaid"
         /\ bk'.charge = b.charge /\ bk'.portal = b.portal
<1>1. Len(inv) + 1 \in 0..MaxInvoice
  <2>1. Len(inv) \in Nat /\ Len(inv) < MaxInvoice /\ MaxInvoice \in Nat
    <3>1. inv \in Seq(Bill)
      BY DEF Bill, CounterInv, Counter!TypeOK
    <3> HIDE DEF Bill
    <3>2. Len(inv) \in Nat
      BY <3>1
    <3> QED
      BY <3>2 DEF Counter!Raise, CounterAssumptions, Counter!SwitchAssumption
  <2> QED
    BY <2>1
<1> DEFINE n == Len(inv) + 1
<1>2. /\ bk' = [b EXCEPT !.si = n, !.pay = "Unpaid"]
      /\ Len(inv) < MaxInvoice /\ inv' = Counter!Raised(amount, "booking")
  BY DEF Counter!Raise
<1>3. n \in 0..MaxInvoice
  BY <1>1
<1> HIDE DEF n
<1>4. /\ bk' \in Counter!Booking /\ bk'.status = b.status /\ bk'.docstatus = b.docstatus
      /\ bk'.mode = b.mode /\ bk'.si = n /\ bk'.pay = "Unpaid"
      /\ bk'.charge = b.charge /\ bk'.portal = b.portal
  BY <1>2, <1>3 DEF Counter!Booking
<1> QED
  BY <1>2, <1>4 DEF n

(* The four ways a bill of this booking is raised.                         *)
GenerateStep ==
  \/ Counter!generate_invoice \/ Counter!regenerate_invoice \/ Counter!Sweep
  \/ \E p \in Press : Counter!FinishGenerate(p)

LEMMA GenerateIs ==
  ASSUME CounterAssumptions, CounterInv, GenerateStep
  PROVE  /\ Len(inv) < MaxInvoice
         /\ \E amount \in Sums, kind \in {"booking", "bill"} :
              inv' = Counter!Raised(amount, kind) /\ (Press = {} => amount = bk.charge)
         /\ bk' \in Counter!Booking /\ bk'.docstatus = bk.docstatus /\ bk'.mode = bk.mode
         /\ bk'.si = Len(inv) + 1 /\ bk'.charge = bk.charge /\ bk'.portal = bk.portal
         /\ bk'.pay = "Unpaid" \/ bk.mode = "TOP"
         /\ bk'.status # bk.status => bk'.status = Unpaid
         /\ Press = {} /\ bk.si # 0 => bk.si \in DOMAIN inv /\ ~Counter!Live(bk.si)
<1>1. bk \in Counter!Booking /\ bk.charge \in Sums /\ bk.si \in 0..Len(inv)
  BY DEF CounterInv, Counter!TypeOK, Counter!Booking, LinksKnown
<1>2. /\ [bk EXCEPT !.status = Unpaid] \in Counter!Booking
      /\ [bk EXCEPT !.status = Unpaid].status = Unpaid
      /\ [bk EXCEPT !.status = Unpaid].docstatus = bk.docstatus
      /\ [bk EXCEPT !.status = Unpaid].mode = bk.mode
      /\ [bk EXCEPT !.status = Unpaid].charge = bk.charge
      /\ [bk EXCEPT !.status = Unpaid].portal = bk.portal
  BY <1>1, StatusNames, Restatused
<1> DEFINE waiting == [bk EXCEPT !.status = Unpaid]
<1>3. inv \in Seq(Bill)
  BY DEF Bill, CounterInv, Counter!TypeOK
<1>4. bk.si # 0 => bk.si \in DOMAIN inv
  <2> HIDE DEF Bill
  <2> QED
    BY <1>1, <1>3
<1>5. CASE Counter!generate_invoice
  <2>1. Counter!Raise(bk.charge, waiting)
    BY <1>5, Zenon DEF Counter!generate_invoice, Unpaid
  <2>2. bk.si = 0
    BY <1>5 DEF Counter!generate_invoice, Counter!MayGenerate, Counter!NoInvoice
  <2> HIDE DEF waiting
  <2> QED
    BY <1>1, <1>2, <2>1, <2>2, RaiseIs DEF waiting
<1>6. CASE \E p \in Press : Counter!FinishGenerate(p)
  <2>1. PICK p \in Press : Counter!FinishGenerate(p)
    BY <1>6
  <2>2. Counter!Raise(press[p], waiting) /\ press[p] # Counter!NoPress
    BY <2>1, Zenon DEF Counter!FinishGenerate, Unpaid
  <2>3. press[p] \in Sums
    BY <2>2 DEF CounterInv, Counter!TypeOK
  <2> HIDE DEF waiting
  <2> QED
    BY <1>1, <1>2, <2>2, <2>3, RaiseIs DEF waiting
<1>7. CASE Counter!regenerate_invoice
  <2>1. Counter!Raise(bk.charge, bk)
    BY <1>7 DEF Counter!regenerate_invoice
  <2>2. bk.si # 0 => ~Counter!Live(bk.si)
    BY <1>7 DEF Counter!regenerate_invoice, Counter!MayRegenerate, Counter!NoInvoice
  <2> QED
    BY <1>1, <1>4, <2>1, <2>2, RaiseIs
<1>8. CASE Counter!Sweep
  <2> DEFINE n == Len(inv) + 1
  <2>1. /\ bk.mode = "TOP" /\ bk.si = 0 /\ Len(inv) < MaxInvoice
        /\ inv' = Counter!Raised(bk.charge, "bill")
        /\ bk' = [bk EXCEPT !.si = n, !.pay = "Invoiced"]
    BY <1>8 DEF Counter!Sweep, Counter!NoInvoice
  <2>2. n \in 0..MaxInvoice
    <3> HIDE DEF Bill
    <3>1. Len(inv) \in Nat
      BY <1>3
    <3> QED
      BY <2>1, <3>1 DEF CounterAssumptions, Counter!SwitchAssumption
  <2> HIDE DEF n
  <2>3. /\ bk' \in Counter!Booking /\ bk'.docstatus = bk.docstatus /\ bk'.mode = bk.mode
        /\ bk'.si = n /\ bk'.charge = bk.charge /\ bk'.portal = bk.portal /\ bk'.status = bk.status
    BY <1>1, <2>1, <2>2 DEF Counter!Booking
  <2> QED
    BY <1>1, <2>1, <2>3 DEF n
<1> QED
  BY <1>5, <1>6, <1>7, <1>8 DEF GenerateStep

(* A booking is its seven fields.                                          *)
LEMMA Fields ==
  ASSUME NEW b \in Counter!Booking
  PROVE  /\ b = [docstatus |-> b.docstatus, status |-> b.status, mode |-> b.mode, si |-> b.si,
                 pay |-> b.pay, charge |-> b.charge, portal |-> b.portal]
         /\ b.docstatus \in 0..2 /\ b.status \in Counter!Status /\ b.mode \in {"Cash", "TOP"}
         /\ b.si \in 0..MaxInvoice /\ b.charge \in Sums /\ b.portal \in BOOLEAN
         /\ b.pay \in {"Unpaid", "Invoiced", "Paid", "Cancelled"}
BY DEF Counter!Booking

LEMMA Rebooked ==
  ASSUME NEW d \in 0..2, NEW s \in Counter!Status, NEW m \in {"Cash", "TOP"},
         NEW n \in 0..MaxInvoice, NEW p \in {"Unpaid", "Invoiced", "Paid", "Cancelled"},
         NEW a \in Sums, NEW o \in BOOLEAN
  PROVE  [docstatus |-> d, status |-> s, mode |-> m, si |-> n, pay |-> p, charge |-> a, portal |-> o]
           \in Counter!Booking
BY DEF Counter!Booking

(* The ways back of the booking: its bill may be cancelled.                *)
BackStep ==
  \/ Counter!rollback_to_draft \/ Counter!cancel_draft_invoice
  \/ Counter!void_draft \/ Counter!revert_booking_to_draft \/ Counter!submit_request

LEMMA BackIs ==
  ASSUME CounterAssumptions, CounterInv, BackStep
  PROVE  /\ bk' \in Counter!Booking /\ bk'.mode = bk.mode /\ bk'.charge = bk.charge
         /\ bk'.portal = bk.portal
         /\ \/ inv' = inv /\ bk'.si = bk.si
            \/ inv' = inv /\ bk.si = 0 /\ bk'.si = 0
            \/ /\ inv' = Counter!CancelledInv(bk.si) /\ bk.si \in DOMAIN inv /\ bk'.si = 0
               /\ inv[bk.si].docstatus # 1
         /\ bk'.docstatus \in {0, 2} \/ bk'.pay = "Unpaid"
         /\ bk'.status # Unpaid \/ bk'.si = 0
         /\ Finance \/ bk'.docstatus # 1
         /\ bk.portal => bk'.status # "Draft" \/ (bk.status = "Draft" /\ bk'.status = bk.status)
<1>1. bk \in Counter!Booking /\ bk.si \in 0..Len(inv)
  BY DEF CounterInv, Counter!TypeOK, LinksKnown
<1>2. bk.si # 0 => bk.si \in DOMAIN inv
  <2>1. inv \in Seq(Bill)
    BY DEF Bill, CounterInv, Counter!TypeOK
  <2> HIDE DEF Bill
  <2> QED
    BY <1>1, <2>1
<1>3. Unpaid # ToConfirm /\ Unpaid # "Draft" /\ Unpaid # "Pengajuan" /\ Unpaid # "Cancelled" /\ ToConfirm # "Draft"
  BY Zenon DEF Unpaid, ToConfirm
<1>9. /\ bk = [docstatus |-> bk.docstatus, status |-> bk.status, mode |-> bk.mode, si |-> bk.si,
               pay |-> bk.pay, charge |-> bk.charge, portal |-> bk.portal]
      /\ bk.docstatus \in 0..2 /\ bk.status \in Counter!Status /\ bk.mode \in {"Cash", "TOP"}
      /\ bk.si \in 0..MaxInvoice /\ bk.charge \in Sums /\ bk.portal \in BOOLEAN
      /\ bk.pay \in {"Unpaid", "Invoiced", "Paid", "Cancelled"}
  BY <1>1, Fields
<1>4. CASE Counter!rollback_to_draft
  <2> DEFINE s == Counter!RollbackTarget
  <2>1. s = IF bk.portal THEN "Pengajuan" ELSE "Draft"
    BY DEF Counter!RollbackTarget
  <2>2. s \in Counter!Status /\ s # Unpaid /\ (bk.portal => s # "Draft")
    BY <1>3, <2>1, StatusNames
  <2>3. /\ bk.docstatus = 0 /\ bk' = [bk EXCEPT !.si = 0, !.pay = "Unpaid", !.status = s]
        /\ inv' = IF bk.si # 0 THEN Counter!CancelledInv(bk.si) ELSE inv
        /\ bk.si # 0 => inv[bk.si].docstatus # 1
    BY <1>4 DEF Counter!rollback_to_draft, Counter!NoInvoice
  <2>4. 0 \in 0..MaxInvoice
    BY DEF CounterAssumptions, Counter!SwitchAssumption
  <2> HIDE DEF s
  <2>5. bk' = [docstatus |-> bk.docstatus, status |-> s, mode |-> bk.mode, si |-> 0,
               pay |-> "Unpaid", charge |-> bk.charge, portal |-> bk.portal]
    BY <1>9, <2>3
  <2>6. bk' \in Counter!Booking
    BY <1>9, <2>2, <2>4, <2>5, Rebooked
  <2> QED
    BY <1>2, <2>2, <2>3, <2>5, <2>6
<1>5. CASE Counter!cancel_draft_invoice
  <2>1. /\ bk.docstatus = 1 /\ bk.si # 0 /\ Finance /\ inv[bk.si].docstatus # 1
        /\ inv' = Counter!CancelledInv(bk.si) /\ bk' = [bk EXCEPT !.si = 0, !.pay = "Unpaid"]
    BY <1>5 DEF Counter!cancel_draft_invoice, Counter!NoInvoice
  <2>2. 0 \in 0..MaxInvoice
    BY DEF CounterAssumptions, Counter!SwitchAssumption
  <2>3. /\ bk' \in Counter!Booking /\ bk'.mode = bk.mode /\ bk'.charge = bk.charge
        /\ bk'.portal = bk.portal /\ bk'.si = 0 /\ bk'.pay = "Unpaid" /\ bk'.status = bk.status
    BY <1>1, <2>1, <2>2 DEF Counter!Booking
  <2> QED
    BY <1>2, <2>1, <2>3
<1>6. CASE Counter!void_draft
  <2> DEFINE s == "Cancelled"
  <2>1. inv' = inv /\ bk' = [bk EXCEPT !.status = s, !.pay = "Cancelled", !.docstatus = 2]
    BY <1>6 DEF Counter!void_draft
  <2>2. s \in Counter!Status /\ s # Unpaid /\ s # "Draft"
    BY <1>3, StatusNames
  <2> HIDE DEF s
  <2>3. bk' = [docstatus |-> 2, status |-> s, mode |-> bk.mode, si |-> bk.si,
               pay |-> "Cancelled", charge |-> bk.charge, portal |-> bk.portal]
    BY <1>9, <2>1
  <2>4. 2 \in 0..2
    OBVIOUS
  <2>5. bk' \in Counter!Booking
    BY <1>9, <2>2, <2>3, <2>4, Rebooked
  <2> QED
    BY <2>1, <2>2, <2>3, <2>5
<1>7. CASE Counter!revert_booking_to_draft
  <2> DEFINE s == ToConfirm
  <2>1. inv' = inv /\ bk' = [bk EXCEPT !.docstatus = 0, !.status = s]
    BY <1>7, Zenon DEF Counter!revert_booking_to_draft, ToConfirm
  <2>2. s \in Counter!Status /\ s # Unpaid /\ s # "Draft"
    BY <1>3, StatusNames
  <2>5. 0 \in 0..2
    OBVIOUS
  <2> HIDE DEF s
  <2>3. bk' = [docstatus |-> 0, status |-> s, mode |-> bk.mode, si |-> bk.si,
               pay |-> bk.pay, charge |-> bk.charge, portal |-> bk.portal]
    BY <1>9, <2>1
  <2>4. bk' \in Counter!Booking
    BY <1>9, <2>2, <2>3, <2>5 DEF Counter!Booking
  <2> QED
    BY <2>1, <2>2, <2>3, <2>4
<1>8. CASE Counter!submit_request
  <2>1. inv' = inv /\ bk.docstatus = 0 /\ bk' = [bk EXCEPT !.status = "Pengajuan"]
    BY <1>8 DEF Counter!submit_request
  <2>2. "Pengajuan" \in Counter!Status
    BY StatusNames
  <2> QED
    BY <1>1, <1>3, <2>1, <2>2, Restatused
<1> QED
  BY <1>4, <1>5, <1>6, <1>7, <1>8 DEF BackStep

(* The life of a bill at the Cashier.  What is said of the booking: it     *)
(* follows the bill it links and no other.                                 *)
LEMMA SubmitInvoiceIs ==
  ASSUME CounterInv, NEW i \in DOMAIN inv, Counter!SubmitInvoice(i)
  PROVE  /\ OneMarked(i, [inv[i] EXCEPT !.docstatus = 1])
         /\ [inv[i] EXCEPT !.docstatus = 1].docstatus = 1 /\ inv[i].docstatus = 0
         /\ bk' \in Counter!Booking /\ bk'.docstatus = bk.docstatus /\ bk'.mode = bk.mode
         /\ bk'.si = bk.si /\ bk'.charge = bk.charge /\ bk'.portal = bk.portal
         /\ bk'.status = bk.status
         /\ bk'.pay = IF bk.si = i THEN "Invoiced" ELSE bk.pay
<1>1. bk \in Counter!Booking /\ inv \in Seq(Bill)
  BY DEF CounterInv, Counter!TypeOK, Bill
<1>2. inv[i] \in Bill
  <2> HIDE DEF Bill
  <2> QED
    BY <1>1
<1>3. /\ inv[i].docstatus = 0 /\ inv' = [inv EXCEPT ![i].docstatus = 1]
      /\ bk' = IF bk.si = i THEN [bk EXCEPT !.pay = "Invoiced"] ELSE bk
  BY DEF Counter!SubmitInvoice
<1>4. [inv[i] EXCEPT !.docstatus = 1].docstatus = 1
  BY <1>2 DEF Bill
<1> QED
  BY <1>1, <1>3, <1>4, Marks DEF Counter!Booking

LEMMA CancelPaymentIs ==
  ASSUME CounterInv, NEW i \in DOMAIN inv, Counter!CancelPayment(i)
  PROVE  /\ OneMarked(i, [inv[i] EXCEPT !.paid = FALSE])
         /\ [inv[i] EXCEPT !.paid = FALSE].docstatus = inv[i].docstatus
         /\ ~[inv[i] EXCEPT !.paid = FALSE].paid
         /\ bk' \in Counter!Booking /\ bk'.docstatus = bk.docstatus /\ bk'.mode = bk.mode
         /\ bk'.si = bk.si /\ bk'.charge = bk.charge /\ bk'.portal = bk.portal
         /\ bk'.status = bk.status
         /\ bk'.pay = IF bk.si = i THEN "Invoiced" ELSE bk.pay
<1>1. bk \in Counter!Booking /\ inv \in Seq(Bill)
  BY DEF CounterInv, Counter!TypeOK, Bill
<1>2. inv[i] \in Bill
  <2> HIDE DEF Bill
  <2> QED
    BY <1>1
<1>3. /\ inv' = [inv EXCEPT ![i].paid = FALSE]
      /\ bk' = IF bk.si = i THEN [bk EXCEPT !.pay = "Invoiced"] ELSE bk
  BY DEF Counter!CancelPayment
<1>4. [inv[i] EXCEPT !.paid = FALSE].docstatus = inv[i].docstatus /\ ~[inv[i] EXCEPT !.paid = FALSE].paid
  BY <1>2 DEF Bill
<1>5. OneMarked(i, [inv[i] EXCEPT !.paid = FALSE])
  BY <1>3, Marks
<1> QED
  BY <1>1, <1>3, <1>4, <1>5 DEF Counter!Booking

LEMMA EndInvoiceIs ==
  ASSUME CounterAssumptions, CounterInv, NEW i \in DOMAIN inv, Counter!EndInvoice(i)
  PROVE  /\ OneMarked(i, [inv[i] EXCEPT !.docstatus = 2])
         /\ [inv[i] EXCEPT !.docstatus = 2].docstatus = 2 /\ ~inv[i].paid
         /\ bk' \in Counter!Booking /\ bk'.docstatus = bk.docstatus /\ bk'.mode = bk.mode
         /\ bk'.charge = bk.charge /\ bk'.portal = bk.portal /\ bk'.status = bk.status
         /\ \/ bk'.si = bk.si /\ bk'.pay = bk.pay /\ (bk.si # i \/ bk.docstatus = 2)
            \/ bk.si = i /\ bk'.si = 0 /\ bk'.pay = "Unpaid"
<1>1. bk \in Counter!Booking /\ inv \in Seq(Bill)
  BY DEF CounterInv, Counter!TypeOK, Bill
<1>2. inv[i] \in Bill
  <2> HIDE DEF Bill
  <2> QED
    BY <1>1
<1>3. ~inv[i].paid /\ inv' = Counter!CancelledInv(i) /\ bk' = Counter!Unlinked(bk, i)
  BY DEF Counter!EndInvoice
<1>4. [inv[i] EXCEPT !.docstatus = 2].docstatus = 2
  BY <1>2 DEF Bill
<1>5. 0 \in 0..MaxInvoice
  BY DEF CounterAssumptions, Counter!SwitchAssumption
<1> QED
  BY <1>1, <1>3, <1>4, <1>5, Marks DEF Counter!Booking, Counter!Unlinked, Counter!NoInvoice

(* A settled bill confirms the draft that links it, or leaves it to the    *)
(* admin.                                                                  *)
LEMMA PayIs ==
  ASSUME CounterAssumptions, CounterInv, NEW i \in DOMAIN inv, Counter!Pay(i)
  PROVE  /\ OneMarked(i, [inv[i] EXCEPT !.paid = TRUE])
         /\ [inv[i] EXCEPT !.paid = TRUE].docstatus = 1 /\ [inv[i] EXCEPT !.paid = TRUE].paid
         /\ inv[i].docstatus = 1
         /\ bk' \in Counter!Booking /\ bk'.si = bk.si /\ bk'.charge = bk.charge /\ bk'.portal = bk.portal
         /\ bk'.docstatus \in {bk.docstatus, 1}
         /\ bk.si # i => bk' = bk
         /\ bk.si = i /\ ~Finance /\ bk'.docstatus = 1 => bk'.pay = "Paid" \/ bk'.mode # "Cash"
         /\ bk.si = i /\ bk'.docstatus = 0 /\ bk.mode = "Cash" => bk'.status # Unpaid
         /\ bk'.status # bk.status => bk'.status \in {"Confirmed", ToConfirm}
         /\ bk'.mode = bk.mode \/ bk'.mode = Counter!Agreed(bk.mode)
<1>1. bk \in Counter!Booking /\ inv \in Seq(Bill)
  BY DEF CounterInv, Counter!TypeOK, Bill
<1>2. inv[i] \in Bill
  <2> HIDE DEF Bill
  <2> QED
    BY <1>1
<1> DEFINE b == [bk EXCEPT !.pay = "Paid"]
           v == Counter!Validated(b, b.charge, b.mode)
<1>3. /\ inv[i].docstatus = 1 /\ inv' = [inv EXCEPT ![i].paid = TRUE]
      /\ IF bk.si = i THEN bk' \in Counter!AutoSubmitted(b) ELSE bk' = bk
  BY DEF Counter!Pay
<1>4. [inv[i] EXCEPT !.paid = TRUE].docstatus = inv[i].docstatus /\ [inv[i] EXCEPT !.paid = TRUE].paid
  BY <1>2 DEF Bill
<1>5. OneMarked(i, [inv[i] EXCEPT !.paid = TRUE])
  BY <1>3, Marks
<1>6. /\ b \in Counter!Booking /\ b.si = bk.si /\ b.charge = bk.charge /\ b.portal = bk.portal
      /\ b.docstatus = bk.docstatus /\ b.status = bk.status /\ b.mode = bk.mode /\ b.pay = "Paid"
  BY <1>1 DEF Counter!Booking
<1> HIDE DEF b
<1>7. b.charge \in Sums
  BY <1>6 DEF Counter!Booking
<1>8. /\ v \in Counter!Booking /\ v.si = b.si /\ v.pay = b.pay /\ v.charge = b.charge
      /\ v.portal = b.portal /\ v.mode = Counter!Agreed(b.mode)
  BY <1>6, <1>7, ValidatedIs
<1> HIDE DEF v
<1>9. /\ Counter!Confirmed(v) \in Counter!Booking /\ Counter!Confirmed(v).docstatus = 1
      /\ Counter!Confirmed(v).si = b.si /\ Counter!Confirmed(v).charge = b.charge
      /\ Counter!Confirmed(v).portal = b.portal /\ Counter!Confirmed(v).status = "Confirmed"
      /\ ~Finance => Counter!Confirmed(v).pay = "Paid"
      /\ Counter!Confirmed(v).mode = Counter!Agreed(bk.mode)
  BY <1>6, <1>8, ConfirmedIs
<1> DEFINE w == [b EXCEPT !.status = ToConfirm]
<1>10. /\ w \in Counter!Booking /\ w.status = ToConfirm /\ w.docstatus = b.docstatus
       /\ w.si = b.si /\ w.pay = b.pay /\ w.charge = b.charge /\ w.portal = b.portal /\ w.mode = b.mode
  BY <1>6, StatusNames, Restatused
<1>11. Unpaid # "Confirmed" /\ Unpaid # ToConfirm
  BY Zenon DEF Unpaid, ToConfirm
<1>12. /\ Counter!AutoSubmitted(b) \in {{Counter!Confirmed(v), w}, {b}}
       /\ b.docstatus = 0 /\ b.mode = "Cash" /\ b.status = Unpaid
            => Counter!AutoSubmitted(b) = {Counter!Confirmed(v), w}
  <2>1. ToConfirm = "Pending Confirmation" /\ Unpaid = "Pending Payment"
    BY DEF Unpaid, ToConfirm
  <2> QED
    BY <2>1, Zenon DEF Counter!AutoSubmitted, v
<1> HIDE DEF w
<1>13. CASE bk.si # i
  BY <1>1, <1>3, <1>4, <1>5, <1>13
<1>14. CASE bk.si = i
  <2>1. \/ bk' = Counter!Confirmed(v) \/ bk' = w
        \/ bk' = b /\ ~(b.docstatus = 0 /\ b.mode = "Cash" /\ b.status = Unpaid)
    <3>1. bk' \in Counter!AutoSubmitted(b)
      BY <1>3, <1>14
    <3>2. CASE Counter!AutoSubmitted(b) = {Counter!Confirmed(v), w}
      BY <3>1, <3>2
    <3>3. CASE Counter!AutoSubmitted(b) # {Counter!Confirmed(v), w}
      <4>1. bk' = b
        BY <1>12, <3>1, <3>3
      <4> QED
        BY <1>12, <3>3, <4>1
    <3> QED
      BY <3>2, <3>3
  <2> QED
    BY <1>3, <1>4, <1>5, <1>6, <1>9, <1>10, <1>11, <1>14, <2>1
<1> QED
  BY <1>13, <1>14

(* A Confirmed booking is corrected only while no bill carries it.         *)
LEMMA ChargesIs ==
  ASSUME CounterInv, NEW b \in Counter!Held \cup {bk}, NEW charge \in Sums, Counter!SaveCharges(b, charge)
  PROVE  /\ inv' = inv /\ bk' \in Counter!Booking /\ bk'.docstatus = bk.docstatus
         /\ bk'.mode = bk.mode /\ bk'.si = bk.si /\ bk'.portal = bk.portal
         /\ bk'.status = bk.status /\ bk'.charge = charge
         /\ Finance => bk.si = 0 /\ (bk.mode = "Cash" /\ charge > 0 => bk'.pay = "Unpaid")
         /\ ~Finance => bk'.pay = bk.pay
<1>1. bk \in Counter!Booking /\ b \in Counter!Booking
  BY HeldForm DEF CounterInv, Counter!TypeOK
<1> DEFINE c == [bk EXCEPT !.charge = charge]
<1>2. /\ c \in Counter!Booking /\ c.docstatus = bk.docstatus /\ c.mode = bk.mode /\ c.si = bk.si
      /\ c.portal = bk.portal /\ c.status = bk.status /\ c.charge = charge /\ c.pay = bk.pay
  BY <1>1 DEF Counter!Booking
<1>3. /\ inv' = inv /\ bk' = Counter!Reopened(c) /\ Counter!ChargesOpen(b)
      /\ [b EXCEPT !.charge = 0] = [bk EXCEPT !.charge = 0]
  BY DEF Counter!SaveCharges
<1>4. b.si = bk.si
  <2>1. [b EXCEPT !.charge = 0].si = b.si /\ [bk EXCEPT !.charge = 0].si = bk.si
    BY <1>1 DEF Counter!Booking
  <2> QED
    BY <1>3, <2>1
<1> HIDE DEF c
<1>5. Finance => bk.si = 0
  BY <1>3, <1>4 DEF Counter!ChargesOpen, Counter!NoInvoice
<1> DEFINE p == IF c.charge > 0 THEN "Unpaid" ELSE "Paid"
<1>6. bk' = IF ~Finance \/ c.mode # "Cash" \/ c.si # 0 THEN c ELSE [c EXCEPT !.pay = p]
  BY <1>3 DEF Counter!Reopened, Counter!NoInvoice
<1>7. /\ [c EXCEPT !.pay = p] \in Counter!Booking /\ [c EXCEPT !.pay = p].docstatus = c.docstatus
      /\ [c EXCEPT !.pay = p].mode = c.mode /\ [c EXCEPT !.pay = p].si = c.si
      /\ [c EXCEPT !.pay = p].portal = c.portal /\ [c EXCEPT !.pay = p].status = c.status
      /\ [c EXCEPT !.pay = p].charge = c.charge /\ [c EXCEPT !.pay = p].pay = p
  <2>1. p \in {"Unpaid", "Paid"}
    OBVIOUS
  <2> HIDE DEF p
  <2> QED
    BY <1>2, <2>1 DEF Counter!Booking
<1> HIDE DEF p
<1>8. charge > 0 => p = "Unpaid"
  BY <1>2 DEF p
<1> QED
  BY <1>2, <1>3, <1>5, <1>6, <1>7, <1>8

LEMMA ReviseIs ==
  ASSUME CounterAssumptions, CounterInv, NEW mode \in Mode, Counter!Revise(mode)
  PROVE  /\ inv' = inv /\ bk' \in Counter!Booking /\ bk'.docstatus = 1 /\ bk.docstatus = 1
         /\ bk'.mode = mode /\ bk.mode # mode /\ bk'.si = bk.si /\ bk'.portal = bk.portal
         /\ bk'.status = bk.status /\ bk'.charge = bk.charge
         /\ Finance => bk.si = 0 /\ (mode = "Cash" /\ bk.charge > 0 => bk'.pay = "Unpaid")
         /\ ~Finance => bk'.pay = bk.pay
<1>1. bk \in Counter!Booking /\ mode \in {"Cash", "TOP"}
  BY DEF CounterInv, Counter!TypeOK, CounterAssumptions, Counter!ModeAssumption
<1> DEFINE q == IF mode = "TOP" /\ Finance THEN "Unpaid" ELSE bk.pay
           c == [bk EXCEPT !.mode = mode, !.pay = q]
<1>2. q \in {"Unpaid", "Invoiced", "Paid", "Cancelled"}
  BY <1>1 DEF Counter!Booking
<1>3. /\ inv' = inv /\ bk.docstatus = 1 /\ bk.mode # mode /\ bk' = Counter!Reopened(c)
      /\ Finance => bk.si = 0
  BY DEF Counter!Revise, Counter!NoInvoice
<1>4. ~Finance => q = bk.pay
  OBVIOUS
<1> HIDE DEF q
<1>5. /\ c \in Counter!Booking /\ c.docstatus = 1 /\ c.mode = mode /\ c.si = bk.si
      /\ c.portal = bk.portal /\ c.status = bk.status /\ c.charge = bk.charge /\ c.pay = q
  BY <1>1, <1>2, <1>3 DEF Counter!Booking
<1> HIDE DEF c
<1> DEFINE p == IF c.charge > 0 THEN "Unpaid" ELSE "Paid"
<1>6. bk' = IF ~Finance \/ c.mode # "Cash" \/ c.si # 0 THEN c ELSE [c EXCEPT !.pay = p]
  BY <1>3 DEF Counter!Reopened, Counter!NoInvoice
<1>7. p \in {"Unpaid", "Paid"} /\ (bk.charge > 0 => p = "Unpaid")
  BY <1>5
<1> HIDE DEF p
<1>8. /\ [c EXCEPT !.pay = p] \in Counter!Booking /\ [c EXCEPT !.pay = p].docstatus = c.docstatus
      /\ [c EXCEPT !.pay = p].mode = c.mode /\ [c EXCEPT !.pay = p].si = c.si
      /\ [c EXCEPT !.pay = p].portal = c.portal /\ [c EXCEPT !.pay = p].status = c.status
      /\ [c EXCEPT !.pay = p].charge = c.charge /\ [c EXCEPT !.pay = p].pay = p
  BY <1>5, <1>7 DEF Counter!Booking
<1> QED
  BY <1>3, <1>4, <1>5, <1>6, <1>7, <1>8

LEMMA LabelIs ==
  ASSUME CounterInv, NEW pay \in {"Paid", "Unpaid"}, Counter!set_payment_status(pay)
  PROVE  /\ inv' = inv /\ ~Finance /\ (pay = "Unpaid" => bk.docstatus = 0)
         /\ bk' \in Counter!Booking /\ bk'.docstatus = bk.docstatus /\ bk'.mode = bk.mode
         /\ bk'.si = bk.si /\ bk'.charge = bk.charge /\ bk'.portal = bk.portal
         /\ bk'.status = bk.status /\ bk'.pay = pay
<1>1. bk \in Counter!Booking
  BY DEF CounterInv, Counter!TypeOK
<1>2. /\ ~Finance /\ inv' = inv /\ bk' = [bk EXCEPT !.pay = pay]
      /\ pay = "Unpaid" => bk.docstatus = 0
  BY DEF Counter!set_payment_status, Counter!MayLabel
<1> QED
  BY <1>1, <1>2 DEF Counter!Booking

(* What moves neither the booking nor its bills.                           *)
IdleStep ==
  \/ Counter!make_order
  \/ \E c \in Agreement : Counter!NewContract(c)
  \/ \E f \in Form : Counter!OpenForm(f)
  \/ \E p \in Press : Counter!PressGenerate(p)

LEMMA IdleIs == IdleStep => bk' = bk /\ inv' = inv
BY DEF IdleStep, Counter!make_order, Counter!NewContract, Counter!OpenForm, Counter!PressGenerate

-----------------------------------------------------------------------------
(* Every request, by what it touches.                                      *)
SaveStep ==
  \E b \in Counter!Held \cup {bk}, charge \in Sums :
    \/ Counter!SaveCharges(b, charge)
    \/ \E mode \in Mode \cup {b.mode} :
         \/ Counter!SaveDraft(b, charge, mode) \/ Counter!Submit(b, charge, mode)
         \/ Counter!HoldPendingPayment(b, charge, mode)

CashierStep ==
  \E i \in DOMAIN inv :
    Counter!SubmitInvoice(i) \/ Counter!Pay(i) \/ Counter!CancelPayment(i) \/ Counter!EndInvoice(i)

HandStep ==
  \/ \E mode \in Mode : Counter!Revise(mode)
  \/ \E pay \in {"Paid", "Unpaid"} : Counter!set_payment_status(pay)

LEMMA CounterStepKinds ==
  Counter!Next => SaveStep \/ GenerateStep \/ BackStep \/ CashierStep \/ HandStep \/ IdleStep
BY DEF Counter!Next, SaveStep, GenerateStep, BackStep, CashierStep, HandStep, IdleStep

(* What surrounds the booking keeps its type: a save closes the forms, an  *)
(* open form is the booking as it stands.                                  *)
FormsMove ==
  form' = form \/ form' = [f \in Form |-> {}] \/ \E f \in Form : form' = [form EXCEPT ![f] = {bk}]

LEMMA AroundMoves ==
  ASSUME CounterInv, Counter!Next
  PROVE  /\ FormsMove /\ contract' \in Agreement /\ bon' \in BOOLEAN
         /\ press' \in [Press -> Sums \cup {Counter!NoPress}]
<1>1. contract \in Agreement /\ bon \in BOOLEAN /\ press \in [Press -> Sums \cup {Counter!NoPress}]
  BY DEF CounterInv, Counter!TypeOK
<1>2. bk.charge \in Sums
  BY DEF CounterInv, Counter!TypeOK, Counter!Booking
<1>3. CASE SaveStep \/ HandStep
  <2>1. Counter!Same /\ (Counter!Closed \/ Counter!Kept)
    BY <1>3 DEF SaveStep, HandStep, Counter!SaveCharges, Counter!SaveDraft, Counter!Submit,
      Counter!HoldPendingPayment, Counter!Revise, Counter!set_payment_status
  <2> QED
    BY <1>1, <2>1 DEF FormsMove, Counter!Same, Counter!Closed, Counter!Kept
<1>4. CASE BackStep
  <2>1. Counter!Same /\ Counter!Kept
    BY <1>4 DEF BackStep, Counter!rollback_to_draft, Counter!cancel_draft_invoice,
      Counter!void_draft, Counter!revert_booking_to_draft, Counter!submit_request
  <2> QED
    BY <1>1, <2>1 DEF FormsMove, Counter!Same, Counter!Kept
<1>5. CASE CashierStep
  <2>1. Counter!Same /\ (Counter!Closed \/ Counter!Kept)
    BY <1>5 DEF CashierStep, Counter!SubmitInvoice, Counter!Pay, Counter!CancelPayment, Counter!EndInvoice
  <2> QED
    BY <1>1, <2>1 DEF FormsMove, Counter!Same, Counter!Closed, Counter!Kept
<1>6. CASE GenerateStep
  <2>1. /\ Counter!Kept /\ contract' = contract /\ bon' = bon
        /\ press' = press \/ \E p \in Press : press' = [press EXCEPT ![p] = Counter!NoPress]
    BY <1>6 DEF GenerateStep, Counter!generate_invoice, Counter!regenerate_invoice, Counter!Sweep,
      Counter!FinishGenerate, Counter!Raise, Counter!Same
  <2> QED
    BY <1>1, <2>1 DEF FormsMove, Counter!Kept
<1>7. CASE IdleStep
  BY <1>1, <1>2, <1>7 DEF IdleStep, FormsMove, Counter!make_order, Counter!NewContract,
    Counter!OpenForm, Counter!PressGenerate, Counter!Same
<1> QED
  BY <1>3, <1>4, <1>5, <1>6, <1>7, CounterStepKinds

(* No request names an invoice that was never raised, nor takes one away.  *)
LedgerGrows ==
  /\ inv' \in Seq(Bill) /\ Len(inv') \in Len(inv)..MaxInvoice
  /\ bk' \in Counter!Booking /\ bk'.si \in 0..Len(inv')

LEMMA LedgerMoves ==
  ASSUME CounterAssumptions, CounterInv, Counter!Next
  PROVE  LedgerGrows
<1>1. /\ inv \in Seq(Bill) /\ bk \in Counter!Booking /\ bk.si \in 0..Len(inv)
      /\ Len(inv) <= MaxInvoice /\ MaxInvoice \in Nat
  BY DEF CounterAssumptions, Counter!SwitchAssumption, CounterInv, Counter!TypeOK, LinksKnown, Bill
<1>2. Len(inv) \in Nat
  <2> HIDE DEF Bill
  <2> QED
    BY <1>1
<1>3. ASSUME inv' = inv, bk' \in Counter!Booking, bk'.si \in 0..Len(inv) PROVE LedgerGrows
  BY <1>1, <1>2, <1>3 DEF LedgerGrows
<1>4. ASSUME NEW i \in DOMAIN inv, NEW e, OneMarked(i, e),
             bk' \in Counter!Booking, bk'.si \in 0..Len(inv)
      PROVE  LedgerGrows
  <2>1. inv' \in Seq(Bill) /\ Len(inv') = Len(inv)
    BY <1>4, BillMarked
  <2> HIDE DEF Bill
  <2> QED
    BY <1>1, <1>2, <1>4, <2>1 DEF LedgerGrows
<1>5. CASE SaveStep
  <2>1. PICK b \in Counter!Held \cup {bk}, charge \in Sums :
          \/ Counter!SaveCharges(b, charge)
          \/ \E mode \in Mode \cup {b.mode} :
               \/ Counter!SaveDraft(b, charge, mode) \/ Counter!Submit(b, charge, mode)
               \/ Counter!HoldPendingPayment(b, charge, mode)
    BY <1>5 DEF SaveStep
  <2>2. b.si \in 0..Len(inv)
    BY HeldForm
  <2>3. CASE Counter!SaveCharges(b, charge)
    BY <1>1, <1>3, <2>3, ChargesIs
  <2>4. ASSUME NEW mode \in Mode \cup {b.mode}, Counter!SaveDraft(b, charge, mode) PROVE LedgerGrows
    BY <1>3, <2>2, <2>4, SaveDraftIs
  <2>5. ASSUME NEW mode \in Mode \cup {b.mode}, Counter!Submit(b, charge, mode) PROVE LedgerGrows
    BY <1>3, <2>2, <2>5, SubmitIs
  <2>6. ASSUME NEW mode \in Mode \cup {b.mode}, Counter!HoldPendingPayment(b, charge, mode)
        PROVE  LedgerGrows
    BY <1>1, <1>3, <2>6, HoldIs
  <2> QED
    BY <2>1, <2>3, <2>4, <2>5, <2>6
<1>6. CASE GenerateStep
  <2>1. /\ Len(inv) < MaxInvoice /\ bk' \in Counter!Booking /\ bk'.si = Len(inv) + 1
        /\ \E amount \in Sums, kind \in {"booking", "bill"} : inv' = Counter!Raised(amount, kind)
    BY <1>6, GenerateIs
  <2>2. inv' \in Seq(Bill) /\ Len(inv') = Len(inv) + 1
    BY <1>1, <2>1, BillRaised
  <2> HIDE DEF Bill
  <2> QED
    BY <1>1, <1>2, <2>1, <2>2 DEF LedgerGrows
<1>7. CASE BackStep
  <2>1. /\ bk' \in Counter!Booking
        /\ \/ inv' = inv /\ bk'.si = bk.si
           \/ inv' = inv /\ bk'.si = 0
           \/ inv' = Counter!CancelledInv(bk.si) /\ bk.si \in DOMAIN inv /\ bk'.si = 0
    BY <1>7, BackIs
  <2>2. 0 \in 0..Len(inv)
    BY <1>2
  <2>3. CASE inv' = inv
    BY <1>1, <1>3, <2>1, <2>2, <2>3
  <2>4. CASE inv' # inv
    BY <1>4, <2>1, <2>2, <2>4, Marks
  <2> QED
    BY <2>3, <2>4
<1>8. CASE CashierStep
  <2>1. PICK i \in DOMAIN inv : \/ Counter!SubmitInvoice(i) \/ Counter!Pay(i)
                                \/ Counter!CancelPayment(i) \/ Counter!EndInvoice(i)
    BY <1>8 DEF CashierStep
  <2>2. 0 \in 0..Len(inv)
    BY <1>2
  <2>3. CASE Counter!SubmitInvoice(i)
    BY <1>1, <1>4, <2>3, SubmitInvoiceIs
  <2>4. CASE Counter!Pay(i)
    BY <1>1, <1>4, <2>4, PayIs
  <2>5. CASE Counter!CancelPayment(i)
    BY <1>1, <1>4, <2>5, CancelPaymentIs
  <2>6. CASE Counter!EndInvoice(i)
    BY <1>1, <1>4, <2>2, <2>6, EndInvoiceIs
  <2> QED
    BY <2>1, <2>3, <2>4, <2>5, <2>6
<1>9. CASE HandStep
  <2>1. ASSUME NEW mode \in Mode, Counter!Revise(mode) PROVE LedgerGrows
    BY <1>1, <1>3, <2>1, ReviseIs
  <2>2. ASSUME NEW pay \in {"Paid", "Unpaid"}, Counter!set_payment_status(pay) PROVE LedgerGrows
    BY <1>1, <1>3, <2>2, LabelIs
  <2> QED
    BY <1>9, <2>1, <2>2 DEF HandStep
<1>10. CASE IdleStep
  BY <1>1, <1>3, <1>10, IdleIs
<1> QED
  BY <1>5, <1>6, <1>7, <1>8, <1>9, <1>10, CounterStepKinds

LEMMA CounterTyped ==
  ASSUME CounterAssumptions
  PROVE  /\ Counter!Init => CounterInv
         /\ CounterInv /\ [Counter!Next]_(Counter!vars) => CounterInv'
<1>1. ASSUME Counter!Init PROVE CounterInv
  <2>1. 0 \in Sums /\ 0 \in 0..MaxInvoice /\ MaxInvoice \in Nat
    BY DEF CounterAssumptions, Counter!AmountAssumption, Counter!SwitchAssumption
  <2>2. "Draft" \in Counter!Status /\ 0 \in 0..2
    BY StatusNames
  <2>3. bk \in Counter!Booking /\ bk.si = 0
    <3>1. PICK portal \in BOOLEAN : bk = Counter!Blank(portal)
      BY <1>1 DEF Counter!Init
    <3> DEFINE s == "Draft"
    <3>2. bk = [docstatus |-> 0, status |-> s, mode |-> "Cash", si |-> 0, pay |-> "Unpaid",
                charge |-> 0, portal |-> portal]
      BY <3>1 DEF Counter!Blank, Counter!NoInvoice
    <3>3. s \in Counter!Status
      BY <2>2
    <3> HIDE DEF s
    <3> QED
      BY <2>1, <2>2, <3>2, <3>3 DEF Counter!Booking
  <2>4. inv = <<>> /\ form = [f \in Form |-> {}] /\ contract \in Agreement /\ bon = FALSE
        /\ press = [p \in Press |-> Counter!NoPress]
    BY <1>1 DEF Counter!Init
  <2>5. inv \in Seq(Bill) /\ Len(inv) = 0
    <3> HIDE DEF Bill
    <3> QED
      BY <2>4
  <2>6. LinksKnown
    BY <2>3, <2>4, <2>5 DEF LinksKnown
  <2> QED
    <3>1. form \in [Form -> SUBSET Counter!Booking] /\ press \in [Press -> Sums \cup {Counter!NoPress}]
      BY <2>4
    <3>2. bon \in BOOLEAN /\ Len(inv) <= MaxInvoice
      <4>1. \A n : n = 0 => n <= MaxInvoice
        BY <2>1
      <4> HIDE DEF Bill
      <4> QED
        BY <2>4, <2>5, <4>1
    <3> QED
      BY <2>3, <2>4, <2>5, <2>6, <3>1, <3>2 DEF CounterInv, Counter!TypeOK, Bill
<1>2. ASSUME CounterInv, [Counter!Next]_(Counter!vars) PROVE CounterInv'
  <2>1. CASE Counter!Next
    <3>1. FormsMove /\ contract' \in Agreement /\ bon' \in BOOLEAN
          /\ press' \in [Press -> Sums \cup {Counter!NoPress}]
      BY <1>2, <2>1, AroundMoves
    <3>2. LedgerGrows
      BY <1>2, <2>1, LedgerMoves
    <3>3. /\ form \in [Form -> SUBSET Counter!Booking] /\ bk \in Counter!Booking
          /\ bk.si \in 0..Len(inv) /\ \A f \in Form : \A b \in form[f] : b.si \in 0..Len(inv)
      BY <1>2 DEF CounterInv, Counter!TypeOK, LinksKnown
    <3>4. Len(inv) \in Nat /\ Len(inv') \in Nat /\ Len(inv) <= Len(inv') /\ Len(inv') <= MaxInvoice
      <4>1. inv \in Seq(Bill) /\ inv' \in Seq(Bill)
        BY <1>2, <3>2 DEF CounterInv, Counter!TypeOK, Bill, LedgerGrows
      <4> HIDE DEF Bill
      <4>2. Len(inv) \in Nat /\ Len(inv') \in Nat
        BY <4>1
      <4> QED
        BY <3>2, <4>2 DEF LedgerGrows, CounterAssumptions, Counter!SwitchAssumption
    <3>5. form' \in [Form -> SUBSET Counter!Booking]
      BY <3>1, <3>3 DEF FormsMove
    <3>6. \A n \in 0..Len(inv) : n \in 0..Len(inv')
      BY <3>4
    <3>7. \A f \in Form : \A b \in form'[f] : b.si \in 0..Len(inv')
      BY <3>1, <3>3, <3>6 DEF FormsMove
    <3> QED
      BY <3>1, <3>2, <3>4, <3>5, <3>7 DEF CounterInv, Counter!TypeOK, LinksKnown, LedgerGrows, Bill
  <2>2. CASE UNCHANGED Counter!vars
    BY <1>2, <2>2 DEF Counter!vars, CounterInv, Counter!TypeOK, LinksKnown
  <2> QED
    BY <1>2, <2>1, <2>2
<1> QED
  BY <1>1, <1>2

-----------------------------------------------------------------------------
(* The bill a booking links is settled.                                    *)
BillSettled == bk.si # 0 /\ inv[bk.si].docstatus = 1 /\ inv[bk.si].paid

LEMMA SettledMeans == BillSettled <=> Counter!Settlement(bk.si) = {"Paid"} /\ bk.si # 0
BY DEF BillSettled, Counter!Settlement, Counter!NoInvoice

LEMMA KnownBill ==
  ASSUME CounterInv
  PROVE  /\ bk \in Counter!Booking /\ (bk.si # 0 => bk.si \in DOMAIN inv)
         /\ 0 \notin DOMAIN inv /\ DOMAIN inv = 1..Len(inv) /\ Len(inv) \in Nat
         /\ \A i \in DOMAIN inv : inv[i] \in Bill
<1>1. bk \in Counter!Booking /\ bk.si \in 0..Len(inv) /\ inv \in Seq(Bill)
  BY DEF CounterInv, Counter!TypeOK, LinksKnown, Bill
<1> HIDE DEF Bill
<1> QED
  BY <1>1

(* The linked bill is as settled as it was when no request touched it.     *)
LEMMA OthersMarked ==
  ASSUME CounterInv, bk'.si = bk.si,
         inv' = inv \/ \E i \in DOMAIN inv : bk.si # i /\ \E e : OneMarked(i, e)
  PROVE  BillSettled' <=> BillSettled
<1>1. bk.si # 0 => inv'[bk.si] = inv[bk.si]
  BY KnownBill, BillMarked
<1> QED
  BY <1>1 DEF BillSettled

PaidAsks == Finance /\ bk.docstatus = 1 /\ bk.mode = "Cash" /\ bk.pay = "Paid" /\ bk.charge # 0

PaidInv == PaidAsks => BillSettled

LEMMA PaidCashier ==
  ASSUME CounterAssumptions, CounterInv, PaidInv, CashierStep
  PROVE  PaidInv'
<1>1. PICK i \in DOMAIN inv : \/ Counter!SubmitInvoice(i) \/ Counter!Pay(i)
                              \/ Counter!CancelPayment(i) \/ Counter!EndInvoice(i)
  BY DEF CashierStep
<1>2. ASSUME NEW e, OneMarked(i, e), bk.si # i, bk'.si = bk.si, PaidAsks' => PaidAsks
      PROVE  PaidInv'
  BY <1>2, OthersMarked DEF PaidInv
<1>3. CASE Counter!SubmitInvoice(i)
  BY <1>2, <1>3, SubmitInvoiceIs DEF PaidInv, PaidAsks
<1>4. CASE Counter!Pay(i)
  <2>1. CASE bk.si # i
    BY <1>2, <1>4, <2>1, PayIs DEF PaidAsks
  <2>2. CASE bk.si = i
    <3> DEFINE e == [inv[i] EXCEPT !.paid = TRUE]
    <3>1. OneMarked(i, e) /\ e.docstatus = 1 /\ e.paid /\ bk'.si = i
      BY <1>4, <2>2, PayIs
    <3> HIDE DEF e
    <3>2. inv'[i] = e
      BY <3>1, BillMarked
    <3>3. i # 0
      BY KnownBill
    <3> QED
      BY <3>1, <3>2, <3>3 DEF PaidInv, BillSettled
  <2> QED
    BY <2>1, <2>2
<1>5. CASE Counter!CancelPayment(i)
  BY <1>2, <1>5, CancelPaymentIs DEF PaidInv, PaidAsks
<1>6. CASE Counter!EndInvoice(i)
  <2>1. /\ OneMarked(i, [inv[i] EXCEPT !.docstatus = 2])
        /\ bk'.docstatus = bk.docstatus /\ bk'.mode = bk.mode /\ bk'.charge = bk.charge
        /\ \/ bk'.si = bk.si /\ bk'.pay = bk.pay /\ (bk.si # i \/ bk.docstatus = 2)
           \/ bk'.pay = "Unpaid"
    BY <1>6, EndInvoiceIs
  <2>2. CASE bk'.pay = "Unpaid" \/ bk'.docstatus = 2
    BY <2>2 DEF PaidInv, PaidAsks
  <2>3. CASE bk'.si = bk.si /\ bk'.pay = bk.pay /\ bk.si # i
    BY <1>2, <2>1, <2>3 DEF PaidAsks
  <2> QED
    BY <2>1, <2>2, <2>3
<1> QED
  BY <1>1, <1>3, <1>4, <1>5, <1>6

LEMMA PaidSave ==
  ASSUME CounterAssumptions, CounterInv, PaidInv, SaveStep
  PROVE  PaidInv'
<1>1. PICK b \in Counter!Held \cup {bk}, charge \in Sums :
        \/ Counter!SaveCharges(b, charge)
        \/ \E mode \in Mode \cup {b.mode} :
             \/ Counter!SaveDraft(b, charge, mode) \/ Counter!Submit(b, charge, mode)
             \/ Counter!HoldPendingPayment(b, charge, mode)
  BY DEF SaveStep
<1>2. CASE Counter!SaveCharges(b, charge)
  <2>1. charge # 0 => charge > 0
    BY DEF CounterAssumptions, Counter!AmountAssumption
  <2> QED
    BY <1>2, <2>1, ChargesIs, OthersMarked DEF PaidInv, PaidAsks
<1>3. ASSUME NEW mode \in Mode \cup {b.mode}, Counter!SaveDraft(b, charge, mode) PROVE PaidInv'
  BY <1>3, SaveDraftIs DEF PaidInv, PaidAsks
<1>4. ASSUME NEW mode \in Mode \cup {b.mode}, Counter!Submit(b, charge, mode) PROVE PaidInv'
  <2>1. /\ inv' = inv /\ bk'.charge = charge
        /\ Finance /\ bk'.mode = "Cash" /\ charge # 0 =>
             bk'.si # 0 /\ Counter!Settlement(bk'.si) = {"Paid"}
    BY <1>4, SubmitIs
  <2>2. bk'.si # 0 /\ Counter!Settlement(bk'.si) = {"Paid"} => BillSettled'
    BY <2>1 DEF Counter!Settlement, Counter!NoInvoice, BillSettled
  <2> QED
    BY <2>1, <2>2 DEF PaidInv, PaidAsks
<1>5. ASSUME NEW mode \in Mode \cup {b.mode}, Counter!HoldPendingPayment(b, charge, mode) PROVE PaidInv'
  BY <1>5, HoldIs DEF PaidInv, PaidAsks
<1> QED
  BY <1>1, <1>2, <1>3, <1>4, <1>5

(* A Confirmed Cash booking that reads Paid is backed by a settled bill,   *)
(* whatever forms and presses overlap (on_submit, _reopen_cash_payment).   *)
THEOREM PaidStandsBacked ==
  ASSUME CounterAssumptions PROVE Counter!Spec => []Counter!PaidIsBacked
<1>1. Counter!Init => PaidInv
  BY DEF Counter!Init, Counter!Blank, PaidInv, PaidAsks
<1>2. CounterInv /\ PaidInv /\ [Counter!Next]_(Counter!vars) => PaidInv'
  <2> SUFFICES ASSUME CounterInv, PaidInv, [Counter!Next]_(Counter!vars) PROVE PaidInv'
    OBVIOUS
  <2>1. CASE SaveStep
    BY <2>1, PaidSave
  <2>2. CASE GenerateStep
    <3>1. bk'.mode = bk.mode /\ (bk'.pay = "Unpaid" \/ bk.mode = "TOP")
      BY <2>2, GenerateIs
    <3> QED
      BY <3>1 DEF PaidInv, PaidAsks
  <2>3. CASE BackStep
    <3>1. bk'.docstatus \in {0, 2} \/ bk'.pay = "Unpaid"
      BY <2>3, BackIs
    <3> QED
      BY <3>1 DEF PaidInv, PaidAsks
  <2>4. CASE CashierStep
    BY <2>4, PaidCashier
  <2>5. CASE HandStep
    <3>1. ASSUME NEW mode \in Mode, Counter!Revise(mode) PROVE PaidInv'
      <4>1. bk.charge # 0 => bk.charge > 0
        <5>1. bk.charge \in Sums
          BY KnownBill, Fields
        <5>2. \A n \in Sums : n # 0 => n > 0
          BY DEF CounterAssumptions, Counter!AmountAssumption
        <5> QED
          BY <5>1, <5>2
      <4> QED
        BY <3>1, <4>1, ReviseIs DEF PaidInv, PaidAsks
    <3>2. ASSUME NEW pay \in {"Paid", "Unpaid"}, Counter!set_payment_status(pay) PROVE PaidInv'
      BY <3>2, LabelIs DEF PaidInv, PaidAsks
    <3> QED
      BY <2>5, <3>1, <3>2 DEF HandStep
  <2>6. CASE IdleStep
    BY <2>6, IdleIs DEF PaidInv, PaidAsks, BillSettled
  <2>7. CASE UNCHANGED Counter!vars
    BY <2>7 DEF Counter!vars, PaidInv, PaidAsks, BillSettled
  <2> QED
    BY <2>1, <2>2, <2>3, <2>4, <2>5, <2>6, <2>7, CounterStepKinds
<1>3. CounterInv /\ PaidInv => Counter!PaidIsBacked
  <2> SUFFICES ASSUME CounterInv, PaidInv, Finance, bk.docstatus = 1, bk.mode = "Cash",
                      bk.pay = "Paid", bk.charge > 0
               PROVE  bk.si # 0 /\ Counter!Settlement(bk.si) = {"Paid"}
    BY DEF Counter!PaidIsBacked, Counter!NoInvoice
  <2>1. bk.charge # 0
    OBVIOUS
  <2> QED
    BY <2>1, SettledMeans DEF PaidInv, PaidAsks
<1> QED
  BY <1>1, <1>2, <1>3, CounterTyped, PTL DEF Counter!Spec

-----------------------------------------------------------------------------
(* Where neither a person nor a contract can choose TOP, every booking and *)
(* every open form says Cash.                                              *)
CashHouse == Mode \subseteq {"Cash"} /\ "TOP" \notin Agreement

AllCash == bk.mode = "Cash" /\ \A f \in Form : \A b \in form[f] : b.mode = "Cash"

LEMMA CashAgreed ==
  ASSUME CashHouse, CounterInv, NEW mode \in Mode \cup {"Cash"}
  PROVE  Counter!Agreed(mode) = "Cash"
BY DEF CashHouse, CounterInv, Counter!TypeOK, Counter!Agreed

LEMMA HouseKept ==
  ASSUME CounterAssumptions, CashHouse
  PROVE  /\ Counter!Init => AllCash
         /\ CounterInv /\ AllCash /\ [Counter!Next]_(Counter!vars) => AllCash'
<1>1. ASSUME Counter!Init PROVE AllCash
  BY <1>1 DEF Counter!Init, Counter!Blank, AllCash
<1>2. ASSUME CounterInv, AllCash, Counter!Next PROVE bk'.mode = "Cash"
  <2>1. \A b \in Counter!Held \cup {bk} : b.mode = "Cash"
    BY <1>2 DEF AllCash, Counter!Held
  <2>2. CASE SaveStep
    <3>1. PICK b \in Counter!Held \cup {bk}, charge \in Sums :
            \/ Counter!SaveCharges(b, charge)
            \/ \E mode \in Mode \cup {b.mode} :
                 \/ Counter!SaveDraft(b, charge, mode) \/ Counter!Submit(b, charge, mode)
                 \/ Counter!HoldPendingPayment(b, charge, mode)
      BY <2>2 DEF SaveStep
    <3>2. CASE Counter!SaveCharges(b, charge)
      BY <1>2, <2>1, <3>2, ChargesIs
    <3>3. ASSUME NEW mode \in Mode \cup {b.mode}, Counter!SaveDraft(b, charge, mode)
          PROVE  bk'.mode = "Cash"
      BY <1>2, <2>1, <3>3, SaveDraftIs, CashAgreed
    <3>4. ASSUME NEW mode \in Mode \cup {b.mode}, Counter!Submit(b, charge, mode)
          PROVE  bk'.mode = "Cash"
      BY <1>2, <2>1, <3>4, SubmitIs, CashAgreed
    <3>5. ASSUME NEW mode \in Mode \cup {b.mode}, Counter!HoldPendingPayment(b, charge, mode)
          PROVE  bk'.mode = "Cash"
      BY <1>2, <2>1, <3>5, HoldIs
    <3> QED
      BY <3>1, <3>2, <3>3, <3>4, <3>5
  <2>3. CASE GenerateStep
    BY <1>2, <2>1, <2>3, GenerateIs
  <2>4. CASE BackStep
    BY <1>2, <2>1, <2>4, BackIs
  <2>5. CASE CashierStep
    <3>1. PICK i \in DOMAIN inv : \/ Counter!SubmitInvoice(i) \/ Counter!Pay(i)
                                  \/ Counter!CancelPayment(i) \/ Counter!EndInvoice(i)
      BY <2>5 DEF CashierStep
    <3>2. CASE Counter!Pay(i)
      <4>1. bk'.mode = bk.mode \/ bk'.mode = Counter!Agreed(bk.mode)
        BY <1>2, <3>2, PayIs
      <4> QED
        BY <1>2, <2>1, <4>1, CashAgreed
    <3>3. CASE Counter!SubmitInvoice(i)
      BY <1>2, <2>1, <3>3, SubmitInvoiceIs
    <3>4. CASE Counter!CancelPayment(i)
      BY <1>2, <2>1, <3>4, CancelPaymentIs
    <3>5. CASE Counter!EndInvoice(i)
      BY <1>2, <2>1, <3>5, EndInvoiceIs
    <3> QED
      BY <3>1, <3>2, <3>3, <3>4, <3>5
  <2>6. CASE HandStep
    <3>1. ASSUME NEW mode \in Mode, Counter!Revise(mode) PROVE bk'.mode = "Cash"
      BY <1>2, <3>1, ReviseIs DEF CashHouse
    <3>2. ASSUME NEW pay \in {"Paid", "Unpaid"}, Counter!set_payment_status(pay) PROVE bk'.mode = "Cash"
      BY <1>2, <2>1, <3>2, LabelIs
    <3> QED
      BY <2>6, <3>1, <3>2 DEF HandStep
  <2>7. CASE IdleStep
    BY <2>1, <2>7, IdleIs
  <2> QED
    BY <1>2, <2>2, <2>3, <2>4, <2>5, <2>6, <2>7, CounterStepKinds
<1>3. ASSUME CounterInv, AllCash, Counter!Next PROVE AllCash'
  <2>1. FormsMove
    BY <1>3, AroundMoves
  <2>2. form \in [Form -> SUBSET Counter!Booking]
    BY <1>3 DEF CounterInv, Counter!TypeOK
  <2>3. \A f \in Form : \A b \in form'[f] : b.mode = "Cash"
    BY <1>3, <2>1, <2>2 DEF FormsMove, AllCash
  <2> QED
    BY <1>2, <1>3, <2>3 DEF AllCash
<1>4. ASSUME AllCash, UNCHANGED Counter!vars PROVE AllCash'
  BY <1>4 DEF AllCash, Counter!vars
<1> QED
  BY <1>1, <1>3, <1>4

(* Finance off: no bill and no press; and a Confirmed Cash booking reads   *)
(* Paid, unless Revisi Data took it out of TOP after its bon.              *)
NoBills == inv = <<>> /\ \A p \in Press : press[p] = Counter!NoPress

ManualInv ==
  /\ NoBills
  /\ bk.docstatus = 1 /\ bk.mode = "Cash" => bk.pay = "Paid" \/ (bon /\ ~CashHouse)

LEMMA ManualMoves ==
  ASSUME CounterAssumptions, ~Finance, CounterInv, ManualInv, CashHouse => AllCash,
         Counter!Next
  PROVE  ManualInv'
<1>1. DOMAIN inv = {} /\ bk.si = 0
  BY KnownBill DEF ManualInv, NoBills
<1>2. ~GenerateStep
  <2>1. ~Counter!generate_invoice /\ ~Counter!regenerate_invoice /\ ~Counter!Sweep
    BY Zenon DEF Counter!generate_invoice, Counter!MayGenerate, Counter!regenerate_invoice,
      Counter!MayRegenerate, Counter!Sweep
  <2>2. \A p \in Press : ~Counter!FinishGenerate(p)
    BY Zenon DEF Counter!FinishGenerate, ManualInv, NoBills
  <2> QED
    BY <2>1, <2>2 DEF GenerateStep
<1>3. CASE SaveStep
  <2>1. PICK b \in Counter!Held \cup {bk}, charge \in Sums :
          \/ Counter!SaveCharges(b, charge)
          \/ \E mode \in Mode \cup {b.mode} :
               \/ Counter!SaveDraft(b, charge, mode) \/ Counter!Submit(b, charge, mode)
               \/ Counter!HoldPendingPayment(b, charge, mode)
    BY <1>3 DEF SaveStep
  <2>2. press' = press /\ bon' = bon
    <3>1. Counter!Same
      BY <1>3, Zenon DEF SaveStep, Counter!SaveCharges, Counter!SaveDraft, Counter!Submit,
        Counter!HoldPendingPayment
    <3> QED
      BY <3>1 DEF Counter!Same
  <2>3. CASE Counter!SaveCharges(b, charge)
    BY <2>2, <2>3, ChargesIs DEF ManualInv, NoBills
  <2>4. ASSUME NEW mode \in Mode \cup {b.mode}, Counter!SaveDraft(b, charge, mode) PROVE ManualInv'
    BY <2>2, <2>4, SaveDraftIs DEF ManualInv, NoBills
  <2>5. ASSUME NEW mode \in Mode \cup {b.mode}, Counter!Submit(b, charge, mode) PROVE ManualInv'
    BY <2>2, <2>5, SubmitIs DEF ManualInv, NoBills
  <2>6. ASSUME NEW mode \in Mode \cup {b.mode}, Counter!HoldPendingPayment(b, charge, mode)
        PROVE  ManualInv'
    BY <2>2, <2>6, HoldIs DEF ManualInv, NoBills
  <2> QED
    BY <2>1, <2>3, <2>4, <2>5, <2>6
<1>4. CASE BackStep
  <2>1. press' = press /\ inv' = inv /\ bk'.docstatus # 1
    <3>1. Counter!Same
      BY <1>4, Zenon DEF BackStep, Counter!rollback_to_draft, Counter!cancel_draft_invoice,
        Counter!void_draft, Counter!revert_booking_to_draft, Counter!submit_request
    <3> QED
      BY <1>1, <1>4, <3>1, BackIs DEF Counter!Same
  <2> QED
    BY <2>1 DEF ManualInv, NoBills
<1>5. ~CashierStep
  BY <1>1 DEF CashierStep
<1>6. CASE HandStep
  <2>1. press' = press /\ bon' = bon
    BY <1>6 DEF HandStep, Counter!Revise, Counter!set_payment_status, Counter!Same
  <2>2. ASSUME NEW mode \in Mode, Counter!Revise(mode) PROVE ManualInv'
    <3>1. bon /\ bk'.pay = bk.pay /\ inv' = inv /\ bk'.mode = mode /\ bk.mode # mode
      BY <2>2, ReviseIs DEF Counter!Revise
    <3>2. ~CashHouse
      BY <3>1 DEF CashHouse, AllCash
    <3> QED
      BY <2>1, <3>1, <3>2 DEF ManualInv, NoBills
  <2>3. ASSUME NEW pay \in {"Paid", "Unpaid"}, Counter!set_payment_status(pay) PROVE ManualInv'
    BY <2>1, <2>3, LabelIs DEF ManualInv, NoBills
  <2> QED
    BY <1>6, <2>2, <2>3 DEF HandStep
<1>7. CASE IdleStep
  <2>1. bk' = bk /\ inv' = inv
    BY <1>7, IdleIs
  <2>2. press' = press /\ (bon => bon')
    <3>1. \A p \in Press : ~Counter!PressGenerate(p)
      BY Zenon DEF Counter!PressGenerate, Counter!MayGenerate
    <3> QED
      BY <1>7, <3>1 DEF IdleStep, Counter!make_order, Counter!NewContract, Counter!OpenForm, Counter!Same
  <2> QED
    BY <2>1, <2>2 DEF ManualInv, NoBills
<1> QED
  BY <1>2, <1>3, <1>4, <1>5, <1>6, <1>7, CounterStepKinds

LEMMA ManualHolds ==
  ASSUME CounterAssumptions, ~Finance PROVE Counter!Spec => []ManualInv
<1>1. Counter!Init => ManualInv
  BY DEF Counter!Init, Counter!Blank, ManualInv, NoBills
<1>2. CounterInv /\ (CashHouse => AllCash) /\ ManualInv /\ [Counter!Next]_(Counter!vars) => ManualInv'
  <2> SUFFICES ASSUME CounterInv, CashHouse => AllCash, ManualInv, [Counter!Next]_(Counter!vars)
               PROVE  ManualInv'
    OBVIOUS
  <2>1. CASE UNCHANGED Counter!vars
    BY <2>1 DEF Counter!vars, ManualInv, NoBills
  <2> QED
    BY <2>1, ManualMoves
<1>3. /\ Counter!Init => (CashHouse => AllCash)
      /\ CounterInv /\ (CashHouse => AllCash) /\ [Counter!Next]_(Counter!vars) => (CashHouse => AllCash)'
  BY HouseKept DEF CashHouse
<1> QED
  BY <1>1, <1>2, <1>3, CounterTyped, PTL DEF Counter!Spec

(* Finance off: until its bon is out a Confirmed Cash booking reads Paid,  *)
(* and where nobody can choose TOP it reads Paid for good                  *)
(* (_require_manual_paid, set_payment_status).                             *)
THEOREM ManualPaidStands ==
  ASSUME CounterAssumptions
  PROVE  /\ Counter!Spec => [](bon \/ Counter!ConfirmedIsPaid)
         /\ CashHouse => (Counter!Spec => []Counter!ConfirmedIsPaid)
<1>1. CASE Finance
  <2>1. Counter!ConfirmedIsPaid
    BY <1>1 DEF Counter!ConfirmedIsPaid
  <2> QED
    BY <2>1, PTL
<1>2. CASE ~Finance
  <2>1. Counter!Spec => []ManualInv
    BY <1>2, ManualHolds
  <2>2. ManualInv => (bon \/ Counter!ConfirmedIsPaid)
    BY DEF ManualInv, Counter!ConfirmedIsPaid
  <2>3. ASSUME CashHouse PROVE ManualInv => Counter!ConfirmedIsPaid
    BY <2>3 DEF ManualInv, Counter!ConfirmedIsPaid
  <2>4. Counter!Spec => [](bon \/ Counter!ConfirmedIsPaid)
    BY <2>1, <2>2, PTL
  <2>5. ASSUME CashHouse PROVE Counter!Spec => []Counter!ConfirmedIsPaid
    BY <2>1, <2>3, <2>5, PTL
  <2> QED
    BY <2>4, <2>5
<1> QED
  BY <1>1, <1>2

-----------------------------------------------------------------------------
(* One desk at a time, Cash only: a settled bill is a posted one, and a    *)
(* draft that waits for its payment has a bill still to be settled.        *)
PaidIsPosted == \A i \in DOMAIN inv : inv[i].paid => inv[i].docstatus = 1

WaitsUnsettled == bk.docstatus = 0 /\ bk.status = Unpaid => ~BillSettled

WaitingInv == PaidIsPosted /\ WaitsUnsettled

LEMMA PostedMark ==
  ASSUME CounterInv, PaidIsPosted, NEW i \in DOMAIN inv, NEW e, OneMarked(i, e),
         e.paid => e.docstatus = 1
  PROVE  PaidIsPosted'
<1>1. DOMAIN inv' = DOMAIN inv /\ inv'[i] = e /\ \A j \in DOMAIN inv \ {i} : inv'[j] = inv[j]
  BY BillMarked
<1> QED
  BY <1>1 DEF PaidIsPosted

LEMMA PostedMoves ==
  ASSUME CounterAssumptions, CounterInv, PaidIsPosted, Counter!Next
  PROVE  PaidIsPosted'
<1>1. ASSUME inv' = inv PROVE PaidIsPosted'
  BY <1>1 DEF PaidIsPosted
<1>2. CASE SaveStep
  <2>1. PICK b \in Counter!Held \cup {bk}, charge \in Sums :
          \/ Counter!SaveCharges(b, charge)
          \/ \E mode \in Mode \cup {b.mode} :
               \/ Counter!SaveDraft(b, charge, mode) \/ Counter!Submit(b, charge, mode)
               \/ Counter!HoldPendingPayment(b, charge, mode)
    BY <1>2 DEF SaveStep
  <2> QED
    BY <1>1, <2>1, ChargesIs, SaveDraftIs, SubmitIs, HoldIs
<1>3. CASE GenerateStep
  <2>1. PICK amount \in Sums, kind \in {"booking", "bill"} : inv' = Counter!Raised(amount, kind)
    BY <1>3, GenerateIs
  <2>2. Len(inv) < MaxInvoice /\ MaxInvoice \in Nat
    BY <1>3, GenerateIs DEF CounterAssumptions, Counter!SwitchAssumption
  <2> DEFINE n == Len(inv) + 1
             r == [docstatus |-> 0, paid |-> FALSE, amount |-> amount, kind |-> kind]
  <2>3. /\ DOMAIN inv' = 1..n /\ DOMAIN inv = 1..Len(inv) /\ Len(inv) \in Nat
        /\ (\A i \in DOMAIN inv : inv'[i] = inv[i]) /\ inv'[n] = r
    BY <2>1, <2>2, BillRaised
  <2>4. ~r.paid
    OBVIOUS
  <2> HIDE DEF r
  <2> QED
    BY <2>3, <2>4 DEF PaidIsPosted
<1>4. CASE BackStep
  <2>1. \/ inv' = inv
        \/ inv' = Counter!CancelledInv(bk.si) /\ bk.si \in DOMAIN inv /\ inv[bk.si].docstatus # 1
    BY <1>4, BackIs
  <2>2. CASE inv' = Counter!CancelledInv(bk.si) /\ bk.si \in DOMAIN inv /\ inv[bk.si].docstatus # 1
    <3> DEFINE e == [inv[bk.si] EXCEPT !.docstatus = 2]
    <3>1. OneMarked(bk.si, e)
      BY <2>2, Marks
    <3>2. ~e.paid
      BY <2>2, KnownBill DEF PaidIsPosted, Bill
    <3> HIDE DEF e
    <3> QED
      BY <2>2, <3>1, <3>2, PostedMark
  <2> QED
    BY <1>1, <2>1, <2>2
<1>5. CASE CashierStep
  <2>1. PICK i \in DOMAIN inv : \/ Counter!SubmitInvoice(i) \/ Counter!Pay(i)
                                \/ Counter!CancelPayment(i) \/ Counter!EndInvoice(i)
    BY <1>5 DEF CashierStep
  <2>2. CASE Counter!SubmitInvoice(i)
    <3> DEFINE e == [inv[i] EXCEPT !.docstatus = 1]
    <3>1. OneMarked(i, e) /\ e.docstatus = 1
      BY <2>2, SubmitInvoiceIs
    <3> HIDE DEF e
    <3> QED
      BY <3>1, PostedMark
  <2>3. CASE Counter!Pay(i)
    <3> DEFINE e == [inv[i] EXCEPT !.paid = TRUE]
    <3>1. OneMarked(i, e) /\ e.docstatus = 1
      BY <2>3, PayIs
    <3> HIDE DEF e
    <3> QED
      BY <3>1, PostedMark
  <2>4. CASE Counter!CancelPayment(i)
    <3> DEFINE e == [inv[i] EXCEPT !.paid = FALSE]
    <3>1. OneMarked(i, e) /\ ~e.paid
      BY <2>4, CancelPaymentIs
    <3> HIDE DEF e
    <3> QED
      BY <3>1, PostedMark
  <2>5. CASE Counter!EndInvoice(i)
    <3> DEFINE e == [inv[i] EXCEPT !.docstatus = 2]
    <3>1. OneMarked(i, e) /\ ~inv[i].paid
      BY <2>5, EndInvoiceIs
    <3>2. ~e.paid
      BY <3>1, KnownBill DEF Bill
    <3> HIDE DEF e
    <3> QED
      BY <3>1, <3>2, PostedMark
  <2> QED
    BY <2>1, <2>2, <2>3, <2>4, <2>5
<1>6. CASE HandStep
  BY <1>1, <1>6, ReviseIs, LabelIs DEF HandStep
<1>7. CASE IdleStep
  BY <1>1, <1>7, IdleIs
<1> QED
  BY <1>2, <1>3, <1>4, <1>5, <1>6, <1>7, CounterStepKinds

LEMMA WaitingMoves ==
  ASSUME CounterAssumptions, Form = {}, CounterInv, AllCash, WaitingInv, Counter!Next
  PROVE  WaitsUnsettled'
<1> USE DEF WaitingInv
<1>1. Counter!Held \cup {bk} = {bk}
  BY DEF Counter!Held
<1>2. ASSUME inv' = inv, bk'.si = bk.si, bk'.docstatus = 0 /\ bk'.status = Unpaid => ~BillSettled
      PROVE  WaitsUnsettled'
  BY <1>2, OthersMarked DEF WaitsUnsettled
<1>3. CASE SaveStep
  <2>1. PICK charge \in Sums :
          \/ Counter!SaveCharges(bk, charge)
          \/ \E mode \in Mode \cup {bk.mode} :
               \/ Counter!SaveDraft(bk, charge, mode) \/ Counter!Submit(bk, charge, mode)
               \/ Counter!HoldPendingPayment(bk, charge, mode)
    BY <1>1, <1>3 DEF SaveStep
  <2>2. CASE Counter!SaveCharges(bk, charge)
    BY <1>2, <2>2, ChargesIs DEF WaitsUnsettled
  <2>3. ASSUME NEW mode \in Mode \cup {bk.mode}, Counter!SaveDraft(bk, charge, mode)
        PROVE  WaitsUnsettled'
    <3>1. bk.docstatus = 0
      BY <2>3 DEF Counter!SaveDraft, Counter!Savable, Counter!FollowsTanks
    <3> QED
      BY <1>2, <2>3, <3>1, SaveDraftIs DEF WaitsUnsettled
  <2>4. ASSUME NEW mode \in Mode \cup {bk.mode}, Counter!Submit(bk, charge, mode)
        PROVE  WaitsUnsettled'
    BY <2>4, SubmitIs DEF WaitsUnsettled
  <2>5. ASSUME NEW mode \in Mode \cup {bk.mode}, Counter!HoldPendingPayment(bk, charge, mode)
        PROVE  WaitsUnsettled'
    <3> DEFINE v == Counter!Validated(bk, charge, mode)
    <3>1. v.si = bk.si
      BY KnownBill, ValidatedIs
    <3>2. ~Counter!MoneyIn(v) /\ Finance /\ v.si # Counter!NoInvoice
      BY <2>5, Zenon DEF Counter!HoldPendingPayment
    <3>3. Counter!Settlement(v.si) # {"Paid"}
      BY <3>2 DEF Counter!MoneyIn
    <3> HIDE DEF v
    <3>4. ~BillSettled
      BY <3>1, <3>3, SettledMeans
    <3> QED
      BY <1>2, <2>5, <3>4, HoldIs
  <2> QED
    BY <2>1, <2>2, <2>3, <2>4, <2>5
<1>4. CASE GenerateStep
  <2>1. PICK amount \in Sums, kind \in {"booking", "bill"} : inv' = Counter!Raised(amount, kind)
    BY <1>4, GenerateIs
  <2>2. Len(inv) < MaxInvoice /\ MaxInvoice \in Nat /\ bk'.si = Len(inv) + 1
    BY <1>4, GenerateIs DEF CounterAssumptions, Counter!SwitchAssumption
  <2> DEFINE r == [docstatus |-> 0, paid |-> FALSE, amount |-> amount, kind |-> kind]
  <2>3. inv'[Len(inv) + 1] = r
    BY <2>1, <2>2, BillRaised
  <2>4. ~r.paid
    OBVIOUS
  <2> HIDE DEF r
  <2> QED
    BY <2>2, <2>3, <2>4 DEF WaitsUnsettled, BillSettled
<1>5. CASE BackStep
  <2>1. bk'.status # Unpaid \/ bk'.si = 0
    BY <1>5, BackIs
  <2> QED
    BY <2>1 DEF WaitsUnsettled, BillSettled
<1>6. CASE CashierStep
  <2>1. PICK i \in DOMAIN inv : \/ Counter!SubmitInvoice(i) \/ Counter!Pay(i)
                                \/ Counter!CancelPayment(i) \/ Counter!EndInvoice(i)
    BY <1>6 DEF CashierStep
  <2>2. ASSUME NEW e, OneMarked(i, e), bk'.si = bk.si,
               bk'.docstatus = bk.docstatus, bk'.status = bk.status, bk.si # i \/ ~e.paid
        PROVE  WaitsUnsettled'
    <3>1. CASE bk.si # i
      BY <2>2, <3>1, OthersMarked DEF WaitsUnsettled
    <3>2. CASE bk.si = i /\ ~e.paid
      BY <2>2, <3>2, BillMarked DEF WaitsUnsettled, BillSettled
    <3> QED
      BY <2>2, <3>1, <3>2
  <2>3. CASE Counter!SubmitInvoice(i)
    <3> DEFINE e == [inv[i] EXCEPT !.docstatus = 1]
    <3>1. /\ OneMarked(i, e) /\ inv[i].docstatus = 0
          /\ bk'.docstatus = bk.docstatus /\ bk'.si = bk.si /\ bk'.status = bk.status
      BY <2>3, SubmitInvoiceIs
    <3>2. ~e.paid
      BY <3>1, KnownBill DEF Bill, PaidIsPosted
    <3> HIDE DEF e
    <3> QED
      BY <2>2, <3>1, <3>2
  <2>4. CASE Counter!Pay(i)
    <3>1. CASE bk.si # i
      <4>1. bk' = bk /\ OneMarked(i, [inv[i] EXCEPT !.paid = TRUE])
        BY <2>4, <3>1, PayIs
      <4> QED
        BY <2>2, <3>1, <4>1
    <3>2. CASE bk.si = i
      BY <2>4, <3>2, PayIs DEF AllCash, WaitsUnsettled
    <3> QED
      BY <3>1, <3>2
  <2>5. CASE Counter!CancelPayment(i)
    <3> DEFINE e == [inv[i] EXCEPT !.paid = FALSE]
    <3>1. /\ OneMarked(i, e) /\ ~e.paid
          /\ bk'.docstatus = bk.docstatus /\ bk'.si = bk.si /\ bk'.status = bk.status
      BY <2>5, CancelPaymentIs
    <3> HIDE DEF e
    <3> QED
      BY <2>2, <3>1
  <2>6. CASE Counter!EndInvoice(i)
    <3> DEFINE e == [inv[i] EXCEPT !.docstatus = 2]
    <3>1. /\ OneMarked(i, e) /\ ~inv[i].paid
          /\ bk'.docstatus = bk.docstatus /\ bk'.status = bk.status
          /\ bk'.si = bk.si \/ bk'.si = 0
      BY <2>6, EndInvoiceIs
    <3>2. ~e.paid
      BY <3>1, KnownBill DEF Bill
    <3> HIDE DEF e
    <3>3. CASE bk'.si = 0
      BY <3>3 DEF WaitsUnsettled, BillSettled
    <3> QED
      BY <2>2, <3>1, <3>2, <3>3
  <2> QED
    BY <2>1, <2>3, <2>4, <2>5, <2>6
<1>7. CASE HandStep
  <2>1. ASSUME NEW mode \in Mode, Counter!Revise(mode) PROVE WaitsUnsettled'
    BY <2>1, ReviseIs DEF WaitsUnsettled
  <2>2. ASSUME NEW pay \in {"Paid", "Unpaid"}, Counter!set_payment_status(pay) PROVE WaitsUnsettled'
    BY <1>2, <2>2, LabelIs DEF WaitsUnsettled
  <2> QED
    BY <1>7, <2>1, <2>2 DEF HandStep
<1>8. CASE IdleStep
  BY <1>2, <1>8, IdleIs DEF WaitsUnsettled
<1> QED
  BY <1>3, <1>4, <1>5, <1>6, <1>7, <1>8, CounterStepKinds

(* One desk at a time, Cash only: the money of a booking moves it on, so   *)
(* no draft waits in Pending Payment behind a settled bill                 *)
(* (sync_bookings_for_invoice).                                            *)
THEOREM MoneyMovesOn ==
  ASSUME CounterAssumptions, CashHouse, Form = {}
  PROVE  Counter!Spec => []Counter!NotLeftWaiting
<1>1. Counter!Init => WaitingInv
  BY DEF Counter!Init, Counter!Blank, Counter!NoInvoice, WaitingInv, PaidIsPosted, WaitsUnsettled, BillSettled
<1>2. CounterInv /\ AllCash /\ WaitingInv /\ [Counter!Next]_(Counter!vars) => WaitingInv'
  <2> SUFFICES ASSUME CounterInv, AllCash, WaitingInv, [Counter!Next]_(Counter!vars) PROVE WaitingInv'
    OBVIOUS
  <2>1. CASE Counter!Next
    BY <2>1, PostedMoves, WaitingMoves DEF WaitingInv
  <2>2. CASE UNCHANGED Counter!vars
    BY <2>2 DEF Counter!vars, WaitingInv, PaidIsPosted, WaitsUnsettled, BillSettled
  <2> QED
    BY <2>1, <2>2
<1>3. CounterInv /\ WaitingInv => Counter!NotLeftWaiting
  <2> SUFFICES ASSUME CounterInv, WaitingInv, bk.docstatus = 0, bk.status = Unpaid
               PROVE  Counter!Settlement(bk.si) # {"Paid"}
    BY Zenon DEF Counter!NotLeftWaiting, Unpaid
  <2>1. CASE bk.si = 0
    BY <2>1 DEF Counter!Settlement, Counter!NoInvoice
  <2>2. CASE bk.si # 0
    BY <2>2, SettledMeans DEF WaitingInv, WaitsUnsettled
  <2> QED
    BY <2>1, <2>2
<1> QED
  BY <1>1, <1>2, <1>3, CounterTyped, HouseKept, PTL DEF Counter!Spec

-----------------------------------------------------------------------------
(* One desk at a time, finance on: the live bill is the linked one, and it *)
(* asks what the charges say unless a draft's tanks changed behind it.     *)
LiveIsLinked ==
  \A i \in DOMAIN inv : inv[i].docstatus # 2 => bk.si = i /\ (TankEdits \/ inv[i].amount = bk.charge)

LEMMA LinkedMark ==
  ASSUME CounterInv, LiveIsLinked, NEW i \in DOMAIN inv, NEW e, OneMarked(i, e),
         bk'.charge = bk.charge,
         \/ bk'.si = bk.si /\ (e.docstatus # 2 => inv[i].docstatus # 2)
         \/ bk.si = i /\ e.docstatus = 2
  PROVE  LiveIsLinked'
<1>1. /\ DOMAIN inv' = DOMAIN inv /\ inv'[i] = e /\ \A j \in DOMAIN inv \ {i} : inv'[j] = inv[j]
      /\ e.amount = inv[i].amount
  BY BillMarked DEF OneMarked
<1> QED
  BY <1>1 DEF LiveIsLinked

LEMMA LinkedMoves ==
  ASSUME CounterAssumptions, Finance, Form = {}, Press = {}, CounterInv, LiveIsLinked, Counter!Next
  PROVE  LiveIsLinked'
<1>1. Counter!Held \cup {bk} = {bk}
  BY DEF Counter!Held
<1>2. ASSUME inv' = inv, bk'.si = bk.si, TankEdits \/ bk'.charge = bk.charge \/ bk.si = 0 PROVE LiveIsLinked'
  BY <1>2, KnownBill DEF LiveIsLinked
<1>3. CASE SaveStep
  <2>1. PICK charge \in Sums :
          \/ Counter!SaveCharges(bk, charge)
          \/ \E mode \in Mode \cup {bk.mode} :
               \/ Counter!SaveDraft(bk, charge, mode) \/ Counter!Submit(bk, charge, mode)
               \/ Counter!HoldPendingPayment(bk, charge, mode)
    BY <1>1, <1>3 DEF SaveStep
  <2>2. ASSUME Counter!Savable(bk, charge) PROVE charge = bk.charge \/ bk.si = 0
    BY <2>2 DEF Counter!Savable, Counter!ChargesOpen, Counter!NoInvoice
  <2>3. CASE Counter!SaveCharges(bk, charge)
    BY <1>2, <2>3, ChargesIs
  <2>4. ASSUME NEW mode \in Mode \cup {bk.mode}, Counter!SaveDraft(bk, charge, mode)
        PROVE  LiveIsLinked'
    <3>1. Counter!Savable(bk, charge) \/ TankEdits
      BY <2>4 DEF Counter!SaveDraft, Counter!FollowsTanks
    <3> QED
      BY <1>2, <2>2, <2>4, <3>1, SaveDraftIs
  <2>5. ASSUME NEW mode \in Mode \cup {bk.mode}, Counter!Submit(bk, charge, mode)
        PROVE  LiveIsLinked'
    BY <1>2, <2>2, <2>5, SubmitIs DEF Counter!Submit
  <2>6. ASSUME NEW mode \in Mode \cup {bk.mode}, Counter!HoldPendingPayment(bk, charge, mode)
        PROVE  LiveIsLinked'
    BY <1>2, <2>6, HoldIs
  <2> QED
    BY <2>1, <2>3, <2>4, <2>5, <2>6
<1>4. CASE GenerateStep
  <2>1. PICK amount \in Sums, kind \in {"booking", "bill"} :
          inv' = Counter!Raised(amount, kind) /\ amount = bk.charge
    BY <1>4, GenerateIs
  <2>2. /\ Len(inv) < MaxInvoice /\ MaxInvoice \in Nat
        /\ bk'.si = Len(inv) + 1 /\ bk'.charge = bk.charge
        /\ bk.si # 0 => bk.si \in DOMAIN inv /\ ~Counter!Live(bk.si)
    BY <1>4, GenerateIs DEF CounterAssumptions, Counter!SwitchAssumption
  <2> DEFINE n == Len(inv) + 1
             r == [docstatus |-> 0, paid |-> FALSE, amount |-> amount, kind |-> kind]
  <2>3. /\ DOMAIN inv' = 1..n /\ DOMAIN inv = 1..Len(inv) /\ Len(inv) \in Nat
        /\ (\A i \in DOMAIN inv : inv'[i] = inv[i]) /\ inv'[n] = r
    BY <2>1, <2>2, BillRaised
  <2>4. r.amount = amount
    OBVIOUS
  <2>5. \A i \in DOMAIN inv : inv[i].docstatus = 2
    BY <2>2, KnownBill DEF LiveIsLinked, Counter!Live
  <2> HIDE DEF r
  <2> QED
    BY <2>1, <2>2, <2>3, <2>4, <2>5 DEF LiveIsLinked
<1>5. CASE BackStep
  <2>1. /\ bk'.charge = bk.charge
        /\ \/ inv' = inv /\ bk'.si = bk.si
           \/ inv' = Counter!CancelledInv(bk.si) /\ bk.si \in DOMAIN inv
    BY <1>5, BackIs
  <2>2. CASE inv' = Counter!CancelledInv(bk.si) /\ bk.si \in DOMAIN inv
    <3> DEFINE e == [inv[bk.si] EXCEPT !.docstatus = 2]
    <3>1. OneMarked(bk.si, e)
      BY <2>2, Marks
    <3>2. e.docstatus = 2
      BY <2>2, KnownBill DEF Bill
    <3> HIDE DEF e
    <3> QED
      BY <2>1, <2>2, <3>1, <3>2, LinkedMark
  <2> QED
    BY <1>2, <2>1, <2>2
<1>6. CASE CashierStep
  <2>1. PICK i \in DOMAIN inv : \/ Counter!SubmitInvoice(i) \/ Counter!Pay(i)
                                \/ Counter!CancelPayment(i) \/ Counter!EndInvoice(i)
    BY <1>6 DEF CashierStep
  <2>2. CASE Counter!SubmitInvoice(i)
    <3> DEFINE e == [inv[i] EXCEPT !.docstatus = 1]
    <3>1. OneMarked(i, e) /\ inv[i].docstatus = 0 /\ bk'.si = bk.si /\ bk'.charge = bk.charge
      BY <2>2, SubmitInvoiceIs
    <3> HIDE DEF e
    <3> QED
      BY <3>1, LinkedMark
  <2>3. CASE Counter!Pay(i)
    <3> DEFINE e == [inv[i] EXCEPT !.paid = TRUE]
    <3>1. OneMarked(i, e) /\ inv[i].docstatus = 1 /\ bk'.si = bk.si /\ bk'.charge = bk.charge
      BY <2>3, PayIs
    <3> HIDE DEF e
    <3> QED
      BY <3>1, LinkedMark
  <2>4. CASE Counter!CancelPayment(i)
    <3> DEFINE e == [inv[i] EXCEPT !.paid = FALSE]
    <3>1. OneMarked(i, e) /\ e.docstatus = inv[i].docstatus /\ bk'.si = bk.si /\ bk'.charge = bk.charge
      BY <2>4, CancelPaymentIs
    <3> HIDE DEF e
    <3> QED
      BY <3>1, LinkedMark
  <2>5. CASE Counter!EndInvoice(i)
    <3> DEFINE e == [inv[i] EXCEPT !.docstatus = 2]
    <3>1. /\ OneMarked(i, e) /\ e.docstatus = 2 /\ bk'.charge = bk.charge
          /\ bk'.si = bk.si \/ bk.si = i
      BY <2>5, EndInvoiceIs
    <3> HIDE DEF e
    <3> QED
      BY <3>1, LinkedMark
  <2> QED
    BY <2>1, <2>2, <2>3, <2>4, <2>5
<1>7. CASE HandStep
  BY <1>2, <1>7, ReviseIs, LabelIs DEF HandStep
<1>8. CASE IdleStep
  BY <1>2, <1>8, IdleIs
<1> QED
  BY <1>3, <1>4, <1>5, <1>6, <1>7, <1>8, CounterStepKinds

(* One desk at a time, finance on: whatever is voided, reverted, raised    *)
(* again or billed, one live bill at most, the one the booking links; and, *)
(* unless tanks join or leave the draft behind it, it asks what the        *)
(* charges say (_guard_locked_charges, regenerate_invoice).                *)
THEOREM BillIsFollowed ==
  ASSUME CounterAssumptions, Finance, Form = {}, Press = {}
  PROVE  Counter!Spec => [](Counter!LiveInvoiceLinked /\ (~TankEdits => Counter!AmountFrozen))
<1>1. Counter!Init => LiveIsLinked
  BY DEF Counter!Init, LiveIsLinked
<1>2. CounterInv /\ LiveIsLinked /\ [Counter!Next]_(Counter!vars) => LiveIsLinked'
  <2>1. ASSUME LiveIsLinked, UNCHANGED Counter!vars PROVE LiveIsLinked'
    BY <2>1 DEF Counter!vars, LiveIsLinked
  <2> QED
    BY <2>1, LinkedMoves
<1>3. LiveIsLinked => Counter!LiveInvoiceLinked /\ (~TankEdits => Counter!AmountFrozen)
  BY DEF LiveIsLinked, Counter!LiveInvoiceLinked, Counter!AmountFrozen, Counter!Live
<1> QED
  BY <1>1, <1>2, <1>3, CounterTyped, PTL DEF Counter!Spec

-----------------------------------------------------------------------------
(* No form kept open: a booking the customer has handed over never returns *)
(* to the Draft no internal list shows (rollback_to_draft, submit_request).*)
THEOREM HandedOverStays ==
  ASSUME CounterAssumptions, Form = {}
  PROVE  Counter!Spec => [][Counter!HandedOverKept]_(Counter!vars)
<1>1. ASSUME CounterInv, Counter!Next PROVE Counter!HandedOverKept
  <2> SUFFICES ASSUME bk.portal, bk.status # "Draft" PROVE bk'.status # "Draft"
    BY DEF Counter!HandedOverKept
  <2>1. Counter!Held \cup {bk} = {bk}
    BY DEF Counter!Held
  <2>2. Unpaid # "Draft" /\ ToConfirm # "Draft"
    BY Zenon DEF Unpaid, ToConfirm
  <2>3. CASE SaveStep
    <3>1. PICK charge \in Sums :
            \/ Counter!SaveCharges(bk, charge)
            \/ \E mode \in Mode \cup {bk.mode} :
                 \/ Counter!SaveDraft(bk, charge, mode) \/ Counter!Submit(bk, charge, mode)
                 \/ Counter!HoldPendingPayment(bk, charge, mode)
      BY <2>1, <2>3 DEF SaveStep
    <3>2. CASE Counter!SaveCharges(bk, charge)
      BY <1>1, <3>2, ChargesIs
    <3>3. ASSUME NEW mode \in Mode \cup {bk.mode},
                 \/ Counter!SaveDraft(bk, charge, mode) \/ Counter!Submit(bk, charge, mode)
                 \/ Counter!HoldPendingPayment(bk, charge, mode)
          PROVE  bk'.status # "Draft"
      BY <1>1, <2>2, <3>3, SaveDraftIs, SubmitIs, HoldIs
    <3> QED
      BY <3>1, <3>2, <3>3
  <2>4. CASE GenerateStep
    BY <1>1, <2>2, <2>4, GenerateIs
  <2>5. CASE BackStep
    BY <1>1, <2>5, BackIs
  <2>6. CASE CashierStep
    BY <1>1, <2>2, <2>6, SubmitInvoiceIs, PayIs, CancelPaymentIs, EndInvoiceIs DEF CashierStep
  <2>7. CASE HandStep
    BY <1>1, <2>7, ReviseIs, LabelIs DEF HandStep
  <2>8. CASE IdleStep
    BY <2>8, IdleIs
  <2> QED
    BY <1>1, <2>3, <2>4, <2>5, <2>6, <2>7, <2>8, CounterStepKinds
<1>2. ASSUME CounterInv, [Counter!Next]_(Counter!vars) PROVE [Counter!HandedOverKept]_(Counter!vars)
  BY <1>1, <1>2
<1> QED
  BY <1>2, CounterTyped, PTL DEF Counter!Spec

-----------------------------------------------------------------------------
(* The desk                                                                *)

(* Whatever part is on, the deposit's variables move as the deposit moves  *)
(* them: what is proved of it holds of the desk.                           *)
THEOREM DeskKeepsDeposit == DeskSpec => Spec
<1>1. DeskInit => Init
  BY DEF DeskInit
<1>2. [DeskNext]_deskVars => [Next]_vars
  BY DEF DeskNext, DepositStep, RivalStep, BillingStep, StorageStep, BookingStep, deskVars
<1> QED
  BY <1>1, <1>2, PTL DEF DeskSpec, Spec

LEMMA PartBounds ==
  /\ Billing!Hypotheses /\ Billing!SettledOwners /\ Owners!Hypotheses
  /\ Nights!Bounds /\ ExitBills!Bounds
<1>1. Billing!Hypotheses /\ Billing!SettledOwners
  BY DEF Billing!Hypotheses, Billing!NoneAssumption, Billing!SettledOwners
<1>2. Owners!Hypotheses
  BY DEF Owners!Hypotheses, Owners!NoneAssumption
<1>3. Nights!Bounds
  BY DEF Nights!Bounds, Nights!BoundAssumption, Nights!SwitchAssumption
<1>4. ExitBills!Bounds
  BY DEF ExitBills!Bounds, ExitBills!BoundAssumption, ExitBills!SwitchAssumption
<1> QED
  BY <1>1, <1>2, <1>3, <1>4

(* The part that is on is as its own proof says.                           *)
DeskInv ==
  /\ part = "billing" => Billing!BillingInv /\ Billing!BilledToOwner
  /\ part = "owners" => Owners!BillingInv
  /\ part = "nights" => Nights!StorageInv /\ Nights!LedgerInv
  /\ part = "exitBills" => ExitBills!LedgerInv

LEMMA DeskStart == DeskInit => DeskInv
<1> SUFFICES ASSUME DeskInit PROVE DeskInv
  OBVIOUS
<1>1. part = "billing" => Billing!BillingInv /\ Billing!BilledToOwner
  BY PartBounds, Billing!BillingStart, Billing!OwnersStart DEF DeskInit
<1>2. part = "owners" => Owners!BillingInv
  BY PartBounds, Owners!BillingStart DEF DeskInit
<1>3. part = "nights" => Nights!StorageInv /\ Nights!LedgerInv
  BY PartBounds, Nights!InvInit, Nights!LedgerInit DEF DeskInit
<1>4. part = "exitBills" => ExitBills!LedgerInv
  BY PartBounds, ExitBills!LedgerInit DEF DeskInit
<1> QED
  BY <1>1, <1>2, <1>3, <1>4 DEF DeskInv

(* The desk's step is a step of the part that is on, or none.              *)
LEMMA PartMoves ==
  ASSUME [DeskNext]_deskVars
  PROVE  /\ part' = part
         /\ part = "billing" => [Billing!Next]_(Billing!vars)
         /\ part = "owners" => [Owners!Next]_(Owners!vars)
         /\ part = "nights" => [Nights!Next]_(Nights!vars)
         /\ part = "exitBills" => [ExitBills!Next]_(ExitBills!vars)
<1>1. CASE DeskNext
  BY <1>1 DEF DeskNext, DepositStep, RivalStep, BillingStep, StorageStep, BookingStep
<1>2. CASE UNCHANGED deskVars
  BY <1>2 DEF deskVars, orders, storage, Billing!vars, Owners!vars, Nights!vars, ExitBills!vars
<1> QED
  BY <1>1, <1>2

LEMMA DeskMoves == DeskInv /\ [DeskNext]_deskVars => DeskInv'
<1> SUFFICES ASSUME DeskInv, [DeskNext]_deskVars PROVE DeskInv'
  OBVIOUS
<1>1. part = "billing" => (Billing!BillingInv /\ Billing!BilledToOwner)'
  BY PartBounds, PartMoves, Billing!BillingStep, Billing!OwnersStep DEF DeskInv
<1>2. part = "owners" => Owners!BillingInv'
  BY PartBounds, PartMoves, Owners!BillingStep DEF DeskInv
<1>3. part = "nights" => (Nights!StorageInv /\ Nights!LedgerInv)'
  BY PartBounds, PartMoves, Nights!InvStep, Nights!LedgerStep DEF DeskInv
<1>4. part = "exitBills" => ExitBills!LedgerInv'
  BY PartBounds, PartMoves, ExitBills!LedgerStep DEF DeskInv
<1>5. part' = part
  BY PartMoves
<1> QED
  BY <1>1, <1>2, <1>3, <1>4, <1>5 DEF DeskInv

LEMMA DeskHolds == DeskSpec => []DeskInv
<1>1. DeskInv /\ [DeskNext]_deskVars => DeskInv'
  BY DeskMoves
<1> QED
  BY <1>1, DeskStart, PTL DEF DeskSpec

(* No work order is charged twice in one currency, and no day of a stay    *)
(* twice where a visit's invoices are undone and picked again newest first,*)
(* whichever part of the desk is on (collect_orders, plan_bill).           *)
THEOREM DeskBillsOnce == DeskSpec => []NothingBilledTwice
<1> SUFFICES ASSUME DeskInv PROVE NothingBilledTwice
  BY DeskHolds, PTL
<1>1. part = "billing" => Billing!NoDoubleBill
  BY PartBounds, Billing!BilledAsMeant DEF DeskInv
<1>2. part = "owners" => Owners!NoDoubleBill
  BY PartBounds, Owners!BilledAsMeant DEF DeskInv
<1>3. part = "nights" => Nights!NoDayTwice
  BY PartBounds, Nights!ChainIsApart DEF DeskInv
<1> QED
  BY <1>1, <1>2, <1>3 DEF NothingBilledTwice

(* An order's link names an invoice that bills it, a rollback gives back   *)
(* what was charged, billed work stands finished, and finished work of an  *)
(* owner who keeps it is billed or can be (_mark_invoiced, restore_link).  *)
THEOREM DeskLinksAgree == DeskSpec => []LinksAgree
<1> SUFFICES ASSUME DeskInv PROVE LinksAgree
  BY DeskHolds, PTL
<1>1. part = "billing" => /\ Billing!TypeOK /\ Billing!LinkAgrees /\ Billing!ManifestIsLines
                          /\ Billing!BilledIsFinished /\ Billing!NothingLost
  BY PartBounds, Billing!BilledAsMeant, Billing!NothingIsLost DEF DeskInv
<1>2. part = "owners" => Owners!TypeOK /\ Owners!LinkAgrees /\ Owners!ManifestIsLines /\ Owners!BilledIsFinished
  BY PartBounds, Owners!BilledAsMeant DEF DeskInv
<1> QED
  BY <1>1, <1>2 DEF LinksAgree

(* What a storage row shows as billed and as owing splits its stay, its    *)
(* watermark is the end of the invoice it names, and, where a visit's      *)
(* invoices go newest first, of all its standing ones (upsert, _give_back, *)
(* _refill).                                                               *)
THEOREM DeskLedgerAddsUp == DeskSpec => []LedgerAddsUp
<1> SUFFICES ASSUME DeskInv PROVE LedgerAddsUp
  BY DeskHolds, PTL
<1>1. part = "nights" => Nights!TypeOK /\ Nights!WatermarkAgrees /\ Nights!DaysAddUp /\ Nights!LastNamed
  BY PartBounds, Nights!ChainIsWatermark, Nights!LedgerIs DEF DeskInv
<1>2. part = "exitBills" => ExitBills!TypeOK /\ ExitBills!DaysAddUp /\ ExitBills!LastNamed
  BY PartBounds, ExitBills!LedgerIs DEF DeskInv
<1> QED
  BY <1>1, <1>2 DEF LedgerAddsUp
=============================================================================
