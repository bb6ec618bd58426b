---------------------------- MODULE BillingProofs ----------------------------
(***************************************************************************)
(* Finished orders against the invoices that bill them, while requests     *)
(* follow one another: no unit is on two invoices, an order's link is the  *)
(* truth about all of them.  The guard that makes it so, AlreadyBilled,    *)
(* reads the manifests of one customer and the link; OneOwner is why that  *)
(* is enough though a tank may change hands while one currency is billed.  *)
(***************************************************************************)
EXTENDS ConsolidatedBilling, FiniteSetTheorems, TLAPS

OrderRec ==
  [stage : {"open", "done", "gone"}, owner : Customer, worth : SUBSET Ccy, link : Invoice \cup {None}]

InvoiceRec ==
  [stage : {"none", "draft", "submitted", "void"}, customer : Customer \cup {None},
   manifest : SUBSET Unit, lines : SUBSET Unit, typed : BOOLEAN]

(* Does invoice i bill order o?                                            *)
Bills(i, o) == \E u \in invoice[i].manifest : u[1] = o

Typed ==
  /\ order \in [Order -> OrderRec] /\ invoice \in [Invoice -> InvoiceRec]
  /\ \A i \in Invoice : invoice[i].stage \in {"draft", "submitted"} => invoice[i].customer # None
  /\ terms \in [Customer -> Terms]
  /\ run \in [Run -> [customer : Customer \cup {None}, take : SUBSET Unit]]
  /\ opening \subseteq Order

(* Only an invoice that stands has a manifest, and it is its lines.        *)
ManifestsStand ==
  \A i \in Invoice : /\ invoice[i].manifest = invoice[i].lines
                     /\ invoice[i].stage \notin {"draft", "submitted"} => invoice[i].manifest = {}

Apart == \A i, j \in Invoice : i # j => invoice[i].manifest \cap invoice[j].manifest = {}

(* The invoices that bill one order are one customer's.                    *)
OneOwner ==
  \A i, j \in Invoice, o \in Order : Bills(i, o) /\ Bills(j, o) => invoice[i].customer = invoice[j].customer

Finished ==
  \A i \in Invoice : \A u \in invoice[i].manifest :
    order[u[1]].stage = "done" /\ u[2] \in order[u[1]].worth

LinkFits(o) ==
  /\ order[o].link = None => \A i \in Invoice : ~Bills(i, o)
  /\ order[o].link # None => \E i \in Invoice : order[o].link = i /\ Bills(i, o)

LinksFit == \A o \in Order : order[o].stage # "gone" => LinkFits(o)

(* One request at a time, and what it has read is still so.                *)
RunsAlone ==
  \A r \in Run : run[r] # NotRunning =>
    /\ \A q \in Run : run[q] # NotRunning => q = r
    /\ opening = {}
    /\ \E k \in Customer : run[r].customer = k /\ run[r].take \subseteq Collected(k)

LoadedIsUnbilled == \A o \in opening : order[o].stage = "done" /\ order[o].link = None

BillingInv ==
  Typed /\ ManifestsStand /\ Apart /\ OneOwner /\ Finished /\ LinksFit /\ RunsAlone /\ LoadedIsUnbilled

Hypotheses == NoneAssumption /\ Overlap = FALSE

-----------------------------------------------------------------------------
(* The orders of a set of units.                                           *)
LEMMA OrdersAre == ASSUME NEW us, NEW o PROVE o \in Orders(us) <=> \E u \in us : u[1] = o
BY DEF Orders

(* A unit that can be collected for a customer is on no invoice, and       *)
(* whoever bills its order bills it to that customer.                      *)
LEMMA CollectedIsFresh ==
  ASSUME BillingInv, Hypotheses, NEW k \in Customer, NEW u \in Collected(k)
  PROVE  /\ u \in Unit /\ u[1] \in Order /\ order[u[1]].stage = "done" /\ u[2] \in order[u[1]].worth
         /\ order[u[1]].owner = k
         /\ \A j \in Invoice : u \notin invoice[j].manifest /\ (Bills(j, u[1]) => invoice[j].customer = k)
<1>1. /\ u \in Unit /\ order[u[1]].stage = "done" /\ order[u[1]].owner = k
      /\ u[2] \in order[u[1]].worth /\ ~AlreadyBilled(k, u)
  BY DEF Collected
<1>2. u[1] \in Order
  BY <1>1 DEF Unit
<1>3. u \notin BilledPairs(k) /\ (order[u[1]].link = None \/ u[1] \in Orders(BilledPairs(k)))
  BY <1>1 DEF AlreadyBilled
<1>4. LinkFits(u[1])
  BY <1>1, <1>2 DEF BillingInv, LinksFit
<1>5. ASSUME NEW j \in Invoice, Bills(j, u[1]) PROVE invoice[j].customer = k
  <2>1. order[u[1]].link # None
    BY <1>4, <1>5 DEF LinkFits
  <2>2. u[1] \in Orders(BilledPairs(k))
    BY <1>3, <2>1
  <2>3. PICK w \in BilledPairs(k) : w[1] = u[1]
    BY <2>2, OrdersAre
  <2>4. PICK i \in Invoice : invoice[i].customer = k /\ w \in invoice[i].manifest
    BY DEF BilledPairs
  <2>5. Bills(i, u[1])
    BY <2>3, <2>4 DEF Bills
  <2> QED
    BY <1>2, <1>5, <2>4, <2>5 DEF BillingInv, OneOwner
<1>6. ASSUME NEW j \in Invoice PROVE u \notin invoice[j].manifest
  <2> SUFFICES ASSUME u \in invoice[j].manifest PROVE FALSE
    OBVIOUS
  <2>1. Bills(j, u[1])
    BY DEF Bills
  <2>2. invoice[j].customer = k
    BY <1>5, <2>1
  <2> QED
    BY <1>3, <2>2 DEF BilledPairs
<1> QED
  BY <1>1, <1>2, <1>5, <1>6

(* An order not yet finished, and one that is done but has no link, is on  *)
(* no invoice.                                                             *)
LEMMA OpenIsUnbilled ==
  ASSUME BillingInv, NEW o \in Order, order[o].stage = "open"
  PROVE  order[o].link = None
<1>1. LinkFits(o)
  BY DEF BillingInv, LinksFit
<1>2. order[o].link \in Invoice \cup {None}
  BY DEF BillingInv, Typed, OrderRec
<1> QED
  <2> SUFFICES ASSUME order[o].link # None PROVE FALSE
    OBVIOUS
  <2>1. order[o].link \in Invoice /\ Bills(order[o].link, o)
    BY <1>1, <1>2 DEF LinkFits
  <2>2. PICK u \in invoice[order[o].link].manifest : u[1] = o
    BY <2>1 DEF Bills
  <2> QED
    BY <2>1, <2>2 DEF BillingInv, Finished

(* While nothing is under way no request holds what it read.               *)
LEMMA QuietMeans ==
  ASSUME Hypotheses, Quiet
  PROVE  opening = {} /\ \A r \in Run : run[r] = NotRunning
BY DEF Quiet, Hypotheses

-----------------------------------------------------------------------------
(* The orders' own steps: what is billed keeps its stage, charge and link, *)
(* what is not stays without a link.                                       *)
LEMMA OrdersMove ==
  ASSUME BillingInv, UNCHANGED invoice, order' \in [Order -> OrderRec],
         \A o \in Order :
           \/ /\ order'[o].stage = order[o].stage /\ order'[o].worth = order[o].worth
              /\ order'[o].link = order[o].link
           \/ order[o].link = None /\ order[o].stage # "gone" /\ order'[o].link = None
  PROVE  ManifestsStand' /\ Apart' /\ OneOwner' /\ Finished' /\ LinksFit'
<1>1. ManifestsStand' /\ Apart'
  BY DEF BillingInv, ManifestsStand, Apart
<1>2. \A i, o : Bills(i, o)' <=> Bills(i, o)
  BY DEF Bills
<1>3. OneOwner'
  BY <1>2 DEF BillingInv, OneOwner
<1>4. Finished'
  <2> SUFFICES ASSUME NEW i \in Invoice, NEW u \in invoice[i].manifest
               PROVE  order'[u[1]].stage = "done" /\ u[2] \in order'[u[1]].worth
    BY DEF Finished
  <2>1. order[u[1]].stage = "done" /\ u[2] \in order[u[1]].worth
    BY DEF BillingInv, Finished
  <2>2. u[1] \in Order
    BY DEF BillingInv, Typed, InvoiceRec, Unit
  <2>3. Bills(i, u[1])
    BY DEF Bills
  <2>4. order[u[1]].link # None
    BY <2>1, <2>2, <2>3 DEF BillingInv, LinksFit, LinkFits
  <2> QED
    BY <2>1, <2>2, <2>4
<1>5. LinksFit'
  <2> SUFFICES ASSUME NEW o \in Order, order'[o].stage # "gone" PROVE LinkFits(o)'
    BY DEF LinksFit
  <2>1. order[o].stage # "gone" /\ order'[o].link = order[o].link
    OBVIOUS
  <2>2. LinkFits(o)
    BY <2>1 DEF BillingInv, LinksFit
  <2> QED
    BY <1>2, <2>1, <2>2 DEF LinkFits
<1> QED
  BY <1>1, <1>3, <1>4, <1>5

(* An order is worked on, corrected, opened again, deleted or moves with   *)
(* its tank.                                                               *)
LEMMA OrderKeeps ==
  ASSUME BillingInv, Hypotheses, NEW o \in Order,
         \/ /\ Quiet
            /\ \/ Finish(o) \/ EditOrder(o) \/ Revise(o) \/ LoadReopen(o) \/ DeleteOrder(o)
               \/ \E k \in Customer : Transfer(o, k)
         \/ SaveReopen(o)
  PROVE  BillingInv'
<1>1. UNCHANGED <<invoice, terms, run>>
  BY DEF Finish, EditOrder, Revise, LoadReopen, DeleteOrder, Transfer, SaveReopen
<1>2. order \in [Order -> OrderRec]
  BY DEF BillingInv, Typed
<1>3. PICK rec \in OrderRec :
        /\ order' = [order EXCEPT ![o] = rec]
        /\ \/ rec.stage = order[o].stage /\ rec.worth = order[o].worth /\ rec.link = order[o].link
           \/ order[o].link = None /\ order[o].stage # "gone" /\ rec.link = None
  <2>1. CASE Finish(o)
    <3>1. order[o].link = None /\ order[o].stage = "open"
      BY <2>1, OpenIsUnbilled DEF Finish
    <3>2. [order[o] EXCEPT !.stage = "done"] \in OrderRec
      BY <1>2 DEF OrderRec
    <3> QED
      BY <1>2, <2>1, <3>1, <3>2 DEF Finish, OrderRec
  <2>2. ASSUME EditOrder(o) \/ Revise(o)
        PROVE  \E rec \in OrderRec :
                 /\ order' = [order EXCEPT ![o] = rec]
                 /\ order[o].link = None /\ order[o].stage # "gone" /\ rec.link = None
    <3>1. order[o].link = None /\ order[o].stage # "gone"
      BY <2>2, OpenIsUnbilled DEF EditOrder, Revise
    <3>2. PICK w \in SUBSET Ccy : order' = [order EXCEPT ![o].worth = w]
      BY <2>2 DEF EditOrder, Revise
    <3>3. [order[o] EXCEPT !.worth = w] \in OrderRec /\ [order[o] EXCEPT !.worth = w].link = order[o].link
      BY <1>2 DEF OrderRec
    <3> QED
      BY <3>1, <3>2, <3>3
  <2>3. CASE LoadReopen(o)
    BY <1>2, <2>3 DEF LoadReopen
  <2>4. CASE DeleteOrder(o)
    <3>1. [order[o] EXCEPT !.stage = "gone"] \in OrderRec /\ [order[o] EXCEPT !.stage = "gone"].link = order[o].link
      BY <1>2 DEF OrderRec
    <3> QED
      BY <2>4, <3>1 DEF DeleteOrder
  <2>5. ASSUME NEW k \in Customer, Transfer(o, k)
        PROVE  \E rec \in OrderRec :
                 /\ order' = [order EXCEPT ![o] = rec]
                 /\ rec.stage = order[o].stage /\ rec.worth = order[o].worth /\ rec.link = order[o].link
    <3> DEFINE rec == [order[o] EXCEPT !.owner = k]
    <3>1. rec \in OrderRec /\ rec.stage = order[o].stage /\ rec.worth = order[o].worth /\ rec.link = order[o].link
      BY <1>2 DEF OrderRec
    <3>2. order' = [order EXCEPT ![o] = rec]
      BY <2>5 DEF Transfer
    <3> HIDE DEF rec
    <3> QED
      BY <3>1, <3>2
  <2>6. CASE SaveReopen(o)
    <3> DEFINE rec == [order[o] EXCEPT !.stage = "open", !.link = None]
    <3>1. rec \in OrderRec /\ rec.link = None
      BY <1>2 DEF OrderRec
    <3>2. order' = [order EXCEPT ![o] = rec]
      BY <1>2, <2>6 DEF SaveReopen, OrderRec
    <3>3. order[o].stage = "done" /\ order[o].link = None
      BY <2>6 DEF SaveReopen, BillingInv, LoadedIsUnbilled
    <3> HIDE DEF rec
    <3> QED
      BY <3>1, <3>2, <3>3
  <2> QED
    BY <2>1, <2>2, <2>3, <2>4, <2>5, <2>6
<1>4. order' \in [Order -> OrderRec] /\ order'[o] = rec /\ \A x \in Order : x # o => order'[x] = order[x]
  BY <1>2, <1>3
<1>5. \A x \in Order :
        \/ /\ order'[x].stage = order[x].stage /\ order'[x].worth = order[x].worth
           /\ order'[x].link = order[x].link
        \/ order[x].link = None /\ order[x].stage # "gone" /\ order'[x].link = None
  BY <1>3, <1>4
<1>6. ManifestsStand' /\ Apart' /\ OneOwner' /\ Finished' /\ LinksFit'
  BY <1>1, <1>4, <1>5, OrdersMove
<1>7. \A r \in Run : run[r] = NotRunning
  <2>1. CASE Quiet
    BY <2>1, QuietMeans
  <2>2. CASE SaveReopen(o)
    BY <2>2 DEF SaveReopen, BillingInv, RunsAlone
  <2> QED
    BY <2>1, <2>2
<1>8. RunsAlone'
  BY <1>1, <1>7 DEF RunsAlone
<1>9. opening' \subseteq Order /\ LoadedIsUnbilled'
  <2>1. CASE SaveReopen(o)
    BY <1>4, <2>1 DEF SaveReopen, BillingInv, LoadedIsUnbilled, Typed
  <2>2. CASE LoadReopen(o) /\ Quiet
    BY <2>2, QuietMeans DEF LoadReopen, LoadedIsUnbilled
  <2>3. ASSUME Quiet, ~LoadReopen(o) PROVE opening' = {}
    BY <2>3, QuietMeans DEF Finish, EditOrder, Revise, DeleteOrder, Transfer, SaveReopen
  <2> QED
    BY <2>1, <2>2, <2>3 DEF LoadedIsUnbilled
<1>10. Typed'
  BY <1>1, <1>4, <1>9 DEF BillingInv, Typed
<1> QED
  BY <1>6, <1>8, <1>9, <1>10 DEF BillingInv

-----------------------------------------------------------------------------
(* Invoices.                                                               *)

(* Where no order, manifest or customer of an invoice changes, nothing that*)
(* is billed does.                                                         *)
LEMMA ManifestsStill ==
  ASSUME BillingInv, UNCHANGED order,
         \A i \in Invoice : /\ invoice'[i].manifest = invoice[i].manifest
                            /\ invoice'[i].customer = invoice[i].customer
  PROVE  Apart' /\ OneOwner' /\ Finished' /\ LinksFit'
<1>1. \A i \in Invoice : \A o : Bills(i, o)' <=> Bills(i, o)
  BY DEF Bills
<1>2. Apart' /\ OneOwner' /\ Finished'
  BY <1>1 DEF BillingInv, Apart, OneOwner, Finished
<1>3. LinksFit'
  <2> SUFFICES ASSUME NEW o \in Order, order[o].stage # "gone" PROVE LinkFits(o)'
    BY DEF LinksFit
  <2>1. LinkFits(o) /\ order[o].link \in Invoice \cup {None}
    BY DEF BillingInv, LinksFit, Typed, OrderRec
  <2> QED
    BY <1>1, <2>1 DEF LinkFits
<1> QED
  BY <1>2, <1>3

(* A customer's terms change; a request by hand collects.                  *)
LEMMA DeskKeeps ==
  ASSUME BillingInv, Hypotheses, Quiet,
         NEW k \in Customer, Recontract(k) \/ \E r \in Run : Collect(r, k)
  PROVE  BillingInv'
<1>1. UNCHANGED <<order, invoice, opening>> /\ opening = {} /\ \A r \in Run : run[r] = NotRunning
  BY QuietMeans DEF Recontract, Collect
<1>2. ManifestsStand'
  BY <1>1 DEF BillingInv, ManifestsStand
<1>3. Apart' /\ OneOwner' /\ Finished' /\ LinksFit'
  BY <1>1, ManifestsStill
<1>4. LoadedIsUnbilled'
  BY <1>1 DEF LoadedIsUnbilled
<1>5. CASE Recontract(k)
  <2>1. PICK t \in Terms : terms' = [terms EXCEPT ![k] = t]
    BY <1>5 DEF Recontract
  <2>2. terms' \in [Customer -> Terms] /\ run' = run
    BY <1>5, <2>1 DEF Recontract, BillingInv, Typed
  <2>3. Typed'
    BY <1>1, <2>2 DEF BillingInv, Typed
  <2>4. RunsAlone'
    BY <1>1, <2>2 DEF RunsAlone
  <2> QED
    BY <1>2, <1>3, <1>4, <2>3, <2>4 DEF BillingInv
<1>6. ASSUME NEW r \in Run, Collect(r, k) PROVE BillingInv'
  <2>1. PICK take \in SUBSET Collected(k) : run' = [run EXCEPT ![r] = [customer |-> k, take |-> take]]
    BY <1>6 DEF Collect
  <2>2. take \in SUBSET Unit
    BY DEF Collected
  <2>3. /\ run' \in [Run -> [customer : Customer \cup {None}, take : SUBSET Unit]]
        /\ run'[r] = [customer |-> k, take |-> take] /\ \A q \in Run : q # r => run'[q] = run[q]
    BY <2>1, <2>2 DEF BillingInv, Typed
  <2>4. Typed'
    BY <1>1, <1>6, <2>3 DEF BillingInv, Typed, Collect
  <2>5. Collected(k)' = Collected(k)
    BY <1>1 DEF Collected, AlreadyBilled, BilledPairs
  <2>6. RunsAlone'
    <3> SUFFICES ASSUME NEW q \in Run, run'[q] # NotRunning
                 PROVE  /\ \A p \in Run : run'[p] # NotRunning => p = q
                        /\ opening' = {}
                        /\ \E c \in Customer : run'[q].customer = c /\ run'[q].take \subseteq Collected(c)'
      BY DEF RunsAlone
    <3>1. q = r /\ \A p \in Run : run'[p] # NotRunning => p = r
      BY <1>1, <2>3
    <3>2. run'[q].customer = k /\ run'[q].take = take
      BY <2>3, <3>1
    <3> QED
      BY <1>1, <2>5, <3>1, <3>2
  <2> QED
    BY <1>2, <1>3, <1>4, <2>4, <2>6 DEF BillingInv
<1> QED
  BY <1>5, <1>6

(* An invoice is saved on its own form, or submitted.                      *)
LEMMA DraftFormKeeps ==
  ASSUME BillingInv, Hypotheses, Quiet, NEW i \in Invoice, EditDraft(i) \/ Submit(i)
  PROVE  BillingInv'
<1>1. /\ UNCHANGED <<order, terms, run, opening>> /\ opening = {} /\ \A r \in Run : run[r] = NotRunning
      /\ invoice[i].stage = "draft"
  BY QuietMeans DEF EditDraft, Submit
<1>2. invoice \in [Invoice -> InvoiceRec]
  BY DEF BillingInv, Typed
<1>3. PICK rec \in InvoiceRec : /\ invoice' = [invoice EXCEPT ![i] = rec]
                                /\ rec.stage \in {"draft", "submitted"} /\ rec.customer = invoice[i].customer
                                /\ rec.manifest = invoice[i].manifest /\ rec.lines = invoice[i].lines
  <2>1. CASE EditDraft(i)
    <3> DEFINE rec == [invoice[i] EXCEPT !.typed = ~@]
    <3>1. /\ rec \in InvoiceRec /\ rec.stage = "draft" /\ rec.customer = invoice[i].customer
          /\ rec.manifest = invoice[i].manifest /\ rec.lines = invoice[i].lines
      BY <1>1, <1>2 DEF InvoiceRec
    <3>2. invoice' = [invoice EXCEPT ![i] = rec]
      BY <2>1 DEF EditDraft
    <3> HIDE DEF rec
    <3> QED
      BY <3>1, <3>2
  <2>2. CASE Submit(i)
    <3> DEFINE rec == [invoice[i] EXCEPT !.stage = "submitted"]
    <3>1. /\ rec \in InvoiceRec /\ rec.stage = "submitted" /\ rec.customer = invoice[i].customer
          /\ rec.manifest = invoice[i].manifest /\ rec.lines = invoice[i].lines
      BY <1>2 DEF InvoiceRec
    <3>2. invoice' = [invoice EXCEPT ![i] = rec]
      BY <2>2 DEF Submit
    <3> HIDE DEF rec
    <3> QED
      BY <3>1, <3>2
  <2> QED
    BY <2>1, <2>2
<1>4. /\ invoice' \in [Invoice -> InvoiceRec] /\ invoice'[i] = rec
      /\ \A j \in Invoice : j # i => invoice'[j] = invoice[j]
  BY <1>2, <1>3
<1>5. \A j \in Invoice : /\ invoice'[j].manifest = invoice[j].manifest
                         /\ invoice'[j].customer = invoice[j].customer
  BY <1>3, <1>4
<1>6. Apart' /\ OneOwner' /\ Finished' /\ LinksFit'
  BY <1>1, <1>5, ManifestsStill
<1>7. ManifestsStand'
  BY <1>3, <1>4 DEF BillingInv, ManifestsStand
<1>8. \A j \in Invoice : invoice'[j].stage \in {"draft", "submitted"} => invoice'[j].customer # None
  BY <1>1, <1>3, <1>4 DEF BillingInv, Typed
<1>9. Typed'
  BY <1>1, <1>4, <1>8 DEF BillingInv, Typed
<1>10. RunsAlone' /\ LoadedIsUnbilled'
  BY <1>1 DEF RunsAlone, LoadedIsUnbilled
<1> QED
  BY <1>6, <1>7, <1>9, <1>10 DEF BillingInv

-----------------------------------------------------------------------------
(* An order given back by invoice i is named by another that bills it, and *)
(* by none only when there is none: all of them are of i's customer.       *)
LEMMA GivenBackLinks ==
  ASSUME BillingInv, Hypotheses, NEW i \in Invoice, NEW os
  PROVE  /\ GivenBack(os, i) \in [Order -> OrderRec]
         /\ \A o \in Order :
              LET given == GivenBack(os, i)[o]
              IN  /\ given.stage = order[o].stage /\ given.worth = order[o].worth
                  /\ o \notin os => given.link = order[o].link
                  /\ o \in os /\ order[o].stage # "gone" /\ Bills(i, o) =>
                       /\ given.link = None => \A j \in Invoice \ {i} : ~Bills(j, o)
                       /\ given.link # None => given.link \in Invoice \ {i} /\ Bills(given.link, o)
<1>1. order \in [Order -> OrderRec]
  BY DEF BillingInv, Typed
<1>2. \A o \in Order : Survivor(o, i) \in (Invoice \ {i}) \cup {None}
  BY DEF Survivor, OtherInvoices
<1>3. \A o \in Order : [order[o] EXCEPT !.link = Survivor(o, i)] \in OrderRec
  BY <1>1, <1>2 DEF OrderRec
<1>4. \A o \in Order :
        GivenBack(os, i)[o] = IF o \in os /\ order[o].stage # "gone"
                              THEN [order[o] EXCEPT !.link = Survivor(o, i)] ELSE order[o]
  BY DEF GivenBack
<1>5. GivenBack(os, i) \in [Order -> OrderRec]
  BY <1>1, <1>3 DEF GivenBack
<1>6. ASSUME NEW o \in Order, Bills(i, o)
      PROVE  /\ Survivor(o, i) = None => \A j \in Invoice \ {i} : ~Bills(j, o)
             /\ Survivor(o, i) # None => Survivor(o, i) \in Invoice \ {i} /\ Bills(Survivor(o, i), o)
  <2>1. OtherInvoices(o, i) = {j \in Invoice \ {i} : Bills(j, o)}
    <3>1. \A j \in Invoice : o \in Orders(invoice[j].manifest) <=> Bills(j, o)
      BY OrdersAre DEF Bills
    <3>2. \A j \in Invoice : Bills(j, o) => invoice[j].customer = invoice[i].customer
      BY <1>6 DEF BillingInv, OneOwner
    <3> QED
      BY <3>1, <3>2 DEF OtherInvoices
  <2>2. CASE OtherInvoices(o, i) = {}
    BY <2>1, <2>2 DEF Survivor
  <2>3. CASE OtherInvoices(o, i) # {}
    <3>1. Survivor(o, i) \in OtherInvoices(o, i)
      BY <2>3 DEF Survivor
    <3>2. None \notin Invoice
      BY DEF Hypotheses, NoneAssumption
    <3> QED
      BY <2>1, <3>1, <3>2
  <2> QED
    BY <2>2, <2>3
<1>7. \A o \in Order :
        LET given == GivenBack(os, i)[o]
        IN  /\ given.stage = order[o].stage /\ given.worth = order[o].worth
            /\ o \notin os => given.link = order[o].link
            /\ o \in os /\ order[o].stage # "gone" => given.link = Survivor(o, i)
  BY <1>1, <1>4 DEF OrderRec
<1> QED
  BY <1>5, <1>6, <1>7

(* What invoices gain was collected for their own customer just now, and   *)
(* no order goes to two of them.                                           *)
LEMMA OnlyFreshAdded ==
  ASSUME BillingInv, Hypotheses,
         \A i \in Invoice : \A u \in invoice'[i].manifest :
           \/ u \in invoice[i].manifest /\ invoice'[i].customer = invoice[i].customer
           \/ invoice'[i].customer \in Customer /\ u \in Collected(invoice'[i].customer),
         \A i, j \in Invoice : i # j =>
           \A u \in invoice'[i].manifest : u \in invoice'[j].manifest =>
             u \in invoice[i].manifest \/ u \in invoice[j].manifest
  PROVE  /\ Apart' /\ OneOwner'
         /\ \A i \in Invoice : \A u \in invoice'[i].manifest :
              u[1] \in Order /\ order[u[1]].stage = "done" /\ u[2] \in order[u[1]].worth
<1>1. ASSUME NEW i \in Invoice, NEW u \in invoice'[i].manifest
      PROVE  /\ u[1] \in Order /\ order[u[1]].stage = "done" /\ u[2] \in order[u[1]].worth
             /\ \/ u \in invoice[i].manifest /\ invoice'[i].customer = invoice[i].customer
                \/ /\ order[u[1]].owner = invoice'[i].customer
                   /\ \A j \in Invoice :
                        u \notin invoice[j].manifest /\ (Bills(j, u[1]) => invoice[j].customer = invoice'[i].customer)
  <2>1. CASE u \in invoice[i].manifest /\ invoice'[i].customer = invoice[i].customer
    <3>1. u[1] \in Order
      BY <2>1 DEF BillingInv, Typed, InvoiceRec, Unit
    <3> QED
      BY <2>1, <3>1 DEF BillingInv, Finished
  <2>2. CASE invoice'[i].customer \in Customer /\ u \in Collected(invoice'[i].customer)
    BY <2>2, CollectedIsFresh
  <2> QED
    BY <1>1, <2>1, <2>2
<1>2. Apart'
  <2> SUFFICES ASSUME NEW i \in Invoice, NEW j \in Invoice, i # j,
                      NEW u \in invoice'[i].manifest, u \in invoice'[j].manifest
               PROVE  FALSE
    BY DEF Apart
  <2>1. u \in invoice[i].manifest \/ u \in invoice[j].manifest
    OBVIOUS
  <2>2. u \in invoice[i].manifest /\ u \in invoice[j].manifest
    BY <1>1, <2>1
  <2> QED
    BY <2>2 DEF BillingInv, Apart
<1>3. OneOwner'
  <2> SUFFICES ASSUME NEW i \in Invoice, NEW j \in Invoice, NEW o \in Order, Bills(i, o)', Bills(j, o)'
               PROVE  invoice'[i].customer = invoice'[j].customer
    BY DEF OneOwner
  <2>1. PICK u \in invoice'[i].manifest : u[1] = o
    BY DEF Bills
  <2>2. PICK w \in invoice'[j].manifest : w[1] = o
    BY DEF Bills
  <2>3. u \in invoice[i].manifest => Bills(i, o)
    BY <2>1 DEF Bills
  <2>4. w \in invoice[j].manifest => Bills(j, o)
    BY <2>2 DEF Bills
  <2>5. CASE u \in invoice[i].manifest /\ w \in invoice[j].manifest
    <3>1. invoice[i].customer = invoice[j].customer
      BY <2>3, <2>4, <2>5 DEF BillingInv, OneOwner
    <3> QED
      BY <1>1, <2>1, <2>2, <2>5, <3>1
  <2>6. CASE u \in invoice[i].manifest /\ w \notin invoice[j].manifest
    BY <1>1, <2>1, <2>2, <2>3, <2>6
  <2>7. CASE u \notin invoice[i].manifest /\ w \in invoice[j].manifest
    BY <1>1, <2>1, <2>2, <2>4, <2>7
  <2>8. CASE u \notin invoice[i].manifest /\ w \notin invoice[j].manifest
    BY <1>1, <2>1, <2>2, <2>8
  <2> QED
    BY <2>5, <2>6, <2>7, <2>8
<1> QED
  BY <1>1, <1>2, <1>3

(* What is left to show of a request that moves manifests and links.       *)
LEMMA RebilledKeeps ==
  ASSUME BillingInv, Hypotheses,
         \A i \in Invoice : \A u \in invoice'[i].manifest :
           \/ u \in invoice[i].manifest /\ invoice'[i].customer = invoice[i].customer
           \/ invoice'[i].customer \in Customer /\ u \in Collected(invoice'[i].customer),
         \A i, j \in Invoice : i # j =>
           \A u \in invoice'[i].manifest : u \in invoice'[j].manifest =>
             u \in invoice[i].manifest \/ u \in invoice[j].manifest,
         invoice' \in [Invoice -> InvoiceRec],
         \A i \in Invoice : invoice'[i].stage \in {"draft", "submitted"} => invoice'[i].customer # None,
         ManifestsStand',
         order' \in [Order -> OrderRec],
         \A o \in Order : order'[o].stage = order[o].stage /\ order'[o].worth = order[o].worth,
         LinksFit',
         UNCHANGED <<terms, opening>>, opening = {},
         run' \in [Run -> [customer : Customer \cup {None}, take : SUBSET Unit]],
         \A r \in Run : run'[r] = NotRunning
  PROVE  BillingInv'
<1>1. /\ Apart' /\ OneOwner'
      /\ \A i \in Invoice : \A u \in invoice'[i].manifest :
           u[1] \in Order /\ order[u[1]].stage = "done" /\ u[2] \in order[u[1]].worth
  BY OnlyFreshAdded
<1>2. Finished'
  BY <1>1 DEF Finished
<1>3. Typed'
  BY DEF BillingInv, Typed
<1>4. RunsAlone' /\ LoadedIsUnbilled'
  BY DEF RunsAlone, LoadedIsUnbilled
<1> QED
  BY <1>1, <1>2, <1>3, <1>4 DEF BillingInv

(* A cancel, a discard, a deletion.                                        *)
LEMMA VoidKeeps ==
  ASSUME BillingInv, Hypotheses, Quiet, NEW i \in Invoice,
         rollback_billed_sources(i) \/ DeleteInvoice(i)
  PROVE  BillingInv'
<1>1. /\ UNCHANGED <<terms, run, opening>> /\ opening = {} /\ \A r \in Run : run[r] = NotRunning
      /\ order' = GivenBack(Orders(invoice[i].manifest), i)
  BY QuietMeans DEF rollback_billed_sources, DeleteInvoice
<1>2. invoice \in [Invoice -> InvoiceRec]
  BY DEF BillingInv, Typed
<1>3. PICK rec \in InvoiceRec : /\ invoice' = [invoice EXCEPT ![i] = rec]
                                /\ rec.stage \notin {"draft", "submitted"} /\ rec.manifest = {} /\ rec.lines = {}
  <2>1. [Blank EXCEPT !.stage = "void"] \in InvoiceRec /\ Blank \in InvoiceRec
    BY DEF Blank, InvoiceRec
  <2>2. CASE rollback_billed_sources(i)
    BY <2>1, <2>2 DEF rollback_billed_sources, Blank
  <2>3. CASE DeleteInvoice(i)
    BY <2>1, <2>3 DEF DeleteInvoice, Blank
  <2> QED
    BY <2>2, <2>3
<1>4. /\ invoice' \in [Invoice -> InvoiceRec] /\ invoice'[i] = rec
      /\ \A j \in Invoice : j # i => invoice'[j] = invoice[j]
  BY <1>2, <1>3
<1>5. \A j \in Invoice : \A u \in invoice'[j].manifest :
        u \in invoice[j].manifest /\ invoice'[j].customer = invoice[j].customer
  BY <1>3, <1>4
<1>6. ManifestsStand'
  BY <1>3, <1>4 DEF BillingInv, ManifestsStand
<1>7. \A j \in Invoice : invoice'[j].stage \in {"draft", "submitted"} => invoice'[j].customer # None
  BY <1>3, <1>4 DEF BillingInv, Typed
<1> DEFINE os == Orders(invoice[i].manifest)
<1>8. /\ order' \in [Order -> OrderRec]
      /\ \A o \in Order :
           /\ order'[o].stage = order[o].stage /\ order'[o].worth = order[o].worth
           /\ o \notin os => order'[o].link = order[o].link
           /\ o \in os /\ order[o].stage # "gone" /\ Bills(i, o) =>
                /\ order'[o].link = None => \A j \in Invoice \ {i} : ~Bills(j, o)
                /\ order'[o].link # None => order'[o].link \in Invoice \ {i} /\ Bills(order'[o].link, o)
  BY <1>1, GivenBackLinks
<1>9. LinksFit'
  <2> SUFFICES ASSUME NEW o \in Order, order'[o].stage # "gone" PROVE LinkFits(o)'
    BY DEF LinksFit
  <2>1. order[o].stage # "gone" /\ (o \in os <=> Bills(i, o))
    BY <1>8, OrdersAre DEF Bills
  <2>2. \A j : j \in Invoice \ {i} => (Bills(j, o)' <=> Bills(j, o))
    BY <1>4 DEF Bills
  <2>3. ~Bills(i, o)'
    BY <1>3, <1>4 DEF Bills
  <2>4. LinkFits(o) /\ order[o].link \in Invoice \cup {None}
    BY <2>1 DEF BillingInv, LinksFit, Typed, OrderRec
  <2>5. CASE o \in os
    <3>1. /\ order'[o].link = None => \A j \in Invoice \ {i} : ~Bills(j, o)
          /\ order'[o].link # None => order'[o].link \in Invoice \ {i} /\ Bills(order'[o].link, o)
      BY <1>8, <2>1, <2>5
    <3> QED
      BY <2>2, <2>3, <3>1 DEF LinkFits
  <2>6. CASE o \notin os
    <3>1. order'[o].link = order[o].link /\ ~Bills(i, o)
      BY <1>8, <2>1, <2>6
    <3> QED
      BY <2>2, <2>3, <2>4, <3>1 DEF LinkFits
  <2> QED
    BY <2>5, <2>6
<1>10. run' \in [Run -> [customer : Customer \cup {None}, take : SUBSET Unit]] /\ \A r \in Run : run'[r] = NotRunning
  BY <1>1 DEF BillingInv, Typed
<1>11. \A j, l \in Invoice : j # l =>
         \A u \in invoice'[j].manifest : u \in invoice'[l].manifest =>
           u \in invoice[j].manifest \/ u \in invoice[l].manifest
  BY <1>5
<1>12. \A o \in Order : order'[o].stage = order[o].stage /\ order'[o].worth = order[o].worth
  BY <1>8
<1>13. UNCHANGED <<terms, opening>> /\ opening = {} /\ order' \in [Order -> OrderRec]
  BY <1>1, <1>8
<1> HIDE DEF os
<1> QED
  BY <1>4, <1>5, <1>6, <1>7, <1>9, <1>10, <1>11, <1>12, <1>13, RebilledKeeps

(* Marking the orders os with invoice i moves their link only.             *)
LEMMA MarkedLinks ==
  ASSUME NEW ord \in [Order -> OrderRec], NEW os, NEW i \in Invoice
  PROVE  /\ Marked(ord, os, i) \in [Order -> OrderRec]
         /\ \A o \in Order :
              /\ Marked(ord, os, i)[o].stage = ord[o].stage /\ Marked(ord, os, i)[o].worth = ord[o].worth
              /\ o \notin os => Marked(ord, os, i)[o].link = ord[o].link
              /\ o \in os /\ ord[o].stage # "gone" => Marked(ord, os, i)[o].link = i
<1>1. \A o \in Order : [ord[o] EXCEPT !.link = i] \in OrderRec
  BY DEF OrderRec
<1>2. \A o \in Order : /\ [ord[o] EXCEPT !.link = i].stage = ord[o].stage
                       /\ [ord[o] EXCEPT !.link = i].worth = ord[o].worth
                       /\ [ord[o] EXCEPT !.link = i].link = i
  BY DEF OrderRec
<1>3. \A o \in Order :
        Marked(ord, os, i)[o] = IF o \in os /\ ord[o].stage # "gone" THEN [ord[o] EXCEPT !.link = i] ELSE ord[o]
  BY DEF Marked
<1>4. Marked(ord, os, i) \in [Order -> OrderRec]
  BY <1>1 DEF Marked
<1> QED
  BY <1>2, <1>3, <1>4

(* The links fit again where invoice i, and no other, has changed, if the  *)
(* orders it bills now name it and those it gave up name one of the rest.  *)
LEMMA LinksFollow ==
  ASSUME BillingInv, NEW i \in Invoice,
         \A j \in Invoice \ {i} : invoice'[j] = invoice[j],
         \A o \in Order : order'[o].stage = order[o].stage,
         \A o \in Order : order[o].stage # "gone" =>
           /\ Bills(i, o)' => order'[o].link = i
           /\ ~Bills(i, o)' /\ Bills(i, o) =>
                /\ order'[o].link = None => \A j \in Invoice \ {i} : ~Bills(j, o)
                /\ order'[o].link # None => order'[o].link \in Invoice \ {i} /\ Bills(order'[o].link, o)
           /\ ~Bills(i, o)' /\ ~Bills(i, o) => order'[o].link = order[o].link,
         Hypotheses
  PROVE  LinksFit'
<1> SUFFICES ASSUME NEW o \in Order, order'[o].stage # "gone" PROVE LinkFits(o)'
  BY DEF LinksFit
<1>1. order[o].stage # "gone" /\ None \notin Invoice
  BY DEF Hypotheses, NoneAssumption
<1>2. LinkFits(o) /\ order[o].link \in Invoice \cup {None}
  BY <1>1 DEF BillingInv, LinksFit, Typed, OrderRec
<1>3. \A j : j \in Invoice \ {i} => (Bills(j, o)' <=> Bills(j, o))
  BY DEF Bills
<1>4. CASE Bills(i, o)'
  <2>1. order'[o].link = i
    BY <1>1, <1>4
  <2> QED
    BY <1>1, <1>4, <2>1 DEF LinkFits
<1>5. CASE ~Bills(i, o)' /\ Bills(i, o)
  <2>1. /\ order'[o].link = None => \A j \in Invoice \ {i} : ~Bills(j, o)
        /\ order'[o].link # None => order'[o].link \in Invoice \ {i} /\ Bills(order'[o].link, o)
    BY <1>1, <1>5
  <2> QED
    BY <1>3, <1>5, <2>1 DEF LinkFits
<1>6. CASE ~Bills(i, o)' /\ ~Bills(i, o)
  <2>1. order'[o].link = order[o].link
    BY <1>1, <1>6
  <2> QED
    BY <1>2, <1>3, <1>6, <2>1 DEF LinkFits
<1> QED
  BY <1>4, <1>5, <1>6

(* A request raises the invoice of what it collected.                      *)
LEMMA BillKeeps ==
  ASSUME BillingInv, Hypotheses, NEW r \in Run, NEW i \in Invoice, BillUnits(r, i)
  PROVE  BillingInv'
<1>1. /\ run[r] # NotRunning /\ invoice[i].stage = "none" /\ UNCHANGED <<terms, opening>>
      /\ run' = [run EXCEPT ![r] = NotRunning]
  BY DEF BillUnits
<1>2. /\ \A q \in Run : run[q] # NotRunning => q = r
      /\ opening = {}
  BY <1>1 DEF BillingInv, RunsAlone
<1>3. PICK k \in Customer : run[r].customer = k /\ run[r].take \subseteq Collected(k)
  BY <1>1 DEF BillingInv, RunsAlone
<1> DEFINE take == run[r].take
           rec == [stage |-> "draft", customer |-> k, manifest |-> take, lines |-> take, typed |-> FALSE]
<1>4. invoice' = [invoice EXCEPT ![i] = rec] /\ order' = Marked(order, Orders(take), i)
  BY <1>3 DEF BillUnits, Draft
<1>5. take \subseteq Unit /\ k # None /\ invoice[i].manifest = {}
  BY <1>1, <1>3 DEF Collected, Hypotheses, NoneAssumption, BillingInv, ManifestsStand
<1>6. rec \in InvoiceRec
  BY <1>5 DEF InvoiceRec
<1>7. /\ rec.stage = "draft" /\ rec.customer = k /\ rec.manifest = take /\ rec.lines = take
  OBVIOUS
<1>8. invoice \in [Invoice -> InvoiceRec] /\ order \in [Order -> OrderRec]
  BY DEF BillingInv, Typed
<1> HIDE DEF rec
<1>9. /\ invoice' \in [Invoice -> InvoiceRec] /\ invoice'[i] = rec
      /\ \A j \in Invoice \ {i} : invoice'[j] = invoice[j]
  BY <1>4, <1>6, <1>8
<1>10. /\ order' \in [Order -> OrderRec]
       /\ \A o \in Order :
            /\ order'[o].stage = order[o].stage /\ order'[o].worth = order[o].worth
            /\ o \notin Orders(take) => order'[o].link = order[o].link
            /\ o \in Orders(take) /\ order[o].stage # "gone" => order'[o].link = i
  BY <1>4, <1>8, MarkedLinks
<1>11. \A o \in Order : (Bills(i, o)' <=> o \in Orders(take)) /\ ~Bills(i, o)
  BY <1>5, <1>7, <1>9, OrdersAre DEF Bills
<1>12. LinksFit'
  BY <1>9, <1>10, <1>11, LinksFollow
<1>13. ManifestsStand'
  <2> SUFFICES ASSUME NEW j \in Invoice
               PROVE  /\ invoice'[j].manifest = invoice'[j].lines
                      /\ invoice'[j].stage \notin {"draft", "submitted"} => invoice'[j].manifest = {}
    BY DEF ManifestsStand
  <2>1. CASE j = i
    BY <1>7, <1>9, <2>1
  <2>2. CASE j # i
    BY <1>9, <2>2 DEF BillingInv, ManifestsStand
  <2> QED
    BY <2>1, <2>2
<1>14. \A j \in Invoice : \A u \in invoice'[j].manifest :
         \/ u \in invoice[j].manifest /\ invoice'[j].customer = invoice[j].customer
         \/ invoice'[j].customer \in Customer /\ u \in Collected(invoice'[j].customer)
  <2> SUFFICES ASSUME NEW j \in Invoice, NEW u \in invoice'[j].manifest
               PROVE  \/ u \in invoice[j].manifest /\ invoice'[j].customer = invoice[j].customer
                      \/ invoice'[j].customer \in Customer /\ u \in Collected(invoice'[j].customer)
    OBVIOUS
  <2>1. CASE j = i
    BY <1>3, <1>7, <1>9, <2>1
  <2>2. CASE j # i
    BY <1>9, <2>2
  <2> QED
    BY <2>1, <2>2
<1>15. \A j, l \in Invoice : j # l =>
         \A u \in invoice'[j].manifest : u \in invoice'[l].manifest =>
           u \in invoice[j].manifest \/ u \in invoice[l].manifest
  BY <1>9
<1>16. \A j \in Invoice : invoice'[j].stage \in {"draft", "submitted"} => invoice'[j].customer # None
  <2> SUFFICES ASSUME NEW j \in Invoice, invoice'[j].stage \in {"draft", "submitted"}
               PROVE  invoice'[j].customer # None
    OBVIOUS
  <2>1. CASE j = i
    BY <1>5, <1>7, <1>9, <2>1
  <2>2. CASE j # i
    BY <1>9, <2>2 DEF BillingInv, Typed
  <2> QED
    BY <2>1, <2>2
<1>17. run' \in [Run -> [customer : Customer \cup {None}, take : SUBSET Unit]] /\ \A q \in Run : run'[q] = NotRunning
  <2>1. run \in [Run -> [customer : Customer \cup {None}, take : SUBSET Unit]]
    BY DEF BillingInv, Typed
  <2>2. NotRunning \in [customer : Customer \cup {None}, take : SUBSET Unit]
    BY DEF NotRunning
  <2> QED
    BY <1>1, <1>2, <2>1, <2>2
<1>18. \A o \in Order : order'[o].stage = order[o].stage /\ order'[o].worth = order[o].worth
  BY <1>10
<1> HIDE DEF take
<1> QED
  BY <1>1, <1>2, <1>9, <1>10, <1>12, <1>13, <1>14, <1>15, <1>16, <1>17, <1>18, RebilledKeeps

(* A draft is picked again.                                                *)
LEMMA RefillKeeps ==
  ASSUME BillingInv, Hypotheses, Quiet, NEW i \in Invoice, RefillDraft(i)
  PROVE  BillingInv'
<1> DEFINE k == invoice[i].customer
<1>1. PICK kept \in SUBSET invoice[i].manifest, new \in SUBSET Collected(k) : Refill(i, kept, new)
  BY DEF RefillDraft
<1> DEFINE dropped == invoice[i].manifest \ kept
           back == GivenBack(Orders(dropped), i)
<1>2. /\ invoice[i].stage = "draft" /\ UNCHANGED <<terms, run, opening>>
      /\ opening = {} /\ \A r \in Run : run[r] = NotRunning
      /\ order' = Marked(back, Orders(kept \cup new), i)
      /\ invoice' = [invoice EXCEPT ![i].lines = (@ \ dropped) \cup new, ![i].manifest = kept \cup new]
  BY <1>1, QuietMeans DEF Refill
<1>3. invoice \in [Invoice -> InvoiceRec] /\ order \in [Order -> OrderRec] /\ k \in Customer
  BY <1>2 DEF BillingInv, Typed, InvoiceRec
<1> DEFINE rec == [invoice[i] EXCEPT !.lines = (invoice[i].lines \ dropped) \cup new, !.manifest = kept \cup new]
<1>4. invoice' = [invoice EXCEPT ![i] = rec]
  BY <1>2, <1>3 DEF InvoiceRec
<1>5. (invoice[i].lines \ dropped) \cup new = kept \cup new
  BY DEF BillingInv, ManifestsStand
<1>6. kept \cup new \subseteq Unit
  BY <1>3 DEF Collected, InvoiceRec
<1>7. /\ rec \in InvoiceRec /\ rec.stage = "draft" /\ rec.customer = k
      /\ rec.manifest = kept \cup new /\ rec.lines = kept \cup new
  BY <1>2, <1>3, <1>5, <1>6 DEF InvoiceRec
<1> HIDE DEF rec
<1>8. /\ invoice' \in [Invoice -> InvoiceRec] /\ invoice'[i] = rec
      /\ \A j \in Invoice \ {i} : invoice'[j] = invoice[j]
  BY <1>3, <1>4, <1>7
<1>9. /\ back \in [Order -> OrderRec]
      /\ \A o \in Order :
           /\ back[o].stage = order[o].stage /\ back[o].worth = order[o].worth
           /\ o \notin Orders(dropped) => back[o].link = order[o].link
           /\ o \in Orders(dropped) /\ order[o].stage # "gone" /\ Bills(i, o) =>
                /\ back[o].link = None => \A j \in Invoice \ {i} : ~Bills(j, o)
                /\ back[o].link # None => back[o].link \in Invoice \ {i} /\ Bills(back[o].link, o)
  BY GivenBackLinks
<1> HIDE DEF back
<1>10. /\ order' \in [Order -> OrderRec]
       /\ \A o \in Order :
            /\ order'[o].stage = back[o].stage /\ order'[o].worth = back[o].worth
            /\ o \notin Orders(kept \cup new) => order'[o].link = back[o].link
            /\ o \in Orders(kept \cup new) /\ back[o].stage # "gone" => order'[o].link = i
  BY <1>2, <1>9, MarkedLinks
<1>11. \A o \in Order : order'[o].stage = order[o].stage /\ order'[o].worth = order[o].worth
  BY <1>9, <1>10
<1>12. \A o \in Order : /\ Bills(i, o)' <=> o \in Orders(kept \cup new)
                        /\ ~Bills(i, o)' => (Bills(i, o) <=> o \in Orders(dropped))
  <2> SUFFICES ASSUME NEW o \in Order
               PROVE  /\ Bills(i, o)' <=> o \in Orders(kept \cup new)
                      /\ ~Bills(i, o)' => (Bills(i, o) <=> o \in Orders(dropped))
    OBVIOUS
  <2>1. Bills(i, o)' <=> \E u \in kept \cup new : u[1] = o
    BY <1>7, <1>8 DEF Bills
  <2>2. o \in Orders(kept \cup new) <=> \E u \in kept \cup new : u[1] = o
    BY OrdersAre
  <2>3. o \in Orders(dropped) <=> \E u \in dropped : u[1] = o
    BY OrdersAre
  <2> QED
    BY <2>1, <2>2, <2>3 DEF Bills
<1>13. LinksFit'
  <2>1. \A o \in Order : order[o].stage # "gone" =>
           /\ Bills(i, o)' => order'[o].link = i
           /\ ~Bills(i, o)' /\ Bills(i, o) =>
                /\ order'[o].link = None => \A j \in Invoice \ {i} : ~Bills(j, o)
                /\ order'[o].link # None => order'[o].link \in Invoice \ {i} /\ Bills(order'[o].link, o)
           /\ ~Bills(i, o)' /\ ~Bills(i, o) => order'[o].link = order[o].link
    <3> SUFFICES ASSUME NEW o \in Order, order[o].stage # "gone"
                 PROVE  /\ Bills(i, o)' => order'[o].link = i
                        /\ ~Bills(i, o)' /\ Bills(i, o) =>
                             /\ order'[o].link = None => \A j \in Invoice \ {i} : ~Bills(j, o)
                             /\ order'[o].link # None => order'[o].link \in Invoice \ {i} /\ Bills(order'[o].link, o)
                        /\ ~Bills(i, o)' /\ ~Bills(i, o) => order'[o].link = order[o].link
      OBVIOUS
    <3>1. Bills(i, o)' => order'[o].link = i
      BY <1>9, <1>10, <1>12
    <3>2. ASSUME ~Bills(i, o)' PROVE order'[o].link = back[o].link
      BY <1>10, <1>12, <3>2
    <3> QED
      BY <1>9, <1>12, <3>1, <3>2
  <2> QED
    BY <1>8, <1>11, <2>1, LinksFollow
<1>14. ManifestsStand'
  <2> SUFFICES ASSUME NEW j \in Invoice
               PROVE  /\ invoice'[j].manifest = invoice'[j].lines
                      /\ invoice'[j].stage \notin {"draft", "submitted"} => invoice'[j].manifest = {}
    BY DEF ManifestsStand
  <2>1. CASE j = i
    BY <1>7, <1>8, <2>1
  <2>2. CASE j # i
    BY <1>8, <2>2 DEF BillingInv, ManifestsStand
  <2> QED
    BY <2>1, <2>2
<1>15. \A j \in Invoice : \A u \in invoice'[j].manifest :
         \/ u \in invoice[j].manifest /\ invoice'[j].customer = invoice[j].customer
         \/ invoice'[j].customer \in Customer /\ u \in Collected(invoice'[j].customer)
  <2> SUFFICES ASSUME NEW j \in Invoice, NEW u \in invoice'[j].manifest
               PROVE  \/ u \in invoice[j].manifest /\ invoice'[j].customer = invoice[j].customer
                      \/ invoice'[j].customer \in Customer /\ u \in Collected(invoice'[j].customer)
    OBVIOUS
  <2>1. CASE j = i
    BY <1>3, <1>7, <1>8, <2>1
  <2>2. CASE j # i
    BY <1>8, <2>2
  <2> QED
    BY <2>1, <2>2
<1>16. \A j, l \in Invoice : j # l =>
         \A u \in invoice'[j].manifest : u \in invoice'[l].manifest =>
           u \in invoice[j].manifest \/ u \in invoice[l].manifest
  BY <1>8
<1>17. \A j \in Invoice : invoice'[j].stage \in {"draft", "submitted"} => invoice'[j].customer # None
  <2> SUFFICES ASSUME NEW j \in Invoice, invoice'[j].stage \in {"draft", "submitted"}
               PROVE  invoice'[j].customer # None
    OBVIOUS
  <2>1. CASE j = i
    BY <1>3, <1>7, <1>8, <2>1 DEF Hypotheses, NoneAssumption
  <2>2. CASE j # i
    BY <1>8, <2>2 DEF BillingInv, Typed
  <2> QED
    BY <2>1, <2>2
<1>18. run' \in [Run -> [customer : Customer \cup {None}, take : SUBSET Unit]] /\ \A r \in Run : run'[r] = NotRunning
  BY <1>2 DEF BillingInv, Typed
<1> HIDE DEF k, dropped
<1> QED
  BY <1>2, <1>8, <1>10, <1>11, <1>13, <1>14, <1>15, <1>16, <1>17, <1>18, RebilledKeeps

(* The monthly run: each invoice is of one owner and one kind of work, and *)
(* an order has one owner and is of one kind.                              *)
LEMMA MonthKeeps ==
  ASSUME BillingInv, Hypotheses, Quiet, NEW due \in SUBSET Order, generate_monthly_invoices(due)
  PROVE  BillingInv'
<1> DEFINE groups == Groups(due)
<1>1. PICK number \in [groups -> {i \in Invoice : invoice[i].stage = "none"}] :
        /\ \A g, h \in groups : g # h => number[g] # number[h]
        /\ LET groupOf(i) == CHOOSE g \in groups : number[g] = i
               used == {number[g] : g \in groups}
               units(i) == MonthUnits(groupOf(i)[1], groupOf(i)[2], due)
               holder(o) == {i \in used : o \in Orders(units(i))}
           IN  /\ invoice' = [i \in Invoice |-> IF i \in used THEN Draft(groupOf(i)[1], units(i)) ELSE invoice[i]]
               /\ order' = [o \in Order |-> IF holder(o) = {} THEN order[o]
                                            ELSE [order[o] EXCEPT !.link = CHOOSE i \in holder(o) : TRUE]]
  BY DEF generate_monthly_invoices
<1>2. UNCHANGED <<terms, run, opening>> /\ opening = {} /\ \A r \in Run : run[r] = NotRunning
  BY QuietMeans DEF generate_monthly_invoices
<1> DEFINE groupOf(i) == CHOOSE g \in groups : number[g] = i
           used == {number[g] : g \in groups}
           units(i) == MonthUnits(groupOf(i)[1], groupOf(i)[2], due)
           holder(o) == {i \in used : o \in Orders(units(i))}
<1>3. /\ invoice' = [i \in Invoice |-> IF i \in used THEN Draft(groupOf(i)[1], units(i)) ELSE invoice[i]]
      /\ order' = [o \in Order |-> IF holder(o) = {} THEN order[o]
                                   ELSE [order[o] EXCEPT !.link = CHOOSE i \in holder(o) : TRUE]]
  BY <1>1
<1>4. \A i \in used : /\ i \in Invoice /\ invoice[i].stage = "none"
                      /\ groupOf(i) \in groups /\ number[groupOf(i)] = i
  BY <1>1
<1>5. \A g \in groups : g \in Customer \X {"Cleaning", "M&R"}
  BY DEF Groups
<1>6. invoice \in [Invoice -> InvoiceRec] /\ order \in [Order -> OrderRec]
  BY DEF BillingInv, Typed
<1>7. \A i \in used : /\ groupOf(i)[1] \in Customer /\ units(i) \subseteq Collected(groupOf(i)[1])
                      /\ \A u \in units(i) : Category(u[1]) = groupOf(i)[2]
  <2> SUFFICES ASSUME NEW i \in used
               PROVE  /\ groupOf(i)[1] \in Customer /\ units(i) \subseteq Collected(groupOf(i)[1])
                      /\ \A u \in units(i) : Category(u[1]) = groupOf(i)[2]
    OBVIOUS
  <2>1. groupOf(i)[1] \in Customer
    BY <1>4, <1>5
  <2>2. units(i) \subseteq Collected(groupOf(i)[1]) /\ \A u \in units(i) : Category(u[1]) = groupOf(i)[2]
    BY DEF MonthUnits
  <2> QED
    BY <2>1, <2>2
<1> HIDE DEF units, groups, used
<1>8. \A i \in used : \A u \in units(i) :
        /\ u \in Unit /\ u[1] \in Order /\ order[u[1]].stage = "done" /\ order[u[1]].owner = groupOf(i)[1]
        /\ \A j \in Invoice : u \notin invoice[j].manifest
  <2> SUFFICES ASSUME NEW i \in used, NEW u \in units(i)
               PROVE  /\ u \in Unit /\ u[1] \in Order /\ order[u[1]].stage = "done"
                      /\ order[u[1]].owner = groupOf(i)[1]
                      /\ \A j \in Invoice : u \notin invoice[j].manifest
    OBVIOUS
  <2> DEFINE k == groupOf(i)[1]
  <2>1. k \in Customer /\ u \in Collected(k)
    BY <1>7
  <2> HIDE DEF k
  <2>2. /\ u \in Unit /\ u[1] \in Order /\ order[u[1]].stage = "done" /\ order[u[1]].owner = k
        /\ \A j \in Invoice : u \notin invoice[j].manifest
    BY <2>1, CollectedIsFresh
  <2> QED
    BY <2>2 DEF k
<1>9. \A i \in used, j \in used : \A u \in units(i), w \in units(j) : u[1] = w[1] => i = j
  <2> SUFFICES ASSUME NEW i \in used, NEW j \in used, NEW u \in units(i), NEW w \in units(j), u[1] = w[1]
               PROVE  i = j
    OBVIOUS
  <2>1. groupOf(i)[1] = groupOf(j)[1] /\ groupOf(i)[2] = groupOf(j)[2]
    BY <1>7, <1>8, SMTT(30)
  <2>2. groupOf(i) = groupOf(j)
    <3>1. groupOf(i) \in Customer \X {"Cleaning", "M&R"} /\ groupOf(j) \in Customer \X {"Cleaning", "M&R"}
      BY <1>4, <1>5
    <3> QED
      BY <2>1, <3>1
  <2> QED
    BY <1>4, <2>2
<1> HIDE DEF groupOf
<1>10. \A i \in used : /\ invoice'[i].stage = "draft" /\ invoice'[i].customer = groupOf(i)[1]
                       /\ invoice'[i].manifest = units(i) /\ invoice'[i].lines = units(i)
                       /\ invoice'[i] \in InvoiceRec
  <2> SUFFICES ASSUME NEW i \in used
               PROVE  /\ invoice'[i].stage = "draft" /\ invoice'[i].customer = groupOf(i)[1]
                      /\ invoice'[i].manifest = units(i) /\ invoice'[i].lines = units(i)
                      /\ invoice'[i] \in InvoiceRec
    OBVIOUS
  <2>1. invoice'[i] = [stage |-> "draft", customer |-> groupOf(i)[1], manifest |-> units(i),
                       lines |-> units(i), typed |-> FALSE]
    BY <1>3, <1>4 DEF Draft
  <2>2. units(i) \subseteq Unit /\ groupOf(i)[1] \in Customer
    BY <1>7, <1>8
  <2> QED
    BY <2>1, <2>2 DEF InvoiceRec
<1>11. \A i \in Invoice : i \notin used => invoice'[i] = invoice[i]
  BY <1>3
<1>12. invoice' \in [Invoice -> InvoiceRec]
  <2>1. \A i \in Invoice : invoice'[i] \in InvoiceRec
    BY <1>6, <1>10, <1>11
  <2> QED
    BY <1>3, <2>1
<1>13. \A o \in Order :
         /\ holder(o) = {} => order'[o] = order[o]
         /\ holder(o) # {} => \E i \in holder(o) : order'[o] = [order[o] EXCEPT !.link = i]
  <2> SUFFICES ASSUME NEW o \in Order
               PROVE  /\ holder(o) = {} => order'[o] = order[o]
                      /\ holder(o) # {} => \E i \in holder(o) : order'[o] = [order[o] EXCEPT !.link = i]
    OBVIOUS
  <2>1. order'[o] = IF holder(o) = {} THEN order[o]
                    ELSE [order[o] EXCEPT !.link = CHOOSE i \in holder(o) : TRUE]
    BY <1>3
  <2>2. holder(o) # {} => (CHOOSE i \in holder(o) : TRUE) \in holder(o)
    OBVIOUS
  <2> HIDE DEF holder
  <2> QED
    BY <2>1, <2>2
<1>14. \A o \in Order : \A i : i \in holder(o) <=> i \in used /\ \E u \in units(i) : u[1] = o
  BY OrdersAre
<1> HIDE DEF holder
<1>15. \A o \in Order : /\ order'[o] \in OrderRec
                        /\ order'[o].stage = order[o].stage /\ order'[o].worth = order[o].worth
                        /\ holder(o) = {} => order'[o].link = order[o].link
                        /\ holder(o) # {} => order'[o].link \in holder(o)
  <2> SUFFICES ASSUME NEW o \in Order
               PROVE  /\ order'[o] \in OrderRec
                      /\ order'[o].stage = order[o].stage /\ order'[o].worth = order[o].worth
                      /\ holder(o) = {} => order'[o].link = order[o].link
                      /\ holder(o) # {} => order'[o].link \in holder(o)
    OBVIOUS
  <2>1. CASE holder(o) = {}
    BY <1>6, <1>13, <2>1
  <2>2. CASE holder(o) # {}
    <3>1. PICK i \in holder(o) : order'[o] = [order[o] EXCEPT !.link = i]
      BY <1>13, <2>2
    <3>2. i \in Invoice
      BY <1>4, <1>14
    <3> QED
      BY <1>6, <2>2, <3>1, <3>2 DEF OrderRec
  <2> QED
    BY <2>1, <2>2
<1>16. order' \in [Order -> OrderRec]
  BY <1>3, <1>15
<1>17. \A i \in Invoice, o \in Order : Bills(i, o)' <=> IF i \in used THEN i \in holder(o) ELSE Bills(i, o)
  <2> SUFFICES ASSUME NEW i \in Invoice, NEW o \in Order
               PROVE  Bills(i, o)' <=> IF i \in used THEN i \in holder(o) ELSE Bills(i, o)
    OBVIOUS
  <2>1. CASE i \in used
    BY <1>10, <1>14, <2>1 DEF Bills
  <2>2. CASE i \notin used
    BY <1>11, <2>2 DEF Bills
  <2> QED
    BY <2>1, <2>2
<1>18. \A i \in used, o \in Order : ~Bills(i, o)
  BY <1>4 DEF Bills, BillingInv, ManifestsStand
<1>19. LinksFit'
  <2> SUFFICES ASSUME NEW o \in Order, order'[o].stage # "gone" PROVE LinkFits(o)'
    BY DEF LinksFit
  <2>1. None \notin Invoice /\ order[o].stage # "gone"
    BY <1>15 DEF Hypotheses, NoneAssumption
  <2>2. LinkFits(o) /\ order[o].link \in Invoice \cup {None}
    BY <2>1, <1>6 DEF BillingInv, LinksFit, OrderRec
  <2>3. CASE holder(o) # {}
    <3>1. order'[o].link \in holder(o)
      BY <1>15, <2>3
    <3>2. order'[o].link \in used /\ order'[o].link \in Invoice
      BY <1>4, <1>14, <3>1
    <3>3. \A i \in Invoice : i \in holder(o) /\ i \in used => Bills(i, o)'
      BY <1>17
    <3> QED
      BY <2>1, <3>1, <3>2, <3>3 DEF LinkFits
  <2>4. CASE holder(o) = {}
    <3>1. order'[o].link = order[o].link
      BY <1>15, <2>4
    <3>2. \A i \in Invoice : Bills(i, o)' <=> Bills(i, o)
      <4> SUFFICES ASSUME NEW i \in Invoice PROVE Bills(i, o)' <=> Bills(i, o)
        OBVIOUS
      <4>1. CASE i \in used
        BY <1>17, <1>18, <2>4, <4>1
      <4>2. CASE i \notin used
        BY <1>17, <4>2
      <4> QED
        BY <4>1, <4>2
    <3> QED
      BY <2>2, <3>1, <3>2 DEF LinkFits
  <2> QED
    BY <2>3, <2>4
<1>20. ManifestsStand'
  <2> SUFFICES ASSUME NEW j \in Invoice
               PROVE  /\ invoice'[j].manifest = invoice'[j].lines
                      /\ invoice'[j].stage \notin {"draft", "submitted"} => invoice'[j].manifest = {}
    BY DEF ManifestsStand
  <2>1. CASE j \in used
    BY <1>10, <2>1
  <2>2. CASE j \notin used
    BY <1>11, <2>2 DEF BillingInv, ManifestsStand
  <2> QED
    BY <2>1, <2>2
<1>21. \A j \in Invoice : \A u \in invoice'[j].manifest :
         \/ u \in invoice[j].manifest /\ invoice'[j].customer = invoice[j].customer
         \/ invoice'[j].customer \in Customer /\ u \in Collected(invoice'[j].customer)
  <2> SUFFICES ASSUME NEW j \in Invoice, NEW u \in invoice'[j].manifest
               PROVE  \/ u \in invoice[j].manifest /\ invoice'[j].customer = invoice[j].customer
                      \/ invoice'[j].customer \in Customer /\ u \in Collected(invoice'[j].customer)
    OBVIOUS
  <2>1. CASE j \in used
    BY <1>7, <1>10, <2>1
  <2>2. CASE j \notin used
    BY <1>11, <2>2
  <2> QED
    BY <2>1, <2>2
<1>22. \A j, l \in Invoice : j # l =>
         \A u \in invoice'[j].manifest : u \in invoice'[l].manifest =>
           u \in invoice[j].manifest \/ u \in invoice[l].manifest
  <2> SUFFICES ASSUME NEW j \in Invoice, NEW l \in Invoice, j # l,
                      NEW u \in invoice'[j].manifest, u \in invoice'[l].manifest
               PROVE  u \in invoice[j].manifest \/ u \in invoice[l].manifest
    OBVIOUS
  <2>1. CASE j \in used /\ l \in used
    BY <1>9, <1>10, <2>1
  <2>2. CASE j \notin used \/ l \notin used
    BY <1>11, <2>2
  <2> QED
    BY <2>1, <2>2
<1>23. \A j \in Invoice : invoice'[j].stage \in {"draft", "submitted"} => invoice'[j].customer # None
  <2> SUFFICES ASSUME NEW j \in Invoice, invoice'[j].stage \in {"draft", "submitted"}
               PROVE  invoice'[j].customer # None
    OBVIOUS
  <2>1. CASE j \in used
    BY <1>7, <1>10, <2>1 DEF Hypotheses, NoneAssumption
  <2>2. CASE j \notin used
    BY <1>11, <2>2 DEF BillingInv, Typed
  <2> QED
    BY <2>1, <2>2
<1>24. run' \in [Run -> [customer : Customer \cup {None}, take : SUBSET Unit]] /\ \A r \in Run : run'[r] = NotRunning
  BY <1>2 DEF BillingInv, Typed
<1>25. \A o \in Order : order'[o].stage = order[o].stage /\ order'[o].worth = order[o].worth
  BY <1>15
<1> QED
  BY <1>2, <1>12, <1>16, <1>19, <1>20, <1>21, <1>22, <1>23, <1>24, <1>25, RebilledKeeps

-----------------------------------------------------------------------------
(* Nothing is billed at the start.                                         *)
LEMMA BillingStart == ASSUME Hypotheses, Init PROVE BillingInv
<1>1. /\ order \in [Order -> [stage : {"open"}, owner : Customer, worth : {{}}, link : {None}]]
      /\ invoice = [i \in Invoice |-> Blank] /\ terms \in [Customer -> Terms]
      /\ run = [r \in Run |-> NotRunning] /\ opening = {}
  BY DEF Init
<1>2. Blank \in InvoiceRec /\ NotRunning \in [customer : Customer \cup {None}, take : SUBSET Unit]
  BY DEF Blank, InvoiceRec, NotRunning
<1>3. order \in [Order -> OrderRec] /\ \A o \in Order : order[o].link = None
  BY <1>1 DEF OrderRec
<1>4. \A i \in Invoice : invoice[i].manifest = {} /\ invoice[i].lines = {} /\ invoice[i].stage = "none"
  BY <1>1 DEF Blank
<1>5. Typed
  BY <1>1, <1>2, <1>3, <1>4 DEF Typed
<1>6. ManifestsStand /\ Apart /\ OneOwner /\ Finished
  BY <1>4 DEF ManifestsStand, Apart, OneOwner, Finished, Bills
<1>7. LinksFit
  BY <1>3, <1>4 DEF LinksFit, LinkFits, Bills
<1>8. RunsAlone /\ LoadedIsUnbilled
  BY <1>1 DEF RunsAlone, LoadedIsUnbilled
<1> QED
  BY <1>5, <1>6, <1>7, <1>8 DEF BillingInv

(* No step breaks the invariant.                                           *)
LEMMA BillingStep == ASSUME Hypotheses, BillingInv, [Next]_vars PROVE BillingInv'
<1>1. CASE UNCHANGED vars
  <2>1. UNCHANGED <<order, invoice, terms, run, opening>>
    BY <1>1 DEF vars
  <2>2. Apart' /\ OneOwner' /\ Finished' /\ LinksFit'
    BY <2>1, ManifestsStill
  <2>3. Typed' /\ ManifestsStand' /\ LoadedIsUnbilled'
    BY <2>1 DEF BillingInv, Typed, ManifestsStand, LoadedIsUnbilled
  <2>4. \A c : Collected(c)' = Collected(c)
    BY <2>1 DEF Collected, AlreadyBilled, BilledPairs
  <2>5. RunsAlone'
    BY <2>1, <2>4 DEF BillingInv, RunsAlone
  <2> QED
    BY <2>2, <2>3, <2>5 DEF BillingInv
<1>2. ASSUME NEW o \in Order,
             \/ /\ Quiet
                /\ \/ Finish(o) \/ EditOrder(o) \/ Revise(o) \/ LoadReopen(o) \/ DeleteOrder(o)
                   \/ \E k \in Customer : Transfer(o, k)
             \/ SaveReopen(o)
      PROVE  BillingInv'
  BY <1>2, OrderKeeps
<1>3. ASSUME Quiet, NEW k \in Customer, Recontract(k) \/ \E r \in Run : Collect(r, k) PROVE BillingInv'
  BY <1>3, DeskKeeps
<1>4. ASSUME NEW r \in Run, NEW i \in Invoice, BillUnits(r, i) PROVE BillingInv'
  BY <1>4, BillKeeps
<1>5. ASSUME Quiet, NEW i \in Invoice, RefillDraft(i) PROVE BillingInv'
  BY <1>5, RefillKeeps
<1>6. ASSUME Quiet, NEW i \in Invoice, EditDraft(i) \/ Submit(i) PROVE BillingInv'
  BY <1>6, DraftFormKeeps
<1>7. ASSUME Quiet, NEW i \in Invoice, rollback_billed_sources(i) \/ DeleteInvoice(i) PROVE BillingInv'
  BY <1>7, VoidKeeps
<1>8. ASSUME Quiet, NEW due \in SUBSET Order, generate_monthly_invoices(due) PROVE BillingInv'
  BY <1>8, MonthKeeps
<1> QED
  BY <1>1, <1>2, <1>3, <1>4, <1>5, <1>6, <1>7, <1>8 DEF Next

-----------------------------------------------------------------------------
(* Nothing is lost, while no order changes hands.                          *)

SettledOwners == \A o \in Washed, k, l \in Customer : k = l

(* An order is billed to the one who owes it.                              *)
BilledToOwner == \A i \in Invoice, o \in Order : Bills(i, o) => invoice[i].customer = order[o].owner

(* What an invoice bills it billed before, or it was collected for it.     *)
UnitsCome ==
  \A i \in Invoice : \A u \in invoice'[i].manifest :
    \/ u \in invoice[i].manifest /\ invoice'[i].customer = invoice[i].customer
    \/ \E k \in Customer : invoice'[i].customer = k /\ u \in Collected(k)

OwnersStay == \A o \in Order : order'[o].owner = order[o].owner

LEMMA OrdersKeepOwners ==
  ASSUME Typed, SettledOwners, NEW o \in Order,
         \/ Finish(o) \/ EditOrder(o) \/ Revise(o) \/ LoadReopen(o) \/ DeleteOrder(o) \/ SaveReopen(o)
         \/ \E k \in Customer : Transfer(o, k)
  PROVE  OwnersStay /\ UnitsCome
<1>1. order \in [Order -> OrderRec] /\ \A q \in Order : order[q].owner \in Customer
  BY DEF Typed, OrderRec
<1>2. invoice' = invoice
  BY DEF Finish, EditOrder, Revise, LoadReopen, DeleteOrder, SaveReopen, Transfer
<1>3. OwnersStay
  <2>1. CASE Finish(o) \/ EditOrder(o) \/ Revise(o)
    BY <1>1, <2>1 DEF Finish, EditOrder, Revise, OwnersStay, OrderRec
  <2>2. CASE LoadReopen(o) \/ DeleteOrder(o) \/ SaveReopen(o)
    BY <1>1, <2>2 DEF LoadReopen, DeleteOrder, SaveReopen, OwnersStay, OrderRec
  <2>3. ASSUME NEW k \in Customer, Transfer(o, k) PROVE FALSE
    BY <1>1, <2>3 DEF Transfer, SettledOwners
  <2> QED
    BY <2>1, <2>2, <2>3
<1> QED
  BY <1>2, <1>3 DEF UnitsCome

LEMMA LinksKeepOwners ==
  ASSUME NEW ord \in [Order -> OrderRec], NEW os, NEW i \in Invoice
  PROVE  /\ \A o \in Order : Marked(ord, os, i)[o].owner = ord[o].owner
         /\ order \in [Order -> OrderRec] => \A o \in Order : GivenBack(os, i)[o].owner = order[o].owner
<1>1. \A o \in Order : ord[o] \in OrderRec
  OBVIOUS
<1>2. \A o \in Order : Marked(ord, os, i)[o].owner = ord[o].owner
  BY <1>1 DEF Marked, OrderRec
<1>3. ASSUME order \in [Order -> OrderRec] PROVE \A o \in Order : GivenBack(os, i)[o].owner = order[o].owner
  <2>1. \A o \in Order : order[o] \in OrderRec
    BY <1>3
  <2> QED
    BY <2>1 DEF GivenBack, OrderRec
<1> QED
  BY <1>2, <1>3

LEMMA RefillKeepsOwners ==
  ASSUME BillingInv, Hypotheses, Quiet, NEW i \in Invoice, RefillDraft(i)
  PROVE  OwnersStay /\ UnitsCome
<1> DEFINE k == invoice[i].customer
<1>1. PICK kept \in SUBSET invoice[i].manifest, new \in SUBSET Collected(k) : Refill(i, kept, new)
  BY DEF RefillDraft
<1> DEFINE dropped == invoice[i].manifest \ kept
           back == GivenBack(Orders(dropped), i)
<1>2. /\ invoice[i].stage = "draft" /\ order' = Marked(back, Orders(kept \cup new), i)
      /\ invoice' = [invoice EXCEPT ![i].lines = (@ \ dropped) \cup new, ![i].manifest = kept \cup new]
  BY <1>1 DEF Refill
<1>3. invoice \in [Invoice -> InvoiceRec] /\ order \in [Order -> OrderRec] /\ k \in Customer
  BY <1>2 DEF BillingInv, Typed, InvoiceRec
<1>4. OwnersStay
  <2>1. back \in [Order -> OrderRec]
    BY GivenBackLinks
  <2>2. \A o \in Order : back[o].owner = order[o].owner
    BY <1>3, LinksKeepOwners
  <2> HIDE DEF back
  <2> QED
    BY <1>2, <2>1, <2>2, LinksKeepOwners DEF OwnersStay
<1>5. /\ invoice'[i].manifest = kept \cup new /\ invoice'[i].customer = k
      /\ \A j \in Invoice \ {i} : invoice'[j] = invoice[j]
  BY <1>2, <1>3 DEF InvoiceRec
<1>6. UnitsCome
  <2> SUFFICES ASSUME NEW j \in Invoice, NEW u \in invoice'[j].manifest
               PROVE  \/ u \in invoice[j].manifest /\ invoice'[j].customer = invoice[j].customer
                      \/ \E c \in Customer : invoice'[j].customer = c /\ u \in Collected(c)
    BY DEF UnitsCome
  <2>1. CASE j # i
    BY <1>5, <2>1
  <2>2. CASE j = i /\ u \in kept
    BY <1>1, <1>5, <2>2
  <2>3. CASE j = i /\ u \in new
    BY <1>1, <1>3, <1>5, <2>3
  <2> QED
    BY <1>5, <2>1, <2>2, <2>3
<1> QED
  BY <1>4, <1>6

LEMMA MonthKeepsOwners ==
  ASSUME BillingInv, NEW due, generate_monthly_invoices(due)
  PROVE  OwnersStay /\ UnitsCome
<1> DEFINE groups == Groups(due)
<1>1. PICK number \in [groups -> {i \in Invoice : invoice[i].stage = "none"}] :
        LET groupOf(i) == CHOOSE g \in groups : number[g] = i
            used == {number[g] : g \in groups}
            units(i) == MonthUnits(groupOf(i)[1], groupOf(i)[2], due)
            holder(o) == {i \in used : o \in Orders(units(i))}
        IN  /\ invoice' = [i \in Invoice |-> IF i \in used THEN Draft(groupOf(i)[1], units(i)) ELSE invoice[i]]
            /\ order' = [o \in Order |-> IF holder(o) = {} THEN order[o]
                                         ELSE [order[o] EXCEPT !.link = CHOOSE i \in holder(o) : TRUE]]
  BY DEF generate_monthly_invoices
<1> DEFINE groupOf(i) == CHOOSE g \in groups : number[g] = i
           used == {number[g] : g \in groups}
           units(i) == MonthUnits(groupOf(i)[1], groupOf(i)[2], due)
           holder(o) == {i \in used : o \in Orders(units(i))}
<1>2. /\ invoice' = [i \in Invoice |-> IF i \in used THEN Draft(groupOf(i)[1], units(i)) ELSE invoice[i]]
      /\ order' = [o \in Order |-> IF holder(o) = {} THEN order[o]
                                   ELSE [order[o] EXCEPT !.link = CHOOSE i \in holder(o) : TRUE]]
  BY <1>1
<1>3. \A i \in used : groupOf(i)[1] \in Customer /\ units(i) \subseteq Collected(groupOf(i)[1])
  <2> SUFFICES ASSUME NEW i \in used PROVE groupOf(i)[1] \in Customer /\ units(i) \subseteq Collected(groupOf(i)[1])
    OBVIOUS
  <2>1. groupOf(i) \in groups
    OBVIOUS
  <2>2. groupOf(i)[1] \in Customer
    BY <2>1 DEF Groups
  <2> QED
    BY <2>2 DEF MonthUnits
<1>4. OwnersStay
  <2>1. \A o \in Order : order[o] \in OrderRec
    BY DEF BillingInv, Typed
  <2> HIDE DEF holder
  <2> QED
    BY <1>2, <2>1 DEF OwnersStay, OrderRec
<1> HIDE DEF groupOf, used, units
<1>5. UnitsCome
  <2> SUFFICES ASSUME NEW j \in Invoice, NEW u \in invoice'[j].manifest
               PROVE  \/ u \in invoice[j].manifest /\ invoice'[j].customer = invoice[j].customer
                      \/ \E c \in Customer : invoice'[j].customer = c /\ u \in Collected(c)
    BY DEF UnitsCome
  <2>1. CASE j \in used
    BY <1>2, <1>3, <2>1 DEF Draft
  <2>2. CASE j \notin used
    BY <1>2, <2>2
  <2> QED
    BY <2>1, <2>2
<1> QED
  BY <1>4, <1>5

LEMMA OwnersKeep ==
  ASSUME Hypotheses, SettledOwners, BillingInv, [Next]_vars
  PROVE  OwnersStay /\ UnitsCome
<1>1. order \in [Order -> OrderRec] /\ invoice \in [Invoice -> InvoiceRec] /\ Typed
  BY DEF BillingInv, Typed
<1>2. CASE UNCHANGED <<order, invoice>>
  BY <1>2 DEF OwnersStay, UnitsCome
<1>3. ASSUME NEW o \in Order,
             \/ Finish(o) \/ EditOrder(o) \/ Revise(o) \/ LoadReopen(o) \/ DeleteOrder(o) \/ SaveReopen(o)
             \/ \E k \in Customer : Transfer(o, k)
      PROVE  OwnersStay /\ UnitsCome
  BY <1>1, <1>3, OrdersKeepOwners
<1>4. ASSUME NEW r \in Run, NEW i \in Invoice, BillUnits(r, i) PROVE OwnersStay /\ UnitsCome
  <2>1. PICK k \in Customer : run[r].customer = k /\ run[r].take \subseteq Collected(k)
    BY <1>4 DEF BillUnits, BillingInv, RunsAlone
  <2>2. invoice' = [invoice EXCEPT ![i] = Draft(k, run[r].take)] /\ order' = Marked(order, Orders(run[r].take), i)
    BY <1>4, <2>1 DEF BillUnits
  <2>3. OwnersStay
    BY <1>1, <2>2, LinksKeepOwners DEF OwnersStay
  <2>4. UnitsCome
    BY <1>1, <2>1, <2>2 DEF UnitsCome, Draft
  <2> QED
    BY <2>3, <2>4
<1>5. ASSUME NEW i \in Invoice, EditDraft(i) \/ Submit(i) PROVE OwnersStay /\ UnitsCome
  <2>1. order' = order /\ \A j \in Invoice : /\ invoice'[j].manifest = invoice[j].manifest
                                             /\ invoice'[j].customer = invoice[j].customer
    BY <1>1, <1>5 DEF EditDraft, Submit, InvoiceRec
  <2> QED
    BY <2>1 DEF OwnersStay, UnitsCome
<1>6. ASSUME NEW i \in Invoice, rollback_billed_sources(i) \/ DeleteInvoice(i) PROVE OwnersStay /\ UnitsCome
  <2>1. /\ order' = GivenBack(Orders(invoice[i].manifest), i)
        /\ invoice'[i].manifest = {} /\ \A j \in Invoice \ {i} : invoice'[j] = invoice[j]
    BY <1>1, <1>6 DEF rollback_billed_sources, DeleteInvoice, Blank
  <2>2. OwnersStay
    BY <1>1, <2>1, LinksKeepOwners DEF OwnersStay
  <2>3. UnitsCome
    BY <2>1 DEF UnitsCome
  <2> QED
    BY <2>2, <2>3
<1>7. ASSUME Quiet, NEW i \in Invoice, RefillDraft(i) PROVE OwnersStay /\ UnitsCome
  BY <1>7, RefillKeepsOwners
<1>8. ASSUME NEW due \in SUBSET Order, generate_monthly_invoices(due) PROVE OwnersStay /\ UnitsCome
  BY <1>8, MonthKeepsOwners
<1>9. ASSUME NEW k \in Customer, Recontract(k) \/ \E r \in Run : Collect(r, k) PROVE UNCHANGED <<order, invoice>>
  BY <1>9 DEF Recontract, Collect
<1>10. UNCHANGED vars => UNCHANGED <<order, invoice>>
  BY DEF vars
<1> QED
  BY <1>2, <1>3, <1>4, <1>5, <1>6, <1>7, <1>8, <1>9, <1>10 DEF Next

LEMMA OwnersStart == ASSUME Init PROVE BilledToOwner
BY DEF Init, Blank, Bills, BilledToOwner

LEMMA OwnersStep ==
  ASSUME Hypotheses, SettledOwners, BillingInv, BilledToOwner, [Next]_vars
  PROVE  BilledToOwner'
<1> SUFFICES ASSUME NEW i \in Invoice, NEW o \in Order, NEW u \in invoice'[i].manifest, u[1] = o
             PROVE  invoice'[i].customer = order'[o].owner
  BY DEF BilledToOwner, Bills
<1>1. order'[o].owner = order[o].owner
  BY OwnersKeep DEF OwnersStay
<1>2. CASE u \in invoice[i].manifest /\ invoice'[i].customer = invoice[i].customer
  BY <1>1, <1>2 DEF BilledToOwner, Bills
<1>3. ASSUME NEW k \in Customer, invoice'[i].customer = k, u \in Collected(k) PROVE invoice'[i].customer = order'[o].owner
  BY <1>1, <1>3 DEF Collected
<1> QED
  BY <1>2, <1>3, OwnersKeep DEF UnitsCome

LEMMA NothingIsLost == ASSUME BillingInv, BilledToOwner PROVE NothingLost
<1> SUFFICES ASSUME NEW u \in Unit, order[u[1]].stage = "done", u[2] \in order[u[1]].worth,
                    \A i \in Live : u \notin invoice[i].lines
             PROVE  u \in Collected(order[u[1]].owner)
  BY DEF NothingLost
<1> DEFINE o == u[1]
           k == order[u[1]].owner
<1>1. o \in Order
  BY DEF Unit
<1>2. u \notin BilledPairs(k)
  <2>1. \A j \in Invoice : u \notin invoice[j].manifest
    BY DEF BillingInv, ManifestsStand, Live
  <2> QED
    BY <2>1 DEF BilledPairs
<1>3. ASSUME order[o].link # None PROVE o \in Orders(BilledPairs(k))
  <2>1. PICK i \in Invoice : Bills(i, o)
    BY <1>1, <1>3 DEF BillingInv, LinksFit, LinkFits
  <2>2. invoice[i].customer = k
    BY <1>1, <2>1 DEF BilledToOwner
  <2>3. PICK w \in invoice[i].manifest : w[1] = o
    BY <2>1 DEF Bills
  <2>4. w \in BilledPairs(k)
    BY <2>2, <2>3 DEF BilledPairs
  <2> QED
    BY <2>3, <2>4, OrdersAre
<1> QED
  BY <1>2, <1>3 DEF Collected, AlreadyBilled

-----------------------------------------------------------------------------
(* What the invariant says of the checked properties.                      *)
LEMMA BilledAsMeant ==
  ASSUME Hypotheses, BillingInv
  PROVE  TypeOK /\ NoDoubleBill /\ LinkAgrees /\ ManifestIsLines /\ BilledIsFinished
<1>0. TypeOK
  BY DEF BillingInv, Typed, TypeOK, OrderRec, InvoiceRec
<1>1. ManifestIsLines /\ BilledIsFinished
  BY DEF BillingInv, ManifestsStand, Finished, ManifestIsLines, BilledIsFinished, Live
<1>2. NoDoubleBill
  <2> SUFFICES ASSUME NEW u \in Unit PROVE Cardinality({i \in Live : u \in invoice[i].lines}) <= 1
    BY DEF NoDoubleBill
  <2> DEFINE S == {i \in Live : u \in invoice[i].lines}
  <2>1. \A i \in S : i \in Invoice /\ u \in invoice[i].manifest
    BY DEF BillingInv, ManifestsStand, Live
  <2>2. \A i, j \in S : i = j
    BY <2>1 DEF BillingInv, Apart
  <2> HIDE DEF S
  <2>3. Cardinality(S) <= 1
    <3>1. CASE S = {}
      BY <3>1, FS_EmptySet
    <3>2. CASE S # {}
      <4>1. PICK i \in S : TRUE
        BY <3>2
      <4>2. S = {i}
        BY <2>2, <4>1
      <4>3. Cardinality({i}) = 1
        BY FS_Singleton
      <4>4. Cardinality(S) = 1
        BY <4>2, <4>3, Zenon
      <4> QED
        BY <4>4
    <3> QED
      BY <3>1, <3>2
  <2> QED
    BY <2>3 DEF S
<1>3. LinkAgrees
  <2> SUFFICES ASSUME NEW o \in Order, order[o].stage # "gone"
               PROVE  LET billing == {i \in Live : o \in Orders(invoice[i].manifest)}
                      IN  IF billing = {} THEN order[o].link = None ELSE order[o].link \in billing
    BY DEF LinkAgrees
  <2> DEFINE billing == {i \in Live : o \in Orders(invoice[i].manifest)}
  <2>1. \A i : i \in billing <=> i \in Invoice /\ Bills(i, o)
    <3> SUFFICES ASSUME NEW i \in Invoice
                 PROVE  i \in Live /\ o \in Orders(invoice[i].manifest) <=> Bills(i, o)
      BY DEF Live
    <3>1. o \in Orders(invoice[i].manifest) <=> Bills(i, o)
      BY OrdersAre DEF Bills
    <3>2. Bills(i, o) => i \in Live
      BY DEF Bills, Live, BillingInv, ManifestsStand
    <3> QED
      BY <3>1, <3>2
  <2>2. LinkFits(o) /\ order[o].link \in Invoice \cup {None}
    BY DEF BillingInv, LinksFit, Typed, OrderRec
  <2> HIDE DEF billing
  <2>3. IF billing = {} THEN order[o].link = None ELSE order[o].link \in billing
    <3>1. billing = {} => order[o].link = None
      BY <2>1, <2>2 DEF LinkFits
    <3>2. billing # {} => order[o].link \in billing
      BY <2>1, <2>2 DEF LinkFits
    <3> QED
      BY <3>1, <3>2
  <2> QED
    BY <2>3 DEF billing
<1> QED
  BY <1>0, <1>1, <1>2, <1>3

(* While billing requests follow one another, no order is charged twice in *)
(* one currency, whatever was picked, changed, cancelled, deleted, reopened*)
(* or moved between owners before; the order's link names an invoice that  *)
(* bills it whenever there is one; and what a rollback gives back is what  *)
(* the customer is asked to pay, for work that stands finished             *)
(* (collect_orders, _mark_billed, restore_link, rollback_billed_sources).  *)
THEOREM OrdersBilledOnce ==
  ASSUME NoneAssumption, Overlap = FALSE
  PROVE  Spec => [](NoDoubleBill /\ LinkAgrees /\ ManifestIsLines /\ BilledIsFinished)
<1>1. Hypotheses
  BY DEF Hypotheses
<1>2. Init => BillingInv
  BY <1>1, BillingStart
<1>3. BillingInv /\ [Next]_vars => BillingInv'
  BY <1>1, BillingStep
<1>4. BillingInv => NoDoubleBill /\ LinkAgrees /\ ManifestIsLines /\ BilledIsFinished
  BY <1>1, BilledAsMeant
<1> QED
  BY <1>2, <1>3, <1>4, PTL DEF Spec
(* What is finished and on no standing invoice can be billed, as long as   *)
(* no order changes hands: one customer, or no cleaning, whose owner is    *)
(* the tank's owner of the day (collect_orders, already_billed_elsewhere). *)
THEOREM FinishedIsOffered ==
  ASSUME NoneAssumption, Overlap = FALSE, SettledOwners
  PROVE  Spec => []NothingLost
<1>1. Hypotheses
  BY DEF Hypotheses
<1>2. Init => BillingInv /\ BilledToOwner
  BY <1>1, BillingStart, OwnersStart
<1>3. BillingInv /\ BilledToOwner /\ [Next]_vars => (BillingInv /\ BilledToOwner)'
  BY <1>1, BillingStep, OwnersStep
<1>4. BillingInv /\ BilledToOwner => NothingLost
  BY NothingIsLost
<1> QED
  BY <1>2, <1>3, <1>4, PTL DEF Spec
=============================================================================
