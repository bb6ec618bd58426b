------------------------ MODULE ConsolidatedBilling ------------------------
(***************************************************************************)
(* Finished orders become invoice lines: the pick by hand, the monthly     *)
(* run, the change of a draft's orders in place, and every way an invoice  *)
(* goes away again (consolidated_billing.py, monthly_invoicing.py).        *)
(*                                                                         *)
(* A unit is one order in one currency.  An invoice keeps its units twice, *)
(* in its manifest, which a rollback reads, and in its locked lines; the   *)
(* order keeps one link, though its currencies may sit on two invoices.    *)
(* A run reads the unbilled units and inserts the invoice later, with no   *)
(* lock in between; with Overlap FALSE nothing else happens meanwhile.     *)
(* Requests that read and write in one breath are one step.                *)
(***************************************************************************)
EXTENDS Naturals, FiniteSets

CONSTANTS
  Order,     \* the finished or unfinished work orders
  Washed,    \* those that are Cleaning Orders: they bill the tank's owner of the day
  Customer,  \* the tank owners
  Invoice,   \* the Sales Invoices that may be raised
  Ccy,       \* the currencies
  Run,       \* the requests billing at one time
  Overlap,   \* TRUE: requests interleave between reading and writing
  None       \* no invoice, no customer

OrderAssumption == Washed \subseteq Order
NoneAssumption == None \notin Invoice \cup Customer
OverlapAssumption == Overlap \in BOOLEAN

Unit == Order \X Ccy
Terms == {"Cash", "TOP"}

VARIABLES
  order,    \* order[o]: how far it is, who owes it, what it charges, its link
  invoice,  \* invoice[i]: the Sales Invoice i
  terms,    \* terms[k]: the payment type of k's active contract
  run,      \* run[r]: the units run r has collected and not yet invoiced
  opening   \* the orders a request has loaded to reopen and not yet saved

vars == <<order, invoice, terms, run, opening>>

Blank == [stage |-> "none", customer |-> None, manifest |-> {}, lines |-> {}, typed |-> FALSE]
NotRunning == [customer |-> None, take |-> {}]

Init ==
  /\ order \in [Order -> [stage : {"open"}, owner : Customer, worth : {{}}, link : {None}]]
  /\ invoice = [i \in Invoice |-> Blank]
  /\ terms \in [Customer -> Terms]
  /\ run = [r \in Run |-> NotRunning]
  /\ opening = {}

TypeOK ==
  /\ order \in [Order -> [stage : {"open", "done", "gone"}, owner : Customer,
                          worth : SUBSET Ccy, link : Invoice \cup {None}]]
  /\ invoice \in [Invoice -> [stage : {"none", "draft", "submitted", "void"},
                              customer : Customer \cup {None}, manifest : SUBSET Unit,
                              lines : SUBSET Unit, typed : BOOLEAN]]
  /\ \A i \in Invoice : invoice[i].stage \in {"draft", "submitted"} => invoice[i].customer # None
  /\ terms \in [Customer -> Terms]
  /\ run \in [Run -> [customer : Customer \cup {None}, take : SUBSET Unit]]
  /\ opening \subseteq Order

Quiet == Overlap \/ (opening = {} /\ \A r \in Run : run[r] = NotRunning)

-----------------------------------------------------------------------------
(* What is billed and what is not.                                         *)

Orders(units) == {u[1] : u \in units}

BilledPairs(k) == UNION {invoice[i].manifest : i \in {j \in Invoice : invoice[j].customer = k}}

AlreadyBilledElsewhere(k, u) ==
  order[u[1]].link # None /\ u[1] \notin Orders(BilledPairs(k))

\* A link that no manifest of this customer explains was made elsewhere.
AlreadyBilled(k, u) ==
  \/ u \in BilledPairs(k)
  \/ order[u[1]].link # None /\ u[1] \notin Orders(BilledPairs(k))

Collected(k) ==
  {u \in Unit : /\ order[u[1]].stage = "done"
                /\ order[u[1]].owner = k
                /\ u[2] \in order[u[1]].worth
                /\ ~AlreadyBilled(k, u)}

OtherInvoices(o, i) ==
  {j \in Invoice \ {i} : invoice[j].customer = invoice[i].customer
                         /\ o \in Orders(invoice[j].manifest)}

Survivor(o, i) ==
  IF OtherInvoices(o, i) = {} THEN None ELSE CHOOSE j \in OtherInvoices(o, i) : TRUE

\* _unmark_billed: the link goes to a sibling that still bills the order.
GivenBack(os, i) ==
  [o \in Order |-> IF o \in os /\ order[o].stage # "gone"
                   THEN [order[o] EXCEPT !.link = Survivor(o, i)] ELSE order[o]]

Marked(ord, os, i) ==
  [o \in Order |-> IF o \in os /\ ord[o].stage # "gone"
                   THEN [ord[o] EXCEPT !.link = i] ELSE ord[o]]

Draft(k, units) ==
  [stage |-> "draft", customer |-> k, manifest |-> units, lines |-> units, typed |-> FALSE]

-----------------------------------------------------------------------------
(* The work orders.                                                        *)

Finish(o) ==
  /\ order[o].stage = "open"
  /\ order' = [order EXCEPT ![o].stage = "done"]
  /\ UNCHANGED <<invoice, terms, run, opening>>

EditOrder(o) ==
  /\ order[o].stage = "open"
  /\ \E w \in SUBSET Ccy : order' = [order EXCEPT ![o].worth = w]
  /\ UNCHANGED <<invoice, terms, run, opening>>

\* A correction re-reads the order under a lock before it saves.
Revise(o) ==
  /\ order[o].stage = "done"
  /\ order[o].link = None
  /\ \E w \in SUBSET Ccy : order' = [order EXCEPT ![o].worth = w]
  /\ opening' = opening \ {o}
  /\ UNCHANGED <<invoice, terms, run>>

LoadReopen(o) ==
  /\ order[o].stage = "done"
  /\ order[o].link = None
  /\ o \notin opening
  /\ opening' = opening \cup {o}
  /\ UNCHANGED <<order, invoice, terms, run>>

\* The save writes every column of the copy that was loaded, its link too;
\* marking an order billed leaves `modified` alone, so nothing notices.
SaveReopen(o) ==
  /\ o \in opening
  /\ order' = [order EXCEPT ![o].stage = "open", ![o].link = None]
  /\ opening' = opening \ {o}
  /\ UNCHANGED <<invoice, terms, run>>

DeleteOrder(o) ==
  /\ order[o].stage \in {"open", "done"}
  /\ order[o].link = None
  /\ order' = [order EXCEPT ![o].stage = "gone"]
  /\ opening' = opening \ {o}
  /\ UNCHANGED <<invoice, terms, run>>

\* The tank gets another owner: its cleaning bills the new one.
Transfer(o, k) ==
  /\ o \in Washed
  /\ order[o].owner # k
  /\ order[o].stage # "gone"
  /\ order' = [order EXCEPT ![o].owner = k]
  /\ UNCHANGED <<invoice, terms, run, opening>>

Recontract(k) ==
  /\ \E t \in Terms \ {terms[k]} : terms' = [terms EXCEPT ![k] = t]
  /\ UNCHANGED <<order, invoice, run, opening>>

-----------------------------------------------------------------------------
(* Billing by hand: collect, then insert the invoice and mark its orders.  *)

\* The window and the ticks leave any part of what is collected.
Collect(r, k) ==
  /\ run[r] = NotRunning
  /\ terms[k] = "TOP"
  /\ \E take \in SUBSET Collected(k) \ {{}} :
       run' = [run EXCEPT ![r] = [customer |-> k, take |-> take]]
  /\ UNCHANGED <<order, invoice, terms, opening>>

BillUnits(r, i) ==
  /\ run[r] # NotRunning
  /\ invoice[i].stage = "none"
  /\ invoice' = [invoice EXCEPT ![i] = Draft(run[r].customer, run[r].take)]
  /\ order' = Marked(order, Orders(run[r].take), i)
  /\ run' = [run EXCEPT ![r] = NotRunning]
  /\ UNCHANGED <<terms, opening>>

\* Re-stamping only what was added loses an order kept in its other currency.
RefillStampsNew(i, kept, new) ==
  LET dropped == invoice[i].manifest \ kept
  IN /\ invoice[i].stage = "draft"
     /\ dropped \cup new # {}
     /\ (invoice[i].lines \ dropped) \cup new # {} \/ invoice[i].typed
     /\ invoice' = [invoice EXCEPT ![i].lines = (@ \ dropped) \cup new,
                                   ![i].manifest = kept \cup new]
     /\ order' = Marked(GivenBack(Orders(dropped), i), Orders(new), i)
     /\ UNCHANGED <<terms, run, opening>>

\* A draft is picked again: dropped units are given back first, then those
\* kept and added are stamped, so an order kept in one currency stays linked.
Refill(i, kept, new) ==
  LET dropped == invoice[i].manifest \ kept
  IN /\ invoice[i].stage = "draft"
     /\ dropped \cup new # {}
     /\ (invoice[i].lines \ dropped) \cup new # {} \/ invoice[i].typed
     /\ invoice' = [invoice EXCEPT ![i].lines = (@ \ dropped) \cup new,
                                   ![i].manifest = kept \cup new]
     /\ order' = Marked(GivenBack(Orders(dropped), i), Orders(kept \cup new), i)
     /\ UNCHANGED <<terms, run, opening>>

RefillDraft(i) ==
  LET k == invoice[i].customer
      offered == {u \in Collected(k) : terms[k] = "TOP"} \ invoice[i].manifest
  IN \E kept \in SUBSET invoice[i].manifest, new \in SUBSET offered : Refill(i, kept, new)

\* A plain save: lines typed by hand come and go, locked ones stay.
EditDraft(i) ==
  /\ invoice[i].stage = "draft"
  /\ invoice[i].lines # {} \/ ~invoice[i].typed
  /\ invoice' = [invoice EXCEPT ![i].typed = ~@]
  /\ UNCHANGED <<order, terms, run, opening>>

-----------------------------------------------------------------------------
(* The monthly run: one invoice for each Cash owner and category, all in   *)
(* one transaction; stopped half way it leaves nothing.                    *)

Category(o) == IF o \in Washed THEN "Cleaning" ELSE "M&R"

MonthUnits(k, cat, due) ==
  {u \in Collected(k) : terms[k] = "Cash" /\ Category(u[1]) = cat /\ u[1] \in due}

Groups(due) ==
  {g \in Customer \X {"Cleaning", "M&R"} : MonthUnits(g[1], g[2], due) # {}}

generate_monthly_invoices(due) ==
  /\ Groups(due) # {}
  /\ \E number \in [Groups(due) -> {i \in Invoice : invoice[i].stage = "none"}] :
       /\ \A g, h \in Groups(due) : g # h => number[g] # number[h]
       /\ LET groupOf(i) == CHOOSE g \in Groups(due) : number[g] = i
              used == {number[g] : g \in Groups(due)}
              units(i) == MonthUnits(groupOf(i)[1], groupOf(i)[2], due)
              holder(o) == {i \in used : o \in Orders(units(i))}
          IN /\ invoice' = [i \in Invoice |-> IF i \in used THEN Draft(groupOf(i)[1], units(i))
                                              ELSE invoice[i]]
             /\ order' = [o \in Order |-> IF holder(o) = {} THEN order[o]
                                          ELSE [order[o] EXCEPT !.link = CHOOSE i \in holder(o) : TRUE]]
  /\ UNCHANGED <<terms, run, opening>>

-----------------------------------------------------------------------------
(* An invoice's own life.                                                  *)

Submit(i) ==
  /\ invoice[i].stage = "draft"
  /\ invoice' = [invoice EXCEPT ![i].stage = "submitted"]
  /\ UNCHANGED <<order, terms, run, opening>>

\* Cancel of a submitted invoice, discard of a draft: the orders come back,
\* the manifest is cleared; the lines left on the void document owe nothing
\* and are dropped here.
rollback_billed_sources(i) ==
  /\ invoice[i].stage \in {"draft", "submitted"}
  /\ order' = GivenBack(Orders(invoice[i].manifest), i)
  /\ invoice' = [invoice EXCEPT ![i] = [Blank EXCEPT !.stage = "void"]]
  /\ UNCHANGED <<terms, run, opening>>

\* A void invoice's deletion finds no manifest and gives nothing back again.
\* What is deleted is gone: its place in Invoice is free for the next one.
DeleteInvoice(i) ==
  /\ invoice[i].stage \in {"draft", "void"}
  /\ order' = GivenBack(Orders(invoice[i].manifest), i)
  /\ invoice' = [invoice EXCEPT ![i] = Blank]
  /\ UNCHANGED <<terms, run, opening>>

Next ==
  \/ Quiet /\ \E o \in Order :
       \/ Finish(o) \/ EditOrder(o) \/ Revise(o) \/ LoadReopen(o) \/ DeleteOrder(o)
       \/ \E k \in Customer : Transfer(o, k)
  \/ \E o \in Order : SaveReopen(o)
  \/ Quiet /\ \E k \in Customer :
       \/ Recontract(k)
       \/ \E r \in Run : Collect(r, k)
  \/ \E r \in Run, i \in Invoice : BillUnits(r, i)
  \/ Quiet /\ \E i \in Invoice :
       RefillDraft(i) \/ EditDraft(i) \/ Submit(i) \/ rollback_billed_sources(i) \/ DeleteInvoice(i)
  \/ Quiet /\ \E due \in SUBSET Order : generate_monthly_invoices(due)

Spec == Init /\ [][Next]_vars

-----------------------------------------------------------------------------
(* Properties.                                                             *)

Live == {i \in Invoice : invoice[i].stage \in {"draft", "submitted"}}

\* No order is charged twice in one currency: of the invoices that stand,
\* by hand or monthly, at most one has a line for it, whatever was picked,
\* changed, cancelled, deleted or moved between owners before.
NoDoubleBill ==
  \A u \in Unit : Cardinality({i \in Live : u \in invoice[i].lines}) <= 1

\* The order's one link tells the truth about several invoices: it is empty
\* only when none bills the order, and otherwise names one that does.
LinkAgrees ==
  \A o \in Order : order[o].stage # "gone" =>
    LET billing == {i \in Live : o \in Orders(invoice[i].manifest)}
    IN IF billing = {} THEN order[o].link = None ELSE order[o].link \in billing

\* What a rollback will give back is what the customer is asked to pay.
ManifestIsLines == \A i \in Live : invoice[i].manifest = invoice[i].lines

\* Every billed order still stands, finished, and still charges that currency.
BilledIsFinished ==
  \A i \in Live : \A u \in invoice[i].manifest :
    order[u[1]].stage = "done" /\ u[2] \in order[u[1]].worth

\* Nothing finished is lost: what no standing invoice bills can be billed.
NothingLost ==
  \A u \in Unit :
    (/\ order[u[1]].stage = "done"
     /\ u[2] \in order[u[1]].worth
     /\ \A i \in Live : u \notin invoice[i].lines) => u \in Collected(order[u[1]].owner)
=============================================================================
