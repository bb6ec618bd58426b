---------------------------- MODULE PendingCash ----------------------------
(***************************************************************************)
(* One Pending Cash (a kasbon paid out or a deposit taken in), the Payment *)
(* Entries that draw on it and the Pending Cash Refunds that give it back  *)
(* (pending_cash.py, pending_cash_refund.py, the kasbon part of            *)
(* payment_entry.py).                                                      *)
(*                                                                         *)
(* A request reads the database as it stood when it began and writes when  *)
(* it ends; the row of the document it saves is locked, so two requests    *)
(* for one document follow each other.  flight holds the requests under    *)
(* way.  A bulk action is one transaction for all its documents, so it     *)
(* reads the last of them as they stood when the first was taken up.       *)
(***************************************************************************)
EXTENDS Integers, FiniteSets

CONSTANTS
  Payment,  \* Payment Entries that may draw on it
  Refund,   \* Pending Cash Refunds that may give it back
  Total,    \* its amount
  Overlap,  \* documents whose requests overlap; the others' run alone
  PC,       \* the Pending Cash itself, as a document a request saves
  Idle

ASSUME ClaimAssumption ==
  Payment \cap Refund = {} /\ PC \notin Payment \cup Refund /\ IsFiniteSet(Payment \cup Refund)
ASSUME TotalAssumption == Total \in Nat \ {0}
ASSUME OverlapAssumption == Overlap \subseteq Payment \cup Refund \cup {PC}

Claim == Payment \cup Refund
Amount == 1..Total

VARIABLES
  pc,     \* its flags, its journal and what other documents roll up onto it
  claim,  \* claim[c]: a payment's draw or a refund's allocation
  flight  \* flight[d]: the request saving document d, with what it read

vars == <<pc, claim, flight>>

NoClaim == [state |-> "none", amount |-> 0]

\* Rows of a cancelled payment and of a voided refund claim nothing.
Live(k) == k.state \in {"draft", "posted"}

\* What the rows of cs add up to: their units of money, counted.
Summed(k, cs) == Cardinality({u \in cs \X Amount : u[2] <= k[u[1]].amount})

Took(k, cs) == Summed(k, {c \in cs : Live(k[c])})

\* A draft's claim forgotten until it is posted.
TookPosted(k, cs) == Summed(k, {c \in cs : k[c].state = "posted"})

Posted == {c \in Claim : claim[c].state = "posted"}
Drawn == Summed(claim, Posted)

status_of(p) ==
  IF p.void THEN "Void" ELSE IF p.paid /\ p.settled THEN "Completed"
  ELSE IF p.paid THEN "Paid" ELSE IF p.validated THEN "Validated" ELSE "Draft"

Request == {"validate", "invalidate", "pay", "unpaid", "void", "unvoid", "save"}
Write == {"save", "post", "unpost", "void", "delete"}

PCRecord ==
  [validated : BOOLEAN, paid : BOOLEAN, void : BOOLEAN, journal : BOOLEAN, settled : BOOLEAN,
   refunded : 0..Total, status : {"Draft", "Validated", "Paid", "Completed", "Void"}]
ClaimRecord == [state : {"none", "draft", "posted", "void"}, amount : 0..Total]

TypeOK ==
  /\ pc \in PCRecord
  /\ claim \in [Claim -> ClaimRecord]
  /\ DOMAIN flight = Claim \cup {PC}
  /\ \A d \in DOMAIN flight : flight[d] # Idle =>
       /\ flight[d].op \in Request \cup Write
       /\ flight[d].amount \in 0..Total
       /\ flight[d].seen.pc \in PCRecord
       /\ flight[d].seen.claim \in [Claim -> ClaimRecord]

Init ==
  /\ pc = [validated |-> FALSE, paid |-> FALSE, void |-> FALSE, journal |-> FALSE,
           settled |-> FALSE, refunded |-> 0, status |-> "Draft"]
  /\ claim = [c \in Claim |-> NoClaim]
  /\ flight = [d \in Claim \cup {PC} |-> Idle]

\* Where a request may begin, and what it will have read.
Begin(d, op, amount) ==
  /\ flight[d] = Idle
  /\ \A e \in DOMAIN flight : flight[e] # Idle => {d, e} \subseteq Overlap
  /\ flight' = [flight EXCEPT ![d] = [op |-> op, amount |-> amount,
                                      seen |-> [pc |-> pc, claim |-> claim]]]
  /\ UNCHANGED <<pc, claim>>

Commit(d) == flight' = [flight EXCEPT ![d] = Idle]

-----------------------------------------------------------------------------
(* Payment Entry.                                                          *)

\* Only submitted payments counted.
LeftForPaymentPosted(p) == Total - TookPosted(claim, Payment \ {p}) - pc.refunded

\* What is left for payment p: other payments counted from their rows,
\* refunds from the total rolled up onto the Pending Cash.
LeftForPayment(p) == Total - Took(claim, Payment \ {p}) - pc.refunded

apply_kasbon(p, amount) == pc.paid /\ ~pc.void /\ amount <= LeftForPayment(p)

SavePayment(p, amount) ==
  /\ claim[p].state \in {"none", "draft"}
  /\ apply_kasbon(p, amount)
  /\ Begin(p, "save", amount)

SubmitPayment(p) ==
  /\ claim[p].state = "draft"
  /\ apply_kasbon(p, claim[p].amount)
  /\ pc.journal
  /\ Begin(p, "post", claim[p].amount)

CancelPayment(p) == claim[p].state = "posted" /\ Begin(p, "void", claim[p].amount)

DeletePayment(p) == claim[p].state = "draft" /\ Begin(p, "delete", 0)

-----------------------------------------------------------------------------
(* Pending Cash Refund.                                                    *)

\* The refund never asks what payments use.
availableOfRefunds(r) == Total - Took(claim, Refund \ {r})

available(r) == Total - Took(claim, Payment) - Took(claim, Refund \ {r})

check_allocations(r, amount) == pc.paid /\ ~pc.void /\ amount <= available(r)

SaveRefund(r, amount) ==
  /\ claim[r].state \in {"none", "draft"}
  /\ check_allocations(r, amount)
  /\ Begin(r, "save", amount)

ValidateRefund(r) ==
  /\ claim[r].state = "draft"
  /\ check_allocations(r, claim[r].amount)
  /\ Begin(r, "post", claim[r].amount)

InvalidateRefund(r) ==
  /\ claim[r].state = "posted"
  /\ check_allocations(r, claim[r].amount)
  /\ Begin(r, "unpost", claim[r].amount)

VoidRefund(r) == Live(claim[r]) /\ Begin(r, "void", claim[r].amount)

DeleteRefund(r) == claim[r].state = "draft" /\ Begin(r, "delete", 0)

-----------------------------------------------------------------------------
(* The end of a payment's or a refund's request.                           *)

Written(f) ==
  IF f.op = "delete" THEN NoClaim
  ELSE [state |-> CASE f.op \in {"save", "unpost"} -> "draft" [] f.op = "post" -> "posted"
                    [] f.op = "void" -> "void",
        amount |-> f.amount]

\* sync_document_links writes the status along with settled.
sync_document_links(p, k, seen) ==
  LET settled == \E c \in Payment : k[c].state = "posted"
  IN [p EXCEPT !.settled = settled, !.status = status_of([seen EXCEPT !.settled = settled])]

sync_refunded(p, k) == [p EXCEPT !.refunded = Took(k, Refund)]

CommitClaim(c) ==
  LET f == flight[c]
      own == [f.seen.claim EXCEPT ![c] = Written(f)]
  IN /\ f # Idle
     /\ claim' = [claim EXCEPT ![c] = Written(f)]
     /\ pc' = IF c \in Payment THEN sync_document_links(pc, own, f.seen.pc) ELSE sync_refunded(pc, own)
     /\ Commit(c)

-----------------------------------------------------------------------------
(* The Pending Cash's own actions.                                         *)

guard_not_used == \A p \in Payment : ~Live(claim[p])

guard_not_refunded == \A r \in Refund : ~Live(claim[r])

Handler(op) ==
  CASE op = "validate" -> ~pc.void /\ ~pc.validated
    [] op = "invalidate" -> ~pc.void /\ pc.validated /\ ~pc.paid
    [] op = "pay" -> ~pc.void /\ ~pc.paid
    [] op = "unpaid" -> ~pc.void /\ pc.paid /\ guard_not_used /\ guard_not_refunded
    [] op = "void" -> ~pc.void /\ ~pc.paid
    [] op = "unvoid" -> pc.void
    [] op = "save" -> TRUE

run_action(op) == Handler(op) /\ Begin(PC, op, 0)

Flagged(p, op) ==
  CASE op = "validate" -> [p EXCEPT !.validated = TRUE]
    [] op = "invalidate" -> [p EXCEPT !.validated = FALSE]
    [] op = "pay" -> [p EXCEPT !.validated = TRUE, !.paid = TRUE]
    [] op = "unpaid" -> [p EXCEPT !.paid = FALSE]
    [] op = "void" -> [p EXCEPT !.void = TRUE]
    [] op = "unvoid" -> [p EXCEPT !.void = FALSE]
    [] op = "save" -> p

\* The whole row is written, with the roll-ups recomputed from what was read
\* and the journal posted or cancelled to match.
CommitAction ==
  LET f == flight[PC]
      flags == Flagged(f.seen.pc, f.op)
      rolled == [flags EXCEPT !.refunded = Took(f.seen.claim, Refund),
                              !.settled = \E c \in Payment : f.seen.claim[c].state = "posted",
                              !.journal = flags.paid /\ ~flags.void]
  IN /\ f # Idle
     /\ pc' = [rolled EXCEPT !.status = status_of(rolled)]
     /\ Commit(PC)
     /\ UNCHANGED claim

Next ==
  \/ CommitAction
  \/ \E op \in Request : run_action(op)
  \/ \E c \in Claim : CommitClaim(c)
  \/ \E p \in Payment :
       SubmitPayment(p) \/ CancelPayment(p) \/ DeletePayment(p) \/ \E a \in Amount : SavePayment(p, a)
  \/ \E r \in Refund :
       \/ ValidateRefund(r) \/ InvalidateRefund(r) \/ VoidRefund(r) \/ DeleteRefund(r)
       \/ \E a \in Amount : SaveRefund(r, a)

Spec == Init /\ [][Next]_vars

-----------------------------------------------------------------------------
(* Properties.                                                             *)

\* What posted payments and refunds took off the advance account was put on
\* it by the Paid journal: the account never goes below zero, whichever
\* drafts were made first and whoever undoes what in between.
NeverOverdrawn == Drawn <= IF pc.journal THEN Total ELSE 0

\* Drafts claim their amount: two of them never hold the same money.
ClaimsFit == Took(claim, Claim) <= Total

\* The refund total rolled up onto the Pending Cash, which payments trust,
\* is what its live refunds take.
RefundedAgrees == pc.refunded = Took(claim, Refund)

\* It reads Completed exactly while a submitted payment draws on it.
StatusAgrees ==
  /\ pc.status = status_of(pc)
  /\ pc.settled <=> \E p \in Payment : claim[p].state = "posted"

\* Nothing claims money of a Pending Cash that was taken back or voided.
ClaimsOnPaid == (\E c \in Claim : Live(claim[c])) => pc.journal

\* Drafts, payments and refunds together never take more of a deposit than
\* was paid in, and its status and totals follow its claims
\* (apply_kasbon, check_allocations, sync_document_links, sync_refunded).
DepositHolds == TypeOK /\ ClaimsFit /\ RefundedAgrees /\ StatusAgrees /\ ClaimsOnPaid

\* The books see a purse that money is drawn from within its amount.
Books == INSTANCE Purse WITH funded <- pc.journal, drawn <- Drawn
ImplementsPurse == Books!Spec
=============================================================================
