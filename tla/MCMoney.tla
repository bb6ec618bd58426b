------------------------------ MODULE MCMoney ------------------------------
(***************************************************************************)
(* The desks that raise invoices and take money.  They share no state here,*)
(* so a behaviour is about one of them, its part, chosen at the start; the *)
(* others stay off.  That reaches every state of each.  The customer's     *)
(* deposit (PendingCash) keeps its own variables; the parts below share    *)
(* theirs.  A part with proofs is instantiated with them, and MoneyProofs  *)
(* cites them by name.                                                     *)
(***************************************************************************)
EXTENDS PendingCash

CONSTANTS p1, p2, r1, r2

VARIABLES
  part,
  cash, draw, saving,                          \* a second deposit, where requests overlap
  order, invoice, terms, run, opening,         \* ConsolidatedBilling
  today, tank, trail, gate, row, bill,         \* StorageCharge
  bk, inv, form, press, contract, bon          \* BookingPayment

(* Three cashiers draw on one deposit of two at the same moment.           *)
Rivals == INSTANCE PendingCash WITH
  Payment <- {"p1", "p2", "p3"}, Refund <- {"r1"}, Total <- 2, Overlap <- {"p1", "p2", "p3"},
  pc <- cash, claim <- draw, flight <- saving

(* An M&R and a wash of one owner; one wash that changes owner.            *)
Billing == INSTANCE BillingProofs WITH
  Order <- {"m1", "w1"}, Washed <- {"w1"}, Customer <- {"k1"}, Invoice <- {"i1", "i2"},
  Ccy <- {"IDR", "USD"}, Run <- {"r1"}, Overlap <- FALSE, None <- "none"
Owners == INSTANCE BillingProofs WITH
  Order <- {"w1"}, Washed <- {"w1"}, Customer <- {"k1", "k2"}, Invoice <- {"i1", "i2", "i3"},
  Ccy <- {"IDR", "USD"}, Run <- {"r1"}, Overlap <- FALSE, None <- "none"

(* Two visits billed while they run, their invoices undone and picked      *)
(* again newest first; one visit billed when it ends, in any order, of a   *)
(* tank whose first stay only its status trail tells.                      *)
Nights == INSTANCE StorageProofs WITH
  MaxVisit <- 2, Days <- 3, MaxStays <- 2, Invoice <- {"i1", "i2"}, Free <- 1, Running <- TRUE,
  CountOut <- TRUE, Known <- TRUE, Outcomes <- {TRUE, FALSE}, DeskEdits <- TRUE,
  NewestFirst <- TRUE, RepickNewest <- TRUE, None <- "none"
ExitBills == INSTANCE StorageProofs WITH
  MaxVisit <- 1, Days <- 3, MaxStays <- 2, Invoice <- {"i1", "i2"}, Free <- 0, Running <- FALSE,
  CountOut <- FALSE, Known <- FALSE, Outcomes <- {TRUE, FALSE}, DeskEdits <- TRUE,
  NewestFirst <- FALSE, RepickNewest <- FALSE, None <- "none"

(* One desk at a time, every agreement, the tanks settled before the       *)
(* invoice; forms and presses that overlap; customers who pay cash only    *)
(* and go on changing their tanks; finance off.                            *)
Collect == INSTANCE BookingPayment WITH
  Finance <- TRUE, Form <- {}, Press <- {}, Amount <- {0, 1, 2}, Mode <- {"Cash", "TOP"},
  Agreement <- {"None", "Both", "Cash", "TOP"}, MaxInvoice <- 3, TankEdits <- FALSE
PayFirst == INSTANCE BookingPayment WITH
  Finance <- TRUE, Form <- {"f1", "f2"}, Press <- {"p1"}, Amount <- {0, 1}, Mode <- {"Cash"},
  Agreement <- {"None"}, MaxInvoice <- 2, TankEdits <- TRUE
CashOnly == INSTANCE BookingPayment WITH
  Finance <- TRUE, Form <- {}, Press <- {}, Amount <- {0, 1, 2}, Mode <- {"Cash"},
  Agreement <- {"None", "Cash"}, MaxInvoice <- 3, TankEdits <- TRUE
ByHand == INSTANCE BookingPayment WITH
  Finance <- FALSE, Form <- {"f1", "f2"}, Press <- {}, Amount <- {0, 1}, Mode <- {"Cash"},
  Agreement <- {"None"}, MaxInvoice <- 1, TankEdits <- TRUE

ASSUME DepositBounds == Rivals!ClaimAssumption /\ Rivals!TotalAssumption /\ Rivals!OverlapAssumption
ASSUME BillingBounds ==
  /\ Billing!OrderAssumption /\ Billing!NoneAssumption /\ Billing!OverlapAssumption
  /\ Owners!OrderAssumption /\ Owners!NoneAssumption /\ Owners!OverlapAssumption
ASSUME StorageBounds ==
  /\ Nights!BoundAssumption /\ Nights!SwitchAssumption /\ Nights!OutcomeAssumption
  /\ ExitBills!BoundAssumption /\ ExitBills!SwitchAssumption /\ ExitBills!OutcomeAssumption
ASSUME PaymentBounds ==
  /\ Collect!AmountAssumption /\ Collect!ModeAssumption /\ Collect!AgreementAssumption /\ Collect!SwitchAssumption
  /\ PayFirst!AmountAssumption /\ PayFirst!ModeAssumption /\ PayFirst!AgreementAssumption /\ PayFirst!SwitchAssumption
  /\ CashOnly!AmountAssumption /\ CashOnly!ModeAssumption /\ CashOnly!AgreementAssumption /\ CashOnly!SwitchAssumption
  /\ ByHand!AmountAssumption /\ ByHand!ModeAssumption /\ ByHand!AgreementAssumption /\ ByHand!SwitchAssumption

rivals == <<cash, draw, saving>>
orders == <<order, invoice, terms, run, opening>>
storage == <<today, tank, trail, gate, row, bill>>
booking == <<bk, inv, form, press, contract, bon>>
rivalsOff == cash = "off" /\ draw = "off" /\ saving = "off"
ordersOff == order = "off" /\ invoice = "off" /\ terms = "off" /\ run = "off" /\ opening = "off"
storageOff == today = "off" /\ tank = "off" /\ trail = "off" /\ gate = "off" /\ row = "off" /\ bill = "off"
bookingOff == bk = "off" /\ inv = "off" /\ form = "off" /\ press = "off" /\ contract = "off" /\ bon = "off"

DeskInit ==
  /\ Init
  /\ \/ part = "deposit" /\ rivalsOff /\ ordersOff /\ storageOff /\ bookingOff
     \/ part = "rivals" /\ Rivals!Init /\ ordersOff /\ storageOff /\ bookingOff
     \/ /\ rivalsOff /\ storageOff /\ bookingOff
        /\ \/ part = "billing" /\ Billing!Init
           \/ part = "owners" /\ Owners!Init
     \/ /\ rivalsOff /\ ordersOff /\ bookingOff
        /\ \/ part = "nights" /\ Nights!Init
           \/ part = "exitBills" /\ ExitBills!Init
     \/ /\ rivalsOff /\ ordersOff /\ storageOff
        /\ \/ part = "collect" /\ Collect!Init
           \/ part = "payFirst" /\ PayFirst!Init
           \/ part = "cashOnly" /\ CashOnly!Init
           \/ part = "byHand" /\ ByHand!Init

DepositStep == part = "deposit" /\ Next /\ UNCHANGED <<rivals, orders, storage, booking>>
RivalStep == part = "rivals" /\ Rivals!Next /\ UNCHANGED <<vars, orders, storage, booking>>
BillingStep ==
  /\ \/ part = "billing" /\ Billing!Next
     \/ part = "owners" /\ Owners!Next
  /\ UNCHANGED <<vars, rivals, storage, booking>>
StorageStep ==
  /\ \/ part = "nights" /\ Nights!Next
     \/ part = "exitBills" /\ ExitBills!Next
  /\ UNCHANGED <<vars, rivals, orders, booking>>
BookingStep ==
  /\ \/ part = "collect" /\ Collect!Next
     \/ part = "payFirst" /\ PayFirst!Next
     \/ part = "cashOnly" /\ CashOnly!Next
     \/ part = "byHand" /\ ByHand!Next
  /\ UNCHANGED <<vars, rivals, orders, storage>>

DeskNext == (DepositStep \/ RivalStep \/ BillingStep \/ StorageStep \/ BookingStep) /\ UNCHANGED part

deskVars == <<part, vars, rivals, orders, storage, booking>>

DeskSpec == DeskInit /\ [][DeskNext]_deskVars
-----------------------------------------------------------------------------
(* No work order is charged twice in one currency, by hand or by the       *)
(* monthly run, through cancels, deletions, re-dated bons and moves between*)
(* owners; and no day of a stay twice, where a visit's invoices are undone *)
(* and picked again newest first (collect_orders, plan_bill).              *)
NothingBilledTwice ==
  /\ part = "billing" => Billing!NoDoubleBill
  /\ part = "owners" => Owners!NoDoubleBill
  /\ part = "nights" => Nights!NoDayTwice

(* An order's one link names an invoice that bills it, what a rollback     *)
(* gives back is what the customer is asked to pay, every billed order     *)
(* stands finished, and no finished order falls out of what can be billed  *)
(* (_mark_invoiced, restore_link, release_lines).                          *)
LinksAgree ==
  /\ part = "billing" =>
       /\ Billing!TypeOK /\ Billing!LinkAgrees /\ Billing!ManifestIsLines
       /\ Billing!BilledIsFinished /\ Billing!NothingLost
  /\ part = "owners" => Owners!TypeOK /\ Owners!LinkAgrees /\ Owners!ManifestIsLines /\ Owners!BilledIsFinished

(* What a storage row shows as billed and as owing splits its stay, after  *)
(* any billing, undoing, picking again, re-dating, voiding and pruning.    *)
(* Its watermark is the last day of the invoice it names, and, where       *)
(* invoices go newest first, the last day any standing one took (upsert,   *)
(* _give_back, _refill).                                                   *)
LedgerAddsUp ==
  /\ part = "nights" => Nights!TypeOK /\ Nights!WatermarkAgrees /\ Nights!DaysAddUp /\ Nights!LastNamed
  /\ part = "exitBills" => ExitBills!TypeOK /\ ExitBills!DaysAddUp /\ ExitBills!LastNamed

(* A Confirmed booking that reads Paid is backed by a settled invoice, the *)
(* only live one; while no tank joins or leaves its draft, that invoice    *)
(* asks what its charges say; its money moves it on; and with finance off  *)
(* a Confirmed Cash booking has been marked paid                           *)
(* (_enforce_cash_paid_invoice, generate_invoice, sync_bookings_for_invoice).*)
(* Cashiers who post on one deposit at the same moment do not overdraw it  *)
(* (apply_kasbon).                                                         *)
PaymentsAgree ==
  /\ part = "rivals" => Rivals!TypeOK /\ Rivals!NeverOverdrawn
  /\ part = "collect" => Collect!TypeOK /\ Collect!PaidIsBacked /\ Collect!AmountFrozen /\ Collect!LiveInvoiceLinked
  /\ part = "payFirst" => PayFirst!TypeOK /\ PayFirst!PaidIsBacked
  /\ part = "cashOnly" =>
       /\ CashOnly!TypeOK /\ CashOnly!PaidIsBacked /\ CashOnly!LiveInvoiceLinked /\ CashOnly!NotLeftWaiting
  /\ part = "byHand" => ByHand!TypeOK /\ ByHand!ConfirmedIsPaid

(* A booking the customer has handed over never returns to the Draft that  *)
(* hides it from every internal list (rollback_to_draft, submit_request).  *)
HandedOverStaysSeen == [][part = "collect" => Collect!HandedOverKept]_deskVars
=============================================================================
