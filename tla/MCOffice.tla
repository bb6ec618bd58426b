------------------------------ MODULE MCOffice ------------------------------
(***************************************************************************)
(* The screens work is typed on, on phones and at desks, the bells that    *)
(* call for it and what prices and bills it.  They share no state here, so *)
(* a behaviour is about one of them, its part, chosen at the start; the    *)
(* variables of the others stay off.                                       *)
(***************************************************************************)
EXTENDS Naturals, TLC

CONSTANTS None, k1, k2, k3

VARIABLES
  part,
  kind, eir, form, wire, sending, up, cached,                          \* EirForm
  open, text, draftTyped, timer, again, busy, draftWire, draft,        \* FormDraft
  draftSending, sent, failed,
  bon, gateLine, date, held, blocked, shown, step, selected, gateForm, \* GateScreen
  revising, start, typed, flight, last, office,
  jobKind, job, jobForm, jobWire, shotFor, struck,                     \* JobForm
  noticeKind, stage, billed, request, opener, bells, asked,            \* Notices
  holder, granted, phoneRow, bell, ringing, queue, pushJob, banner,    \* Push
  missed,
  status, amends, base, money, lines, until, today, expired, checked,  \* RateCard
  edits,
  card, tanks, row, chargeAsked, saved, dirty,                         \* ChargeForm
  doc, rowsForm, rowsStage, branch, number, rowsStruck,                \* InvoiceRows
  pickStage, ccy, conv, on, line, elsewhere, ready, exchange, dialog,  \* InvoicePick
  pickEdits

eirs == <<kind, eir, form, wire, sending, up, cached>>
drafts == <<open, text, draftTyped, timer, again, busy, draftWire, draft,
            draftSending, sent, failed>>
gates == <<bon, gateLine, date, held, blocked, shown, step, selected, gateForm,
           revising, start, typed, flight, last, office>>
jobs == <<jobKind, job, jobForm, jobWire, shotFor, struck>>
notices == <<noticeKind, stage, billed, request, opener, bells, asked>>
pushes == <<holder, granted, phoneRow, bell, ringing, queue, pushJob, banner, missed>>
cards == <<status, amends, base, money, lines, until, today, expired, checked, edits>>
charges == <<card, tanks, row, chargeAsked, saved, dirty>>
invoices == <<doc, rowsForm, rowsStage, branch, number, rowsStruck>>
picks == <<pickStage, ccy, conv, on, line, elsewhere, ready, exchange, dialog, pickEdits>>

deskVars == <<part, eirs, drafts, gates, jobs, notices, pushes, cards, charges, invoices, picks>>

eirsOff ==
  /\ kind = "off" /\ eir = "off" /\ form = "off" /\ wire = "off"
  /\ sending = "off" /\ up = "off" /\ cached = "off"
draftsOff ==
  /\ open = "off" /\ text = "off" /\ draftTyped = "off" /\ timer = "off" /\ again = "off"
  /\ busy = "off" /\ draftWire = "off" /\ draft = "off" /\ draftSending = "off"
  /\ sent = "off" /\ failed = "off"
gatesOff ==
  /\ bon = "off" /\ gateLine = "off" /\ date = "off" /\ held = "off" /\ blocked = "off"
  /\ shown = "off" /\ step = "off" /\ selected = "off" /\ gateForm = "off" /\ revising = "off"
  /\ start = "off" /\ typed = "off" /\ flight = "off" /\ last = "off" /\ office = "off"
jobsOff ==
  /\ jobKind = "off" /\ job = "off" /\ jobForm = "off" /\ jobWire = "off"
  /\ shotFor = "off" /\ struck = "off"
noticesOff ==
  /\ noticeKind = "off" /\ stage = "off" /\ billed = "off" /\ request = "off"
  /\ opener = "off" /\ bells = "off" /\ asked = "off"
pushesOff ==
  /\ holder = "off" /\ granted = "off" /\ phoneRow = "off" /\ bell = "off" /\ ringing = "off"
  /\ queue = "off" /\ pushJob = "off" /\ banner = "off" /\ missed = "off"
cardsOff ==
  /\ status = "off" /\ amends = "off" /\ base = "off" /\ money = "off" /\ lines = "off"
  /\ until = "off" /\ today = "off" /\ expired = "off" /\ checked = "off" /\ edits = "off"
chargesOff ==
  /\ card = "off" /\ tanks = "off" /\ row = "off" /\ chargeAsked = "off"
  /\ saved = "off" /\ dirty = "off"
invoicesOff ==
  /\ doc = "off" /\ rowsForm = "off" /\ rowsStage = "off" /\ branch = "off"
  /\ number = "off" /\ rowsStruck = "off"
picksOff ==
  /\ pickStage = "off" /\ ccy = "off" /\ conv = "off" /\ on = "off" /\ line = "off"
  /\ elsewhere = "off" /\ ready = "off" /\ exchange = "off" /\ dialog = "off" /\ pickEdits = "off"

-----------------------------------------------------------------------------
(* The EIR's form: the arrival's, whose photos go up at once or wait on    *)
(* the phone; the departure's, with everything the arrival's cannot take.  *)
EirIn == INSTANCE EirForm WITH
  Kinds <- {"EIR-In"}, Mark <- {"m1"}, Photo <- {"p1"}, Slot <- {"s1"}, MaxWire <- 2, Lapse <- {}
EirParked == INSTANCE EirForm WITH
  Kinds <- {"EIR-In"}, Mark <- {"m1"}, Photo <- {"p1"}, Slot <- {"s1"}, MaxWire <- 1,
  Lapse <- {"parks"}
EirOut == INSTANCE EirForm WITH
  Kinds <- {"EIR-Out"}, Mark <- {"m1"}, Photo <- {"p1"}, Slot <- {"s1"}, MaxWire <- 2,
  Lapse <- {"parks", "overtakes", "cached", "sorts while open"}

Draft == INSTANCE FormDraft WITH
  Tank <- {"t1", "t2"}, MaxEdit <- 2, MaxWire <- 2, Lapse <- {},
  typed <- draftTyped, wire <- draftWire, sending <- draftSending

(* The gate, with an office that edits the booking meanwhile, and unpaid   *)
(* or held tanks.                                                          *)
GateIn == INSTANCE GateScreen WITH
  Tank <- {"t1", "t2"}, Word <- {"x"}, Outbound <- FALSE, MaxBon <- 1, MaxOffice <- 0, Lapse <- {},
  line <- gateLine, form <- gateForm
GateOut == INSTANCE GateScreen WITH
  Tank <- {"t1", "t2"}, Word <- {"x"}, Outbound <- TRUE, MaxBon <- 2, MaxOffice <- 1, Lapse <- {},
  line <- gateLine, form <- gateForm

(* One order on two phones in turn; two orders on one.                     *)
TwoPhones == INSTANCE JobForm WITH
  Kinds <- {"cleaning", "repair", "survey"}, Job <- {"j1"}, Phone <- {"f1", "f2"},
  Photo <- {"p1"}, Note <- {"", "x"}, Blank <- "", None <- "None", SameItem <- TRUE,
  MaxWire <- 2, Lapse <- {}, kind <- jobKind, form <- jobForm, wire <- jobWire
TwoJobs == INSTANCE JobForm WITH
  Kinds <- {"cleaning", "repair", "survey"}, Job <- {"j1", "j2"}, Phone <- {"f1"},
  Photo <- {"p1"}, Note <- {""}, Blank <- "", None <- "None", SameItem <- TRUE,
  MaxWire <- 2, Lapse <- {}, kind <- jobKind, form <- jobForm, wire <- jobWire

Crews == {"c1", "c2"}
Everything == {"Inspection", "Cleaning Order", "Repair Order", "Survey Order"}
Bells == INSTANCE Notices WITH
  Kinds <- Everything, Crew <- Crews, None <- "None", Lapse <- {}, kind <- noticeKind
Survey == INSTANCE Notices WITH
  Kinds <- {"Survey Order"}, Crew <- Crews, None <- "None",
  Lapse <- {"reopens survey", "closes some tanks"}, kind <- noticeKind

(* One phone passed between two operators; a phone each.                   *)
OnePhone == INSTANCE Push WITH
  User <- {"u1", "u2"}, Phone <- {"p1"}, None <- "None", Worker <- {"w"}, MaxBell <- 3,
  MaxFailures <- 2, Lapse <- {}, row <- phoneRow, job <- pushJob
PhoneEach == INSTANCE Push WITH
  User <- {"u1", "u2"}, Phone <- {"p1", "p2"}, None <- "None", Worker <- {"w"}, MaxBell <- 1,
  MaxFailures <- 1, Lapse <- {}, row <- phoneRow, job <- pushJob

(* A contract and two that amend it or each other; two, corrected as       *)
(* drafts.                                                                 *)
Cards == INSTANCE RateCard WITH
  Contract <- {k1, k2, k3}, Currency <- {"IDR", "USD"}, MaxDay <- 2, MaxEdit <- 0, Lapse <- {}
Drafted == INSTANCE RateCard WITH
  Contract <- {"a", "b"}, Currency <- {"IDR", "USD"}, None <- "None", MaxDay <- 3, MaxEdit <- 1,
  Lapse <- {}

ContractMoney == 0 :> "IDR" @@ 1 :> "USD"
TwoItems == INSTANCE ChargeForm WITH
  Row <- {"r1"}, Item <- {"i1", "i2"}, Money <- ContractMoney, MaxTank <- 3,
  Lapse <- {}, asked <- chargeAsked
TwoLines == INSTANCE ChargeForm WITH
  Row <- {"r1", "r2"}, Item <- {"i1"}, Money <- ContractMoney, MaxTank <- 1,
  Lapse <- {}, asked <- chargeAsked

(* A template that charges a fee on the net total and a levy on the fee.   *)
Template == <<"fee", "levy">>
TemplateBase == "fee" :> "net total" @@ "levy" :> "fee"
Rows == INSTANCE InvoiceRows WITH
  Extras <- Template, RestsOn <- TemplateBase, Branch <- {"jkt", "sby"}, None <- "None",
  Lapse <- {"moves branch"}, form <- rowsForm, stage <- rowsStage, struck <- rowsStruck

Orders == "o1" :> "IDR" @@ "o2" :> "USD"
Picks == INSTANCE InvoicePick WITH
  Order <- {"o1", "o2"}, CcyOf <- Orders, Ccy <- {"IDR", "USD"}, Base <- "IDR",
  User <- {"u1"}, Typed <- "typed", MaxKurs <- 2, MaxEdit <- 2, Lapse <- {},
  stage <- pickStage, edits <- pickEdits
OwnKurs == INSTANCE InvoicePick WITH
  Order <- {"o1", "o2"}, CcyOf <- Orders, Ccy <- {"IDR", "USD"}, Base <- "IDR",
  User <- {"u1"}, Typed <- "typed", MaxKurs <- 2, MaxEdit <- 1,
  Lapse <- {"types a line", "one line's kurs"}, stage <- pickStage, edits <- pickEdits

ASSUME ScreenBounds ==
  /\ EirIn!FormAssumption /\ EirParked!FormAssumption /\ EirOut!FormAssumption
  /\ Draft!DraftAssumption
  /\ GateIn!ScreenAssumption /\ GateOut!ScreenAssumption
  /\ TwoPhones!JobAssumption /\ TwoJobs!JobAssumption
ASSUME BellBounds ==
  /\ Bells!NoticeAssumption /\ Survey!NoticeAssumption
  /\ OnePhone!PushAssumption /\ PhoneEach!PushAssumption
ASSUME BillBounds ==
  /\ Cards!CardAssumption /\ Drafted!CardAssumption
  /\ TwoItems!ChargeAssumption /\ TwoLines!ChargeAssumption
  /\ Rows!RowsAssumption /\ Picks!PickAssumption /\ OwnKurs!PickAssumption

Contracts3 == Permutations({k1, k2, k3})

-----------------------------------------------------------------------------
EirPart ==
  \/ part = "eir in" /\ EirIn!Init
  \/ part = "eir parked" /\ EirParked!Init
  \/ part = "eir out" /\ EirOut!Init
DraftPart == part = "draft" /\ Draft!Init
GatePart ==
  \/ part = "gate in" /\ GateIn!Init
  \/ part = "gate out" /\ GateOut!Init
JobPart ==
  \/ part = "two phones" /\ TwoPhones!Init
  \/ part = "two jobs" /\ TwoJobs!Init
NoticePart ==
  \/ part = "bells" /\ Bells!Init
  \/ part = "survey" /\ Survey!Init
PushPart ==
  \/ part = "one phone" /\ OnePhone!Init
  \/ part = "phone each" /\ PhoneEach!Init
CardPart ==
  \/ part = "cards" /\ Cards!Init
  \/ part = "drafted" /\ Drafted!Init
ChargePart ==
  \/ part = "two items" /\ TwoItems!Init
  \/ part = "two lines" /\ TwoLines!Init
RowsPart == part = "rows" /\ Rows!Init
PickPart ==
  \/ part = "picks" /\ Picks!Init
  \/ part = "own kurs" /\ OwnKurs!Init

ScreensOff == eirsOff /\ draftsOff /\ gatesOff /\ jobsOff
BellsOff == noticesOff /\ pushesOff
BillsOff == cardsOff /\ chargesOff /\ invoicesOff /\ picksOff

DeskInit ==
  \/ /\ BellsOff /\ BillsOff
     /\ \/ EirPart /\ draftsOff /\ gatesOff /\ jobsOff
        \/ DraftPart /\ eirsOff /\ gatesOff /\ jobsOff
        \/ GatePart /\ eirsOff /\ draftsOff /\ jobsOff
        \/ JobPart /\ eirsOff /\ draftsOff /\ gatesOff
  \/ /\ ScreensOff /\ BillsOff
     /\ \/ NoticePart /\ pushesOff
        \/ PushPart /\ noticesOff
  \/ /\ ScreensOff /\ BellsOff
     /\ \/ CardPart /\ chargesOff /\ invoicesOff /\ picksOff
        \/ ChargePart /\ cardsOff /\ invoicesOff /\ picksOff
        \/ RowsPart /\ cardsOff /\ chargesOff /\ picksOff
        \/ PickPart /\ cardsOff /\ chargesOff /\ invoicesOff

EirStep ==
  /\ \/ part = "eir in" /\ EirIn!Next
     \/ part = "eir parked" /\ EirParked!Next
     \/ part = "eir out" /\ EirOut!Next
  /\ UNCHANGED <<drafts, gates, jobs>>
DraftStep == part = "draft" /\ Draft!Next /\ UNCHANGED <<eirs, gates, jobs>>
GateStep ==
  /\ \/ part = "gate in" /\ GateIn!Next
     \/ part = "gate out" /\ GateOut!Next
  /\ UNCHANGED <<eirs, drafts, jobs>>
JobStep ==
  /\ \/ part = "two phones" /\ TwoPhones!Next
     \/ part = "two jobs" /\ TwoJobs!Next
  /\ UNCHANGED <<eirs, drafts, gates>>
NoticeStep ==
  /\ \/ part = "bells" /\ Bells!Next
     \/ part = "survey" /\ Survey!Next
  /\ UNCHANGED pushes
PushStep ==
  /\ \/ part = "one phone" /\ OnePhone!Next
     \/ part = "phone each" /\ PhoneEach!Next
  /\ UNCHANGED notices
CardStep ==
  /\ \/ part = "cards" /\ Cards!Next
     \/ part = "drafted" /\ Drafted!Next
  /\ UNCHANGED <<charges, invoices, picks>>
ChargeStep ==
  /\ \/ part = "two items" /\ TwoItems!Next
     \/ part = "two lines" /\ TwoLines!Next
  /\ UNCHANGED <<cards, invoices, picks>>
RowsStep == part = "rows" /\ Rows!Next /\ UNCHANGED <<cards, charges, picks>>
PickStep ==
  /\ \/ part = "picks" /\ Picks!Next
     \/ part = "own kurs" /\ OwnKurs!Next
  /\ UNCHANGED <<cards, charges, invoices>>

ScreenStep ==
  /\ EirStep \/ DraftStep \/ GateStep \/ JobStep
  /\ UNCHANGED <<notices, pushes, cards, charges, invoices, picks>>
BellStep ==
  /\ NoticeStep \/ PushStep
  /\ UNCHANGED <<eirs, drafts, gates, jobs, cards, charges, invoices, picks>>
BillStep ==
  /\ CardStep \/ ChargeStep \/ RowsStep \/ PickStep
  /\ UNCHANGED <<eirs, drafts, gates, jobs, notices, pushes>>

DeskNext == (ScreenStep \/ BellStep \/ BillStep) /\ UNCHANGED part

DeskSpec == DeskInit /\ [][DeskNext]_deskVars
-----------------------------------------------------------------------------
(* What is on a screen and what the server has agree as far as the screen  *)
(* says so: what a Kirim carried stands; whatever is shown and not on the  *)
(* server is due, under way or an error on the screen; no photo is missing,*)
(* dangling or another order's; no draft comes back filled with what was   *)
(* sent; a correction carries what its operator changed and nothing else   *)
(* (EirInForm, EirOutForm, formDraft, GateEntry, CleaningDetail,           *)
(* RepairDetail, SurveyTank).                                              *)
ScreensAgree ==
  /\ part = "eir in" => /\ EirIn!TypeOK /\ EirIn!SentStands /\ EirIn!NothingForgotten
                        /\ EirIn!NoDanglingPhoto
  /\ part = "eir parked" => EirParked!TypeOK /\ EirParked!NothingForgotten /\ EirParked!NoDanglingPhoto
  /\ part = "eir out" => EirOut!TypeOK /\ EirOut!SentStands /\ EirOut!NoDanglingPhoto
  /\ part = "draft" => Draft!TypeOK /\ Draft!SentStaysCleared /\ Draft!TypedIsSaved
  /\ part = "gate in" => /\ GateIn!TypeOK /\ GateIn!UntouchedStands /\ GateIn!DoneIsTheirs
                         /\ GateIn!FormHasTanks
  /\ part = "gate out" => /\ GateOut!TypeOK /\ GateOut!UntouchedStands /\ GateOut!DoneIsTheirs
                          /\ GateOut!FormHasTanks
  /\ part = "two phones" => /\ TwoPhones!TypeOK /\ TwoPhones!SentStands /\ TwoPhones!PhotosOfTheirJob
                            /\ TwoPhones!SavedShows /\ TwoPhones!NothingForgotten
  /\ part = "two jobs" => /\ TwoJobs!TypeOK /\ TwoJobs!SentStands /\ TwoJobs!PhotosOfTheirJob
                          /\ TwoJobs!SavedShows /\ TwoJobs!NothingForgotten

(* A bell stands no longer than the step it rang for and nobody who asked  *)
(* for a revision is forgotten (notify.revoke, notify_revision_answered);  *)
(* a phone rings only for what was committed (push.deliver).               *)
BellsAgree ==
  /\ part = "bells" => /\ Bells!TypeOK /\ Bells!NoCallAhead /\ Bells!VoidIsSilent
                       /\ Bells!RequestOnFinished /\ Bells!NobodyForgotten /\ Bells!OpenDayRings
  /\ part = "survey" => Survey!TypeOK /\ Survey!VoidIsSilent /\ Survey!NobodyForgotten
  /\ part = "one phone" => OnePhone!TypeOK /\ OnePhone!OnlyCommittedRings
  /\ part = "phone each" => PhoneEach!TypeOK /\ PhoneEach!OnlyCommittedRings

(* One contract with lines prices a customer, until its last day or its    *)
(* heir; a saved booking line bills its service's price, in its currency,  *)
(* per tank; an invoice's rows charge what they charged however often they *)
(* are derived again, and its orders are billed once, at one kurs for each *)
(* currency (DepotContract, _price_charges, _rebuild_tax_rows, _refill).   *)
BillsAgree ==
  /\ part = "cards" => /\ Cards!TypeOK /\ Cards!OneRateCard /\ Cards!AmendedByHeir
                       /\ Cards!NoneOutlivesItsDay /\ Cards!CanBeEnded
  /\ part = "drafted" => /\ Drafted!TypeOK /\ Drafted!OneRateCard /\ Drafted!AmendedByHeir
                         /\ Drafted!NoneOutlivesItsDay /\ Drafted!CanBeEnded
  /\ part = "two items" => /\ TwoItems!TypeOK /\ TwoItems!PriceIsItems /\ TwoItems!RateInItsCurrency
                           /\ TwoItems!BilledPerTank /\ TwoItems!OneCurrency
  /\ part = "two lines" => /\ TwoLines!TypeOK /\ TwoLines!PriceIsItems /\ TwoLines!RateInItsCurrency
                           /\ TwoLines!BilledPerTank /\ TwoLines!OneCurrency
  /\ part = "rows" => /\ Rows!TypeOK /\ Rows!ExtrasStand /\ Rows!SavedIsSettled /\ Rows!ChargedOnce
                      /\ Rows!DeletedStaysOff /\ Rows!ShownExtrasStand /\ Rows!CanBeSaved
  /\ part = "picks" => Picks!TypeOK /\ Picks!BilledOnce /\ Picks!OneKursPerCurrency
  /\ part = "own kurs" => OwnKurs!TypeOK /\ OwnKurs!BilledOnce

(* No step takes back what an earlier one did: the EIR's entries and the   *)
(* office's sorting of its photos, what is typed at the gate, the answer   *)
(* to who asked, a reachable phone's place on the list and its newest      *)
(* banner, a customer's tariff, an order the picker left ticked.           *)
StepsKeep ==
  [][/\ part = "eir in" => EirIn!KeepsWork /\ EirIn!KeepsSorting
     /\ part = "gate in" => GateIn!KeepsTyped
     /\ part = "gate out" => GateOut!KeepsTyped
     /\ part = "bells" => Bells!TellsAnswers
     /\ part = "survey" => Survey!TellsAnswers
     /\ part = "one phone" => OnePhone!KeepsNewest /\ OnePhone!KeepsReachable
     /\ part = "phone each" => PhoneEach!KeepsNewest /\ PhoneEach!KeepsReachable
     /\ part = "cards" => Cards!CutsNobodyOff
     /\ part = "drafted" => Drafted!CutsNobodyOff
     /\ part = "picks" => Picks!MovesAsTicked
     /\ part = "own kurs" => OwnKurs!MovesAsTicked]_deskVars
=============================================================================
