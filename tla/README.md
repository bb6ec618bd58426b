# ERPOakDepo in TLA+

A verification project for the `container_depot` Frappe application: a depot for ISO tanks,
where customers announce moves (Container Booking), trucks bring and fetch tanks on bons (Order
Bongkar in, Order Muat out), every stay is inspected (EIR), may be washed, repaired and surveyed,
and is billed.

The server has no threads of its own: every request is one MariaDB transaction, and what runs
beside requests is a scheduler and the push workers. What is hard about the program is

- that **one fact is written in many documents by many desks**, each of which can submit, send
  back to draft, edit, resubmit and void its own document at any time. Most of what the depot
  reads (a tank's status, its lift-on days, "Completed", "Billed", days still to bill, money left,
  where a tank stands) is a cache or a copy of what others wrote;
- that **requests overlap**: two guards, two cashiers, a button pressed twice, a form opened before
  somebody else's write and saved after it;
- that **work is typed on phones with a bad link**: whole-document autosaves, parked photos, lost
  answers, resends, and screens that are left, reused or reopened while something is under way.

Most defects its comments date and explain are of the first kind.

Paths below are relative to `src/container_depot/container_depot/`, `../` is one level up, and
`pwa:` is `src/frontend/src/`.

## 1. Inventory

| Component | State it keeps | Operations that change it | Correct when |
|---|---|---|---|
| Presence status (`container_status.py`, `doctype/container`) | `Container.status`, `in_date` | `recompute_availability`, `mark_gate_out`, arrival and its rollback | it agrees with the gate log and with the open work of this visit |
| Container Booking, Booking Code (`doctype/container_booking`) | docstatus, codes, reservations | create, Confirm, Kembali ke Draft, void | one booking per move; a reservation is backed by a live booking |
| Booking money (the same doctype, `../payment_entry.py`) | charges, payment type, invoice link, Paid | request, price, generate and redo the invoice, pay, cancel, roll back | Paid is backed; one live invoice; a handed-over request stays visible |
| Bon issue and undo (`order_generation.py`, `../api.py`, `../ess/idempotency.py`) | remembered answers | `gate_generate_order`, `make_order`, `revert_order_to_draft`, `void_order` | the code of a move is on one live bon; one press, one bon |
| Order Bongkar, Order Muat (`doctype/order_bongkar`, `doctype/order_muat`) | docstatus, rows, `Completed` | submit, revert, edit, void | a visit is opened, closed and undone exactly once, by its own bon |
| Gate log (`gate.py`, `doctype/gate_entry`) | one row per visit | `_record_gate_in`, `mark_gate_out`, `reverse_bon_departures`, `link_eir_out` | one open row per tank inside, none per tank away |
| EIR / Inspection, follow-ups (`eir.py`, `eir_followups.py`, `no_eir.py`) | docstatus, voucher, snapshot | provision, adopt, start, submit, revert, void, discard | one draft per type; undo never invents a presence; ordered work holds the tank |
| Order policy (`order_policy.py`) | "Wajibkan Semua Order" | toggle | what the gate waits for follows the switch |
| Cleaning Order (`cleaning.py`, `doctype/cleaning_order`) | status, lines, times, stock issue | start, review, Submit, correct, reopen, cancel, bill | parts leave stock once; times and typed prices stand |
| M&R (`mr.py`, `doctype/repair_order`) | estimate, owner's decision, stock issue, test date | publish, decide, forward, finish, reopen, correct, delete, bill | as above; the tank's test date is a finished test's |
| Tank survey (`tank_survey.py`, `doctype/survey_order`) | days, rows, two steps per row | follow the booking, lower, finish, send back, close | rows follow the booking both ways and lose no work |
| Lift-on, worklist (`lift_on.py`, `worklist.py`) | days stamped on tanks, orders, rows | stamp, mirror, release, close the booking | every copy shows a live booking's days; the urgent go first |
| Container position (`container_position.py`) | readings, newest one on the tank | record, correct, delete, ask | the tank shows its newest reading; the three screens agree |
| Storage ledger, visit dates (`../storage.py`, `../storage_charge.py`, `visit_dates.py`, `bon_revision.py`) | days per visit, billed until | `sync`, the nightly sweep, bill, give back, re-date | a day is billed once; billed + owed = the stay |
| Invoicing (`../consolidated_billing.py`, `../invoicing.py`, `../monthly_invoicing.py`) | billed marks, manifest, lines, tax rows, kurs | pick, re-pick, monthly run, cancel, delete | an order is on one live invoice per currency and never lost |
| Pending cash (`doctype/pending_cash*`, `../payment_entry.py`) | amount, claims on it | allocate, pay, refund, void, bulk action | claims never exceed it |
| Contracts, charge lines (`doctype/depot_contract`, `../pricing_model.py`, `doctype/container_booking/*.js`) | the Active contract; a line's price | activate, amend, expire; pick, price, save | one rate card per customer; a line carries its service's price |
| Notifications, push (`notify.py`, `revision.py`, `../ess/push.py`) | bells, requests for revision, phone registrations | ring, revoke, ask, answer, deliver | a bell stands only for a step still due; everybody who asked is told |
| Field screens (`pwa:pages`, `pwa:data/send.js`, `pwa:utils/serverDraft.js`) | forms, timers, requests, parked photos | autosave, Kirim, leave, reopen | what a screen says was saved was |
| Tutup Order (`closing.py`) | any order's status | close | leaves no document half closed |
| Leak check, access scoping, reports, installation | - | - | section 7 |

How they interact: a bon's submit calls the tank, the gate log, the EIRs, the ledger and the
lift-on release; an EIR's submit calls the follow-ups, the tank and the bon; a work order's save
calls the tank and the bells; a booking's confirm calls the tank, the EIRs, the survey day and the
lift-on stamps; an invoice marks the orders and ledger rows it bills and gives them back.
`PROJECT.json` lists each hazard at its line with the properties that watch it.

## 2. Modules

| Module | What it models |
|---|---|
| `DepotRecords` | constants, variables and types of the core, and what the code reads back from its documents (`LastDeparture`, `HasOpenOrders`, `Settled`, `Blocked`, ...) |
| `BookingDesk`, `BonDesk`, `InspectionDesk` | the desks of the core: booking; both bons with the gate rows, EIRs and codes they touch; EIR, Cleaning, M&R as far as the tank sees them |
| `TankVisit` | composes the desks and the switch into `Spec`, and states the core's properties |
| `YardPresence` | abstract: which tanks are in, which are ready, how many stays are on record. `TankVisit` implements it |
| `GateIssue` | the birth of a bon: overlapping presses, the row lock, the commit, the remembered answer, crashes, lost answers, resends; with fairness |
| `RepairOrder`, `CleaningOrder` | the two work orders from the inside |
| `SurveyOrder`, `LiftOn`, `TankPosition` | what a departure booking sets going in the yard |
| `StorageCharge`, `ConsolidatedBilling` | what is billed: days and orders |
| `BookingPayment`, `PendingCash` | what is paid: one booking's money, one customer's deposit |
| `Purse` | abstract: a purse that is funded, drawn on and never overdrawn. `PendingCash` implements it |
| `EirForm`, `JobForm`, `FormDraft`, `GateScreen` | the screens work is typed on |
| `Notices`, `Push` | the bells of one order, and the phones that ring |
| `RateCard`, `ChargeForm`, `InvoiceRows`, `InvoicePick` | the contract, a booking's charge lines, a draft invoice's tax rows, and its picker |
| `MCTankVisit`, `MCWorkshop`, `MCMoney`, `MCDeparture`, `MCAnswers`, `MCOffice` | the instances TLC checks |
| `TankVisitProofs`, `LiftOnProofs`, `RepairProofs`, `WashProofs`, `BillingProofs`, `StorageProofs` | theorems of the modules of these names |
| `WorkshopProofs`, `MoneyProofs` | theorems of the instances `MCWorkshop` and `MCMoney`, and of the gate, the deposit and one booking's money in them |

Each module's head says what it covers, and the comment of each variable what it stands for in the
code. One action is one request, with everything the handler and its hooks change; where requests
overlap, an action is the part of one between two points at which others can be seen. The
map in `PROJECT.json` names the lines of every definition. Actions, and helpers that translate a
function of the code, keep its name where it has one.

Definitions headed *Fault* are variants of a definition with a plausible bug; no action uses them.
`PROJECT.json` ("mutants") substitutes them to show that each checked property notices.

### The core: state

| Variable | In the code |
|---|---|
| `status[t]`, `inDate[t]` | `Container.status`; whether `in_date` is set |
| `bk[k]`, `code[k][t]`, `paid` | booking docstatus (`New`: not created yet), the state of the Booking Code of line `t`; Cash bookings that read Paid, or are on credit (TOP) for now |
| `bon` | the sequence of all bons in order of creation: booking, tanks on its rows, docstatus, Completed badge |
| `gate[t]` | Gate Entries: bon that brought the tank (`arr`), bon that took it (`muat`), gate-out stamp (`out`), linked EIR-Out (`eout`), status |
| `eir[t]` | the tank's EIRs in order of creation: type, docstatus, `referred_voucher` (`bon`), booking, started, `container_status_before_submit` (`snap`), `born` |
| `work[t]` | the tank's Cleaning Orders and M&Rs: the EIR that filed it (`src`), the EIRs older than it (`seen`), `born`, status |
| `departures[t]` | the clock of gate-out stamps |
| `enforceAll` | "Wajibkan Semua Order" |

The code compares creation times in three ways only: between documents of one table (here: their
index), an order against the tank's last gate-out, and an M&R against the EIR that filed it. So a
document is stamped with the number of departures before it (`born`) and, for a work order, with
the number of EIRs before it (`seen`); no other clock is needed.

A few actions that are not obvious:

- `IssueBongkar` / `IssueMuat` are `make_order(submit=True)`: guard (payment, codes, rows), code
  consumption, and the whole `on_submit`. A bon of this system is never left as a draft by issue;
  drafts come from `revert_order_to_draft`.
- `ReopenPayment` is every way a *confirmed* booking comes to owe again, bons raised or not: its charges or its
  payment type were revised (`_reopen_cash_payment`), its payment or its invoice was cancelled. `MarkPaid` is every
  way it comes to read Paid, and the turn to TOP, which may be issued bons on credit; `MarkUnpaid` is a draft's.
- `RevertMuat` takes the departure back (`reverse_bon_departures`), `RevertBongkar` leaves the
  arrival standing; only `VoidBongkar`, or striking the row off in `EditBongkar`, undoes it.
- `SubmitEIRIn` files its follow-ups first and settles the tank over the result; `RevertEIR` and
  `VoidEIR` write the tank's pre-submit status back and settle it.
- `MoveWork` stands for the moves of `MR_TRANSITIONS` and of the Cleaning Order between the four
  stages the tank can tell apart: not started, working, in review, done. Their inside is in
  `RepairOrder` and `CleaningOrder`.

### The other components

- **GateIssue** keeps what is committed (`bons`, `used`, `confirmed`), the cache (`remembered`), and
  each request's stage: posted, looked up, checked, locked, written, committed. Plain reads are those of the
  request's beginning (REPEATABLE READ); the locking read sees what is committed now. The cache is
  written at once, the bon with the commit. A form mints one id when it opens and resends it.
- **RepairOrder**, **CleaningOrder** keep an order's lines and stock entries apart, as ERPNext does,
  so "what is on hand" is computed from the entries and compared with what the orders say. Saving runs the
  stock hook of the status left and the status reached in one step (`Save`).
- **SurveyOrder** keeps the booking's days as a sequence, because a cancelled day stays and a new one
  is raised beside it; `Confirm`, `Resync` and `revert_booking_to_draft` are the booking's hooks.
- **LiftOn** names a stamp by the booking it shows. Tank, open order, survey row and
  survey header each hold a copy; `Sync` is `sync_booking_targets`, `Refreshed` the recount of % Keluar.
- **TankPosition** has times of moments, two of which may coincide, since readings may be filed late;
  the three read models (board, queue, search) are operators.
- **StorageCharge** keeps gate records, ledger rows and invoices, and a status trail for tanks
  without gate records; every write that syncs may fail to (`Outcomes`), as its `try` allows.
- **ConsolidatedBilling** works on units, one order in one currency; an invoice's manifest and its
  lines are separate, and a run has collected units before it inserts the invoice.
- **PendingCash** keeps documents under way with what they read when they began (`flight`), so overlapping
  requests are two steps, `Begin` and a commit. A bulk action is one transaction.
- **BookingPayment** keeps the forms open at desks: a form that was opened before a `db_set` (which
  leaves `modified` alone) may still be saved after it.
- **EirForm**, **JobForm**, **FormDraft**, **GateScreen** keep the screen, its timer and flags, the
  requests on the wire, and the server's document. A request is handled, and its answer read,
  in steps of their own, and may be lost at either.
- **Notices** is the hand-overs of four doctypes with whom each rings and which bells each withdraws; **Push** is the
  job queued with the commit, the worker that reads the registrations once, and the banner.
- **RateCard**, **ChargeForm**, **InvoiceRows**, **InvoicePick** are Desk forms and their saves: what a
  form computes, and what the server computes again.

### What people are assumed not to do: `Lapse` and its kin

Some things the code permits break its own promises (section 5). They are named, so that a run
can say whether it includes them and everything else can be checked to hold: the constant `Lapse`
in most modules, each element explained where it is declared. The core's are

- `"second bon"`: an arrival bon for a tank that another bon already brought in, or, for a tank
  that is away, one older than the newest. The code tolerates it (`_validate_tank_position`,
  `_sync_container_arrival` speak of "a second bon on a visit that never ended").
- `"past bon"`: resubmitting, editing or voiding the draft of a bon whose own visit is over
  (its tank has left since), or whose departure has been followed by a return.
- `"old departure"`: taking back a departure of a tank that has left again since, or has a newer
  arrival bon: the bon that is undone is not the one the tank last left on.
- `"away EIR"`: taking back an EIR-In that was signed with its tank away, or whose tank is away now.

In five modules the same role is played by more telling constants: `Overlap`
(ConsolidatedBilling, PendingCash: which requests interleave), `Form` and `Press` (BookingPayment:
stale forms, overlapping presses) and `TankEdits` (tanks joining or leaving a draft under its invoice), `DeskEdits`,
`NewestFirst` and `RepickNewest` (StorageCharge: dates edited on the bon's own form, the order a visit's invoices are
undone and picked again in), `CrashAt`, `Evicts` and `Reverts` (GateIssue:
where workers die, whether the cache drops entries, whether the booking is taken back meanwhile).

### How the runs are composed

Components that share state are one specification (the core; booking, survey rows and orders in
`LiftOn` and `SurveyOrder`; form, wire and document in the screens). Components that share none are checked side by
side: an MC module instantiates each with its own variables, a behaviour chooses its *part* at the
start, and the variables of the others hold "off". Every state of every part is then
reached at the cost of the sum of their state spaces instead of the product, and a
property is a conjunction `part = "x" => X!Property`. The composed properties are defined at the
end of each MC module, with what they promise.

## 3. Properties

Each relates at least two pieces of state or a state to an earlier one, and each has a mutant of
the code that breaks it. The names a run checks are in bold; those after them are the parts they are
composed of, with the module that states them.

**The core** (`TankVisit`, checked in `MCTankVisit`)

| Property | Says |
|---|---|
| **VisitsAgree**: OneOpenVisit, PresentIffOpenVisit | a tank has at most one open Gate Entry, and reads present exactly while it has one |
| **BookingsAgree**: CompletedAgrees, BookedIsExpected | an arrival bon's Completed badge is never stale; Booked is backed by a live arrival booking |
| **MuatIsDeparture** | a submitted Order Muat is one closed visit of each of its tanks |
| **LinkIsFinished** | the EIR-Out a standing departure's visit shows is finished and on that very bon, in whatever order they were finished, undone and finished again |
| **DepartureTakesEIR** | a visit that shows none has none to show: no finished EIR-Out of its bon, nor one of its booking that is still free or on a void bon listing the tank (of a tank with one booking to leave on; see section 5) |
| **StatusAgrees** | In_Depot / Available is never stale |
| **CodeOnOneLiveBon** | a Used code is on exactly one live bon, and a tank on a live bon has its code Used |
| **OneDraftEIR** | at most one draft EIR of a type per tank |
| **BonsArePaid** | a bon is born, and a tank leaves, on a confirmed booking whose money is in at that moment, however often the booking has owed, been paid and owed again and the bon been sent back and edited since; a booking with a bon stays confirmed |
| **ReturnsOnlyByBon** | an absent tank becomes present only by a bon's submit or by undoing its newest departure |
| **LeavesClear** | a departing tank is present, has no draft EIR-In of this visit and, with the switch on, reads Available |
| **ImplementsYard** | every request is one step of `YardPresence`: arrive, leave, come back (the stay goes on), never came (no stay), work on one tank, or nothing |

`YardPresence` is what a reader of the dashboard believes; the point of the refinement is that the
undo and redo requests never amount to anything else, e.g. taking a departure back never makes two
stays out of one, and a stay ends only for tanks that were ready. It is instantiated with `here` =
the tanks whose status is present, `ready` = those Available, `stays` = closed Gate Entries.

**Gate and workshop** (`MCWorkshop`)

| Property | Says |
|---|---|
| **OneBonPerCode** (GateIssue) | of overlapping presses, no two leave a live bon on one code, and exactly the codes of live bons are Used |
| **DoneMeansBon** (GateIssue) | a phone that shows step 3 has its bon |
| **PartsAccounted** | the warehouse is short of exactly the parts agreed M&R orders and submitted washes carry |
| **MarksStayClosed**: MarksOnClosed, MarksOnSubmitted | no way back leaves an order billed, or its correction asked for, while it is open |
| **WashFiguresStand**: FinishRetimed, StartBeforeFinish, TypedPriceStands | a wash is timed by its last round; a typed price stands through every save |
| **FactsStand**: OwnersNoKept, DateKept, WorkKept | no step turns an owner's no into a yes, dates a tank's test back but by undoing that test, or changes who washed and since when |

**Money** (`MCMoney`)

| Property | Says |
|---|---|
| **NothingBilledTwice**: NoDoubleBill, NoDayTwice | no order in one currency and, where a visit's invoices are undone and picked again newest first, no day of a stay is on two invoices that stand |
| **LinksAgree**: LinkAgrees, ManifestIsLines, BilledIsFinished, NothingLost | an order's one link names an invoice that bills it; what a rollback gives back is what was billed; billed orders stand finished; an order no invoice bills can be billed |
| **LedgerAddsUp**: DaysAddUp, LastNamed; WatermarkAgrees | in any order of undoing and picking again, billed and owed split the stay and the watermark is the last day of the standing invoice the row names; newest first, it is the last day any standing invoice took |
| **DepositHolds** (PendingCash): ClaimsFit, RefundedAgrees, StatusAgrees, ClaimsOnPaid | claims fit the amount, the totals follow them, and nothing draws on a deposit that is not paid |
| **ImplementsPurse** | the deposit is a purse: funded once, drawn on within what is left, given back |
| **PaymentsAgree**: PaidIsBacked, AmountFrozen, LiveInvoiceLinked, NotLeftWaiting, ConfirmedIsPaid; NeverOverdrawn | Paid rests on a settled invoice, the only live one, for what the charges say as long as no tank joins or leaves its draft; money moves the booking on; cashiers posting on one deposit at the same moment do not overdraw it |
| **HandedOverStaysSeen** | a booking the customer handed over never returns to the Draft that hides it from the office |

**Departure** (`MCDeparture`)

| Property | Says |
|---|---|
| **StampsHold**: StampIsOwned, OrdersShowStamp, WaitingIsStamped, HeaderShowsRows | every lift-on stamp belongs to a live booking listing the tank; orders, rows and headers show it; a waiting tank carries one |
| **UrgentIsServed**: UrgentGoesFirst, NothingWaitsBehindIt | urgent bookings' tanks come before every tank only a calmer one waits for; no booking closes while a tank of it waits |
| **SurveysAgree**: StampsAgree, DayShowsTanks, VoidIsQuiet, EveryTankHasEIR, DayFollowsBooking | rows stand where their stamps say, days show their rows, each tank to be taken with an EIR has it, a void day queues nothing |
| **PlacesAgree**: MasterIsNewest, ScreensAgree | a tank shows its newest reading; board, queue and search agree who must be found |
| **TasksKept**: WorkKept, GoneStaysDone, QueueClosesByReading | a lowering is lost only by hand; a departed tank is not queued again; a tank to be found leaves that queue by a reading, by leaving, or with its booking |

**Screens, bells, bills** (`MCOffice`)

| Property | Says |
|---|---|
| **ScreensAgree** | what a Kirim carried stands; what is shown and not on the server is due, under way or an error on the screen; no photo is missing, dangling or another order's; no draft comes back filled with what was sent; a correction carries only what its operator changed |
| **BellsAgree** | a bell stands no longer than its step; whoever asked for a revision is on the order's flag or was answered; a phone rings only for what was committed |
| **BillsAgree** | one rate card per customer, which can be ended and outlives no last day; a charge line bears its service's price, in its currency, per tank; an invoice's extra rows charge what they charged however often the others are derived; an order is on one invoice, a currency at one kurs |
| **StepsKeep** | no step takes back entries, the office's photo sorting, what is typed at the gate, an answer owed, a reachable phone's registration or newest banner, a customer's tariff, or an order left ticked |

### Liveness

Most steps of this system are a person pressing a button, and nothing obliges anybody to press one; fairness
there would be an assumption about people. `MCAnswers` states liveness where the code itself
comes back to things:

| Property | Says | Fairness it rests on |
|---|---|---|
| **EveryPressEnds** | a phone that waits at the gate is answered or shows an error | a worker serves what was posted (WF of `Served`); InnoDB grants row locks in order of asking, so a waiter gets its turn (SF of `Lock`) |
| **BonReachesItsPhone** | a bon whose answer was lost reaches its operator on a later press, or is voided first | also: an operator who reads an error presses again (WF), which is what the error asks for |
| **HealsInTheEnd**: LedgerHeals | a ledger whose best-effort writes fail is right again and again | the scheduler runs `sync_all` daily (`../hooks.py`), WF |
| EditsSettle | what a form shows and the EIR lacks ends in the EIR or in an error on the screen | a timer fires and a request ends, one way or the other (WF of the phone's and the link's steps) |
| PhonesHeal | a phone dropped from the list, or under another's name, is registered for its holder again | the gate asks at every return of the app until it can be rung (`pushGateNeeded`), WF |

Nothing is assumed of loss: answers may be lost (up to `MaxLoss`), writes may fail at every occasion.

Deadlock is not checked in passing runs: the instances have finitely many bookings, bons, dates
and requests, and when all are used up there is rightly nothing left to do.

## 4. Runs

| Run | Instance | Shows |
|---|---|---|
| `TurnAround` | `MCTankVisit`: one tank; `in1`, `in2` (symmetric), `out1`; 3 bons, 3 EIRs, 2 departures | arrive, inspect, leave, return, with every undo in between; refinement of the abstract yard |
| `YardWork` | one tank, both work kinds, the switch free to change, departures without EIR; 2 bons, 1 EIR, 2 work orders; the lapses "second bon" and "past bon" | the status cache and the gate under work orders, the switch and an office that undoes what it should leave |
| `Pair` | two tanks taken without EIR; `in1` announces one of them, `in2` and `out1` (Cash) both; 3 bons of one or two rows, 2 departures each | what undoing one row does to the other tank; whether a departure waits for the money each time |
| `Workshop` | `MCWorkshop`: two gate forms, one for one tank and one for both, 2 copies of each press, 2 losses, crashes, evictions, a void, a revert; two M&R over one part and one service; two Periodic Tests over three dates; two washes over one part; one wash with two people and four ticks; one wash with prices | the birth of a bon under races and faults; stock, times, prices and marks through every way back |
| `Money` | `MCMoney`: a deposit of 3 with two payments and two refunds; three overlapping cashiers on a deposit of 2; an M&R and a wash of one owner in two currencies; a wash between two owners with three invoices; a tank's two visits over three days billed as they run, undone and picked again newest first; one visit billed at its end, undone and picked again in any order; a booking's money with agreements and no tank edits, with stale forms and one press, for cash customers who go on changing their tanks, and with finance off | billing, undoing and paying in any order |
| `Departure` | `MCDeparture`: two bookings (days 1 and 2) and two symmetric tanks, lapse "take off"; two tanks on one survey day under the switch; one tank over three days; two tanks at one moment; one tank over three moments | the yard's copies, queues and undos |
| `Answers` | `MCAnswers`: the gate as in `Workshop` with one form life each; two visits over two days whose writes fail at will; one EIR form; one phone and two operators | liveness |
| `Office` | `MCOffice`: an EIR-In form with two requests on the wire, one with parked photos, an EIR-Out form that parks, overtakes, opens from the cache and is sorted by the office; two tanks' drafts; the gate screen in and out; one order on two phones and two orders on one; bells of four order kinds and of reopened survey days; one phone for two operators and a phone each; three contracts (symmetric), two contracts corrected as drafts; two services on one line and two lines; an invoice with two template rows and one that changes branch; a picker over two orders in two currencies, also with a line of its own kurs | screens, bells, prices |
| `FollowUps`, `OldDeparture`, `TwiceBilled`, `TwoPresses` | the smallest instance of each | section 5 |

The bounds cap documents, dates, moments, requests under way and faults; every one is a constant whose comment
says "bound", or a set of document names. Why these are enough: the code distinguishes a document, a rival of
it, and what was there before. One tank with two departures and three bons has the shortest
history in which "this visit" and "the previous visit" differ, with a voided or second document in
between; a second visit needs a second arrival booking or a voided first one, hence `in2`. Two forms
of overlapping code sets are the shortest race; two invoices on one order with two currencies, or
three when it changes owner, are the shortest history in which an order's single link must be
restored to a survivor; three days are two bills and a re-dated exit; two wire slots let one save overtake
another; two phones, two jobs or two tanks are "the other one" everywhere else.

## 5. Where code and comments disagree

Four are runs expected to be violated, with the line each quotes in `PROJECT.json` ("findings"):

- `FollowUps` (`FollowUpHolds`): an EIR-In's cleaning is silently adopted by an order left open by
  the previous visit, which `container_open_orders` does not count, so the dirty tank reads Available.
- `OldDeparture` (`ReturnsOnlyByBon`): a tank leaves on a bon, comes back, and leaves again on an older
  departure bon that was a draft meanwhile. Taking the newer bon back reopens the first visit's row
  (`reverse_bon_departures` asks only whether the tank is away on this bon by creation), so the tank
  reads as returned by a departure that was not its last.
- `TwiceBilled` (`NoDayTwice`): of three invoices of a visit, the newest is undone and then the
  oldest, which no longer counts as older; days a standing invoice took are billed again.
- `TwoPresses` (`LiveInvoiceLinked`): two overlapping presses of Generate Invoice both find no invoice and
  both raise one.

The others are reproduced by the named property with the named constants (everything else
as in the passing run, or smaller: two documents of each kind are enough). Each is a thing the code permits and a comment of it denies, or a guard on
one of two paths.

| Module, constants | Property | What happens |
|---|---|---|
| TankVisit: `in1`, `in2`, `out1`, departures without EIR | OneLiveCode | a second arrival is confirmed while the tank is inside and booked out; undoing the first revives its code beside the second (`container_booking.py:1722`) |
| TankVisit "past bon" | MuatIsDeparture | an Order Muat goes to draft and is submitted again after its tank has returned: two departures (`order_generation.py:472`) |
| TankVisit "away EIR" | ReturnsOnlyByBon | reverting the newest EIR-In restores its snapshot after the bon that brought the tank was voided (`eir.py:2817`) |
| TankVisit, two tanks | DepartureTakesEIR, with a struck row counted as stuck | striking a row off a draft Order Muat leaves its finished EIR-Out on that bon, where a new bon does not find it (`order_muat.py:39`) |
| TankVisit: `in1`, `in2`, `out1`, `out2`, arrivals without EIR (`InExempt`), 4 departures | FinishedIsShown | the bon of `out1`, its own EIR-Out finished, adopts the open draft of `out2` when it is submitted again, and has two in the end; sending the one its Gate Entry shows back to draft leaves it showing none, where `gate.py:267` says that one finished for the bon is linked (`eir.py:671,2777`) |
| the same | DepartureTakesEIR without `OneWayOut` | the bon of one booking adopts the draft EIR-Out of the other and leaves its own finished one behind (`eir.py:671`) |
| TankVisit, two tanks, `in2` Cash | BonsArePaid, asked of every arrival too | an arrival bon is sent back, its booking owes again, a tank is added (`EditBongkar` asks no payment) and it is submitted again: the tank comes in unpaid, where `container_booking.py:339` says the bon and the gate refuse until the new invoice is paid (`order_bongkar.py`; `gate.py:296` asks it of departures alone) |
| GateIssue `CrashAt` with "written" | DoneMeansBon | the answer is cached before the commit: a worker killed between leaves an answer without a bon for a day (`../ess/idempotency.py:81`) |
| GateIssue `Reverts` | BonsStandOnConfirmed | Kembali ke Draft takes no lock and cannot see an uncommitted bon (`order_generation.py:209`) |
| RepairOrder, two tests | DateIsBacked, DateIsNewest | reopening two tests in one order of two writes an undone date back, or wipes a standing one (`repair_order.py:345`) |
| ConsolidatedBilling, a wash, two owners | NothingLost | after a transfer the unbilled currency reads as billed (`../consolidated_billing.py:121`) |
| ConsolidatedBilling `Overlap` | NoDoubleBill, BilledIsFinished | two runs bill the same units; a reopen loaded before the sweep wipes the mark (`../consolidated_billing.py:926`, `mr.py:1155`) |
| StorageCharge, one visit; `DeskEdits` | BilledVisitStands; BilledInsideStay | a billed arrival is voided; dates move on the bon's own form under an invoice (`bon_revision.py:178`, `order_bongkar.py:39`) |
| StorageCharge, one visit | PaidIsBilled, LeavingCloses | a bill that starts late marks skipped days as paid; the departure's hook syncs before the day out is stamped (`../consolidated_billing.py:372`, `gate.py:320`) |
| StorageCharge `Known` FALSE | NoGhostStay, NoDayTwice | voiding the only arrival leaves a row that accrues; the trail's row and the gate's row offer the same days (`order_bongkar.py:449`, `../storage_charge.py:105`) |
| StorageCharge `RepickNewest` FALSE | NoDayTwice, WatermarkAgrees | A bills days of a running visit, B later ones; picking draft A again and keeping the visit writes A's last day and name back on its row, and B's days are billed again. `_give_back` looks for a later invoice, `_refill` does not (`../consolidated_billing.py:837,661`) |
| PendingCash `Overlap` {p1,r1}; {p1,r1,r2}; {p1,PC} | ClaimsFit; NeverOverdrawn | two drafts pass on one balance; a refund's roll-up is overwritten; Pay is undone under a payment (`../payment_entry.py:685`, `pending_cash.py:487,551`) |
| CleaningOrder `Typed` with 0; plain | TypedPriceStands; NoRequestOnInvoiced | a wash made free is priced again; an order waiting for its correction is swept onto an invoice (`cleaning_order.py:230`, `../consolidated_billing.py:214`) |
| BookingPayment `TankEdits`, two amounts | AmountFrozen | a tank joins or leaves a draft that awaits its payment: the locked charges are compared before `_price_charges` rewrites their quantity, so the total moves under the live invoice, where the guard's docstring says that no change of containers touches what was invoiced (`container_booking.py:159-161,1183,1553`) |
| BookingPayment `Form` {f1} | AmountFrozen, HandedOverKept | a form opened before the invoice, or before the hand-over, is saved after it (`container_booking.py:2148,2922`) |
| BookingPayment, Cash and TOP | TopCarriesNoDraft, NotLeftWaiting, PendingMeansInvoice | a Cash draft with its invoice becomes TOP, and its payment then confirms nothing; a cancelled invoice leaves Pending Payment without one (`container_booking.py:88,3190,3080`) |
| BookingPayment `Finance` FALSE, Cash and TOP | ConfirmedIsPaid | Revisi Data makes a TOP booking with a bon Cash and leaves its label Unpaid: its next bon is refused (`container_booking.py:327,344`) |
| BookingPayment `Form` {f1} | NotLeftWaiting | a form opened while the payment was awaited is saved after it (`container_booking.py:133`) |
| SurveyOrder, days beyond one | QueuedIsVisible, ResumesWhereItStood, FilledStays, VoidWaits | Kembali ke Draft and Confirm again: rows on a day shown Cancelled, a lowering forgotten, a filled EIR-Out voided, the wait for a submitted one skipped (`tank_survey.py:213-218`, `container_booking.py:2609`) |
| SurveyOrder "dead row" | ClaimsLive | a row of a voided day is finished again and claims the live EIR-Out (`tank_survey.py:1071`) |
| LiftOn "rival draft"; "late sync" | ReleaseSparesOthers; NextVisitIsClean | a draft's stamp overwrites another's, and voiding it clears them; a completed booking stamps a tank that left (`lift_on.py:120,111`) |
| LiftOn | NewRowsUrgent, CollectedCloses, ClosedStaysClosed | rows raised at Confirm are never urgent; a fully collected booking stays open or opens again with a tank's next visit (`tank_survey.py:346`, `lift_on.py:357,372`) |
| LiftOn "old bon" | NothingWaitsBehindIt | a departure bon goes back to draft after its tank has returned: nothing is taken back, and the tank waits behind a booking that has closed (`order_generation.py:472`) |
| TankPosition "moves a reading" | MasterIsNewest | correcting the tank of a reading refreshes only the tank it now names (`container_position.py:65`) |
| EirForm "parks", "overtakes" on EIR-In | SentStands | an autosave that is still under way lands after Kirim's own (`pwa:pages/EirInForm.vue:389`) |
| EirForm "exits early"; "types on", "reopens", "cached"; "sorts while open" | NothingForgotten; WorkKept; SortingStands | whole-document saves of an older screen take back newer work (`EirInForm.vue:1221,839,545`) |
| FormDraft "leaves while sending"; "turns to another tank", "comes back early" | SentStaysCleared; TypedIsSaved | one timer and flight serve every tank (`pwa:pages/TankPosition.vue:537`) |
| GateScreen "works on"; "next while revising" | DoneIsTheirs, TypedKept, FormHasTanks; UntouchedStands | an answer meant for an earlier booking lands on the next form (`GateEntry.vue:1085,333`) |
| JobForm "two at once"; "leaves early", "types on"; "empties"; "switches while busy" | SavedShows, NothingForgotten, SentStands, PhotosOfTheirJob | the last whole album wins; an upload binds to the order now on the screen (`mr.py:1437`, `CleaningDetail.vue:479,546,644`) |
| Notices "reopens M&R", "reopens survey"; "asks twice"; "answers late"; "closes some tanks" | NoCallAhead, RequestOnFinished; NobodyForgotten, AnswersTold; VoidIsSilent; OpenDayRings | the path without a revoke, the second asker, the answer after the void (`mr.py:1124`, `notify.py:647`, `closing.py:294`) |
| Push "registers while sent to", two workers | OwnPhoneRings, ReachableStaysListed, NewestBannerStays | a worker sends from the registrations it read once (`../ess/push.py:41,167`) |
| RateCard "presses overlap"; "base changes currency" | OneRateCard; NoneOutlivesItsDay, CanBeEnded | two activations pass each other's check; a contract that no longer saves stops expiring (`depot_contract.py:151`, `tasks.py:20`) |
| ChargeForm "picks again", "saves early"; "amended meanwhile"; "adds tanks to unsaved lines" | PriceIsItems; RateInItsCurrency; BilledPerTank | the answer for the earlier pick lands; the save trusts the form's quantity (`container_booking.js:1235,1175`) |
| InvoiceRows "rebuilds over extras"; "deletes under extras"; "moves branch" | ExtrasStand, ShownExtrasStand, CanBeSaved; NumberNamesBranch | row numbers move under rows that rest on them; the series is drawn before the branch is settled (`sales_invoice.js:655`, `../invoicing.py:321,708`) |
| InvoicePick "two dialogs"; "types a line", "one line's kurs" | PicksMoveAsTicked; OneKursPerCurrency | a second dialog's older list is applied whole; a line's own kurs survives a re-pick (`../consolidated_billing.py:793`, `../invoicing.py:758`) |

## 6. Proofs

TLC shows a property on a small instance; the theorems below hold for every value of the constants
that satisfies the module's assumptions.

`TankVisitProofs` has three parts. The first, for every value of the constants satisfying `DepotAssumption`:

- `TypeCorrect == Spec => []TypeOK`. One lemma per desk helper that builds a record or a
  sequence (what it returns is an `EIRRec`, a `GateRec`, a `Seq(WorkRec)`, ...), one per action,
  and a case split over `Next`. `TypeOK` is inductive as it stands.
- `BonsPaid == Spec => BonsArePaid`. That a bon's booking is confirmed is an invariant (`BonsConfirmed`,
  inductive with `TypeOK`: a booking with a bon to its name is neither reverted nor voided). That it is *paid* is not:
  `ReopenPayment` may come between any two steps. What holds is that each bon is born, and each tank leaves, on money
  that is in (`AskedForMoney`): of all requests only the issue and the second submit of an Order Muat count a
  departure, both ask, and `DepartStamps` shows that the Gate Entry of every tank they take names that very bon.
- `CodesOnce == Spec => []CodeOnOneLiveBon`. The invariant `CodesFit` says it without
  counting: the live bons of a line are exactly one when its code is consumed, else none. Issue
  and edit take only Active codes, so the new bon is alone; void and a struck row free the code
  of the one bon that held it; everything else leaves the standing of bons as it was.
- `OneDraftOpen == Spec => []OneDraftEIR`. Rewriting EIRs without making a draft
  of one that was not (`NoFresh`) keeps drafts apart. The three that do make one ask first: an
  arrival and a confirmed Tank Out file only where no draft of that type is open, Kembalikan ke
  Draft only where no draft of any type is.

The second is about the stored status:

- `StatusNeverStale == Spec => []StatusAgrees`. `TypeOK /\ StatusAgrees` is inductive. The
  recomputation (`Settled`) writes a value that depends on four things of the tank only: its draft
  EIR-Ins, its open Cleaning and M&R, its gate-out stamps, and the old
  status. Two facts carry the proof. Settling a settled tank changes nothing. And each action either
  leaves all four things of a tank alone (`SameHolding` for the drafts, `SameDepartures` for the
  stamps, the unchanged `work`), or stores the status `Settled` gives over what it has just written. The
  proof has one lemma per desk helper and per action on top of these.
- `DeparturesAreClear == Spec => LeavesClear`. An action property: the only steps that add a
  gate-out stamp go through the guard `Blocked` of the Order Muat. That guard reads the stored status, so the theorem
  needs `StatusNeverStale` to know that what it read is not stale.
- `PapersSpeakTrue == Spec => []BookingsAgree`, with every lapse. The invariant `PapersAgree` is
  `BonsListed` (a bon's tanks are on its booking's lines), the two parts of `BookingsAgree`, and
  `PapersBacked`: an EIR and its pre-submit snapshot belong to a tank an arrival bon brought, so
  putting a snapshot back cannot make a tank Booked that no live booking expects. An EIR's verdict
  concerns the one bon it names; a request that changes it refreshes that bon.

- `LinksAreFinished == Spec => []LinkIsFinished`, with every lapse. The invariant `LinksStand` says more than the
  property, since a bon in draft keeps its rows and may be submitted again: every row that names an EIR-Out, standing or not, names
  a finished one, on the row's own bon unless that bon is void. It is preserved because a
  finished EIR-Out stays finished and on its bon (`StaysSigned`) except in two requests: a revert or void,
  which takes it off every row first, and the void of its bon, after which nobody reads the row. A bon's
  submit adopts only drafts and EIR-Outs on no bon, and `LinksStand` says no row names such a one, save those of void bons.

The third is about tanks coming and going, of an office that keeps the rules (`Lapse = {}`):

- `RegisterIsTrue: Spec => []VisitsAgree`. The invariant `YardAgrees` ties a tank's gate log, status, visit
  date and newest arrival bon together: at most one standing row per arrival bon and one open row at most, that
  row on the newest arrival bon and there exactly while the tank is present, closed rows numbered by
  departures, each row on a bon that is there. It is in
  terms of the whole log and not only of the open row, because undoing a departure opens a closed row again.
- `YardImplemented: Spec => ImplementsYard`: each request is one step of `YardPresence` or none. A departure
  adds one closed row (a stay), taking it back removes that one, and linking EIR-Outs to rows
  changes none of their numbers. So the map from closed rows to departure numbers is one-to-one, and counting stays
  is counting numbers; cardinalities of finite sets come from the library's theorems.
- `OnlyBonsReturn: Spec => ReturnsOnlyByBon`, an action property.
- `MuatLeavesOnce: Spec => []MuatIsDeparture`. `YardAgrees /\ LeftOnce`: each tank of a standing Order Muat has
  exactly one row closed by that bon.

The hypothesis `Lapse = {}` is needed: with `"second bon"` a tank has two rows of one visit, with
`"past bon"` one bon takes it away twice, with `"old departure"` (the run) and `"away EIR"` it comes back with no bon of its
own. Nothing else of the office's freedom is taken away: bons and EIRs are undone, edited and redone in any order.

`DepotAssumption` says only that the booking sets, lines and bounds have their types. Except for
those of its third part, the proofs about the core cover all lapses, which no run could do together; all of
them cover any number of tanks per booking and any bounds.

The first part of `WorkshopProofs` is about the gate's requests side by side (`GateIssue`):

- `CodesSpentOnce == Spec => []OneBonPerCode`, for any number of forms, copies, losses, evictions,
  reverts, and wherever a worker dies. The inductive invariant `CodesInv` is
  `Shape /\ HeldIsFree /\ OneBonPerCode`. `HeldIsFree` is what makes it inductive: a request that has passed
  the locking read, whose codes it holds, found them unused, and they stay so until it commits; two such requests hold disjoint codes.
  That the database writes are made at the commit and not before is why a crash needs no repair.
- `DonePhonesHaveBons`: if `"written"` is not among the stages a worker may die at, then `Spec =>
  []DoneMeansBon`. The invariant `AnswersBacked` says where an answer can come from: the cache, a request
  that has only its commit left, or an answered request, each backed by a bon of the same form and id.
  The assumption is exactly the window of section 5 (`CrashAt` with "written"): the theorem says that
  it is the only one.

`LiftOnProofs`, for any bookings, tanks and survey days:

- `StampsFollowBookings: Spec => [](StampIsOwned /\ OrdersShowStamp)`, with every lapse. `StampInv` adds
  `Shape`, the part of the types that is needed. Everything goes through one lemma on `Sync`: a tank it
  touches carries the booking's new stamp or none, a tank it does not touch keeps a stamp of another
  booking, and `Push` writes on the open orders of this visit what the tank now shows.
- `StampsStand: Spec => []StampsHold` and `UrgentFirst: Spec => []UrgentIsServed`, if `Lapse \subseteq
  {"take off"}`. What the checked properties lack to be inductive is why a stamp is the right one:
  `LiftOnInv` adds that a code fits its booking's status (`CodesFit`), that of two live bookings listing a
  tank it has left on one (`OneWaits`: `Free` and `Alone` together), and that a header counts its rows
  (`HeaderFits`). `OneWaits` is what makes it sound that a release or a departure clears a tank's stamp
  without asking whose it was. The hypothesis is tight: each of the other three lapses alone breaks
  one of the parts, `WaitingIsStamped` or `UrgentGoesFirst`.

The first part of `MoneyProofs` is about one customer's deposit and the payments and refunds drawing on it:

- `PurseImplemented: Spec => ImplementsPurse`, if only payments overlap (`Overlap \subseteq Payment`). Two cashiers who
  save drafts at once may both pass the check, so the drafts together may claim more than there is;
  what may not happen is that both are posted. The invariant therefore counts the claims that are
  *firm*, posted or past the last check before posting: a submit reads again, and whoever
  comes second finds the first. The hypothesis is tight: with two refunds among the overlapping, or the
  Pending Cash itself, TLC finds the purse overdrawn (section 5).
- `DepositAddsUp: Spec => []DepositHolds`, if requests run one after another (`Overlap = {}`): then drafts fit too.

A sum of claims is stated as the number of money units in a set of pairs (`Summed`), so that what adding,
changing or dropping one claim does to it follows from the library's theorems on finite sets, without induction.

The rest of `MoneyProofs` is about one booking's money, `BookingPayment` with every constant free (there `Counter`). A
lemma per request says what it leaves of the booking and of its invoices; each property then has an invariant of its own:

- `PaidStandsBacked: Counter!Spec => []PaidIsBacked`, with any forms left open and presses overlapping. The work is
  in the writes that meet an invoice another one has ended: only a submit and a payment make a booking read
  Paid, and whatever else moves its invoice, charges or type says Unpaid or Invoiced.
- `BillIsFollowed: Counter!Spec => [](LiveInvoiceLinked /\ (~TankEdits => AmountFrozen))`, finance on, no form kept
  open, no overlapping press. The invariant joins the two; without its link half, a frozen amount does not survive a new
  charge. `TankEdits` is what the code's guard does not see (section 5).
- `MoneyMovesOn: Counter!Spec => []NotLeftWaiting`, for Cash only (`CashHouse`) and no form kept open. The invariant adds that
  a settled invoice is a submitted one (`PaidIsPosted`): so one raised, submitted or ended settles nothing.
- `ManualPaidStands: Counter!Spec => [](bon \/ ConfirmedIsPaid)`, and `[]ConfirmedIsPaid` in a `CashHouse`: with finance off nothing
  is ever invoiced, so the hand-set label moves only by hand.
- `HandedOverStays: Counter!Spec => [][HandedOverKept]_vars`, no form kept open.

None of these hypotheses can be dropped: with one overlapping press or one form kept open TLC finds a second live invoice, with a form or TOP
a draft left waiting, with TOP a Confirmed booking unpaid (section 5).

`BillingProofs` is about finished orders and the invoices that bill them:

- `OrdersBilledOnce: Spec => [](NoDoubleBill /\ LinkAgrees /\ ManifestIsLines /\ BilledIsFinished)`, if requests
  follow one another (`Overlap = FALSE`; with two at once TLC finds a unit on two invoices, section 5). The code
  refuses a unit that a manifest of the *same customer's* invoices lists, and reads the order's one link; an order may be
  billed in two currencies on two invoices, and its tank may change hands in between. `BillingInv` says
  why that is enough: manifests are the lines of invoices that stand, they share no unit, and
  `OneOwner`, all invoices billing one order are one customer's. `LinksFit` says in both directions that an order has a link
  exactly while an invoice bills it, so the link shows what the manifests of another customer would have shown; what a
  request has read stays true until it writes, because it is alone (`RunsAlone`).
- `FinishedIsOffered: Spec => []NothingLost`, if moreover no order changes hands (`SettledOwners`: one customer,
  or no cleaning; only a cleaning bills the tank's owner of the day). The invariant gains `BilledToOwner`. The work is in the
  steps that take a unit off an invoice, by undoing, deleting or refilling: they must leave no link that hides
  it from `collect_orders`. Without the hypothesis a currency is lost (section 5).

`StorageProofs` is about the ledger of storage days. In any order of undoing and picking again:

- `StaysAddUp: Spec => [](TypeOK /\ DaysAddUp /\ LastNamed)`. `RowsSplit` says of every live row that what
  it shows as billed and as owing was split by the function of the code from its dates and watermark *as they now are*; each of
  bill, undo, re-pick, sync, prune and the writes that fail half-way either recomputes the row or leaves both alone. The
  row's watermark and the invoice it names are written together, and cleared together, by all of them.

Where a visit's invoices are undone newest first and only its newest is picked again (`NewestFirst`, `RepickNewest`; the
code enforces neither, section 5):

- `WatermarksStand: Spec => [](TypeOK /\ WatermarkAgrees)`, with any failed writes, edited bons and switches.
- `DaysBilledOnce: Spec => []NoDayTwice`, for a tank with a gate record (`Known`).

An invoice remembers the watermark it replaced. The invariant `Chained` makes a list of that: each standing
invoice begins after the watermark it replaced, which is the end of another standing invoice of the row or
none, and of two invoices one follows the other; `Watermarked` says that the row's watermark is the end of the
list, and that a row with a watermark stands. No sync moves a watermark (`SyncKeepsWatermarks`), so
only a bill, its undoing and its re-pick matter: an undo under the rule takes the last of the list, and a re-pick
writes the end of the list where it is. None of the three hypotheses can be dropped: without `NewestFirst` the run
`TwiceBilled`, without `RepickNewest` the re-pick of section 5, without `Known` a row of the trail and a row of the
gate record that offer the same days.

`RepairProofs` and `WashProofs` are about the two work orders from the inside, for any orders, items, stock and dates:

- `RepairParts: Spec => [](TypeOK /\ PartsAccounted /\ MarksOnClosed)`. The invariant `RepairInv` says
  `PartsAccounted` from both sides: an order with an issue has it live, of exactly the lines nobody refused,
  precisely from Approved to Completed (`Fits`); no two orders have one issue (`Apart`); a live issue is some
  order's (`Owned`). Every request changes one order and only adds or cancels its own issue; it is shown to hand its
  save something `Prepared`, and one lemma says that saving that keeps the invariant.
- `RepairKept: Spec => [][OwnersNoKept /\ DateKept]_vars`: an owner's no is never made a yes, nor a test date moved back
  but by undoing that test.
- `WashPartsAccounted: Spec => [](TypeOK /\ PartsAccounted /\ MarksOnSubmitted /\ FinishRetimed /\
  StartBeforeFinish)`. The same argument, with `InStock` (the gudang is never below nothing, which the submit
  checks) and `Timed` (a finish lies after the start of its round; a rework resets both).
- `TypedPricesStand: Spec => []TypedPriceStands`, if nobody types the price 0, which the code cannot tell from an
  empty field (section 5).
- `WashWorkKept: Spec => [][WorkKept]_vars`: who opened a wash, since when and who did it are never rewritten.

`WorkshopProofs` and `MoneyProofs` end with the desks as the runs check them. `MCWorkshop` and `MCMoney` take their
parts as instances of the proof modules, so a theorem's lemma is at hand at the values the part is given
(`Estimate!RepairStep`). The parts share variables and one of them is on, so the invariant of a desk (`DeskInv`) is the
invariant of the part that is on:

- `WorkshopPartsAdd`, `WorkshopMarksStay`, `WorkshopFiguresStand`: `DeskSpec => []PartsAccounted`,
  `[]MarksStayClosed`, `[]WashFiguresStand`; `WorkshopFactsStand: DeskSpec => FactsStand`.
- `DeskBillsOnce`, `DeskLinksAgree`, `DeskLedgerAddsUp`: `DeskSpec => []NothingBilledTwice`, `[]LinksAgree`,
  `[]LedgerAddsUp`.
- `DeskKeepsGate` and `DeskKeepsDeposit`: a behaviour of the run's specification is one of `GateIssue`,
  respectively `PendingCash`, so the theorems above hold of what the run explores.

The values are those of the runs, so these say no more than the runs and the general theorems together; what they
add is that the properties, *as the run states them*, follow from the components' invariants.

The assumptions on constants (`DepotAssumption` and those named `...Assumption`) say which constants
are finite sets, numbers or functions, and that "none" is not a document; TLC evaluates them in the runs.

Model-checked only:

- In the core, `DepartureTakesEIR`: that nothing finished is left behind takes following each EIR-Out through its booking,
  its bons and their voids. `FinishedIsShown`, which was to be proved with it, turned out false
  (section 5); `LinkIsFinished` is the half of it that holds.
- The work screens, the bells, contracts, charge forms and invoice rows (`ScreensAgree`, `BellsAgree`,
  `BillsAgree`, `StepsKeep`), survey days (`SurveysAgree`, `TasksKept`), readings (`PlacesAgree`).
- `PaymentsAgree` and `HandedOverStaysSeen` as the run `Money` states them, at the values of their parts. What they say of a booking is
  the five theorems above, for every value; of the deposit with overlapping cashiers, `PurseImplemented`.
- Liveness under fairness (`Answers`), which is out of the prover's reach, and facts about data defined by recursion
  over sequences (row derivation in `InvoiceRows`).

## 7. Not modelled, and what is left

Not modelled at all:

- **Leak check**: a per-bon record filled in once; it never holds the tank and no other document reads it.
- **Access scoping**: which rows a user or branch sees. Models take every request as permitted.
- **Reports, print formats, installation, seeding**: layout and one-time writes.

Left out of modelled components:

- The core: of the money only whether it is in (what makes it so is `BookingPayment`); a booking's lines and its flag "without EIR" are fixed
  (`Lines`, `NoEIR`; they change in `SurveyOrder` and `LiftOn`); dates (in `StorageCharge`); the
  `eir_date` probe of `newer_eir`, which only refuses more; tanks created by a booking; the kiosk entrance
  (`GateEntry.on_submit`), a retired one; the Hold status of bons; an EIR opened by hand.
  Steps the code wraps in try/except (EIR provisioning, gate row) are assumed to succeed there; in
  `StorageCharge` they may fail. Gate Entries of a tank are a set, so identical cancelled rows coincide;
  deleting a draft EIR is modelled as its Cancel. `FinishedEIROut` takes the newest EIR-Out of the bon
  where the code takes the last modified. `roll_back_arrival` sends the tank to Gate_Out when its
  booking is cancelled; a booking with a bon cannot be, so that branch is never taken.
- Vehicle, EMKL, shipper and vessel fields and their mirroring between bookings and bons; Excel import.
- The contents of the checklist, EIR revision in place, lists and prints of the field app.
- Prices and totals of an M&R, the rate table, rounding, line prices and amounts of invoices, Purchase
  Invoices and Purchase Order advances, a payment's deductions and GL rows.
- Tutup Order on bons and EIRs: for an older visit it marks the paper closed and by design moves neither
  tank, gate nor storage (`_close_eir`). On Cleaning Orders, M&R (`submit_direct`) and survey days it is
  an action of their modules.
- A contract that changes its free days while a tank stays: the ledger's day counts read those of the contract in force at
  each sync (`../storage_charge.py:139`), here one constant `Free`.
- Collections of consolidated billing that overlap: the passing runs keep them apart (`Overlap = FALSE`); section 5 says
  what they do.
- Which roles and branches a bell is for, mutes, mail; filters of worklist and schedule.
- Components are joined where they share state that the properties relate; the ledger
  (`StorageCharge`) and the yard (`TankVisit`) keep their own copies of the gate record, and
  `LiftOn` and `SurveyOrder` their own copies of the booking, each with the moves the other makes.

Next, most important first: more of the code, above all `tank_survey.py`, `mr.py` and the rest of
`container_booking.py`; and proofs of `DepartureTakesEIR`, of `MasterIsNewest`, and of `OneRateCard` without overlapping presses.
