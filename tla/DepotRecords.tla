---------------------------- MODULE DepotRecords ----------------------------
(***************************************************************************)
(* The documents one ISO tank's stay in the depot is written on, and what  *)
(* the program reads back from them:                                       *)
(*   Container        status, inDate                                       *)
(*   Container Booking  bk, paid, and its Booking Codes  code              *)
(*   Order Bongkar / Order Muat ("bon")  bon                               *)
(*   Gate Entry (one row spans one visit)  gate                            *)
(*   Inspection (EIR-In / EIR-Out)  eir                                    *)
(*   Cleaning Order / Repair Order  work                                   *)
(* Every request of the program is one database transaction, so every      *)
(* action of the modules that extend this one is one whole request.        *)
(*                                                                         *)
(* Creation times are compared by the code only between documents of one   *)
(* table (the index in the sequence) and with the tank's gate-out stamps;  *)
(* departures[t] is the clock of the latter: the n-th departure is stamped *)
(* n, and a document is born at the number of departures before it.        *)
(***************************************************************************)
EXTENDS Naturals, Sequences, FiniteSets

CONSTANTS
    Tank, Booking,
    InBooking,          \* the bookings whose direction is Tank In; the others are Tank Out
    Lines,              \* the tanks on each booking's lines
    NoEIR,              \* the LADEN lines taken without an EIR (no_eir.py)
    CashBooking,        \* bookings that are Cash at some time; while one is TOP it is in paid
    WorkKind,           \* which of "Cleaning" and "M&R" the depot does
    NoBooking,
    Switch,             \* the values "Wajibkan Semua Order" is set to
    Lapse,              \* what the office does that the code allows and its rules do not mean
    MaxBon, MaxEIR, MaxWork, MaxDeparture      \* bounds of the checked instances

ASSUME DepotAssumption ==
    /\ InBooking \subseteq Booking
    /\ CashBooking \subseteq Booking
    /\ Lines \in [Booking -> SUBSET Tank]
    /\ NoEIR \in [Booking -> SUBSET Tank]
    /\ NoBooking \notin Booking
    /\ WorkKind \subseteq {"Cleaning", "M&R"}
    /\ Switch \in (SUBSET BOOLEAN) \ {{}}
    /\ Lapse \subseteq {"second bon", "past bon", "old departure", "away EIR"}
    /\ MaxBon \in Nat /\ MaxEIR \in Nat /\ MaxWork \in Nat /\ MaxDeparture \in Nat

VARIABLES status, inDate, bk, code, paid, bon, gate, eir, work, departures, enforceAll

vars == <<status, inDate, bk, code, paid, bon, gate, eir, work, departures, enforceAll>>

Status == {"Booked", "In_Depot", "Available", "Gate_Out"}
Present == {"In_Depot", "Available"}
Direction == {"In", "Out"}

DirectionOf(k) == IF k \in InBooking THEN "In" ELSE "Out"
Opposite(d) == IF d = "In" THEN "Out" ELSE "In"

BonRec == [booking : Booking, tanks : SUBSET Tank,
           ds : {"Draft", "Submitted", "Voided"}, completed : BOOLEAN]
GateRec == [arr : Nat, muat : Nat, out : Nat, eout : Nat, st : {"Open", "Closed", "Cancelled"}]
EIRRec == [type : Direction, ds : {"Draft", "Submitted", "Void"}, bon : Nat,
           booking : Booking \cup {NoBooking}, started : BOOLEAN, snap : Status, born : Nat]
WorkRec == [kind : {"Cleaning", "M&R"}, src : Nat, seen : Nat, born : Nat,
            st : {"Unstarted", "Working", "Review", "Done", "Cancelled"}]

TypeOK ==
    /\ status \in [Tank -> Status]
    /\ inDate \in [Tank -> BOOLEAN]
    /\ bk \in [Booking -> {"New", "Draft", "Confirmed", "Cancelled"}]
    /\ code \in [Booking -> [Tank -> {"None", "Active", "Used", "Cancelled"}]]
    /\ paid \in SUBSET Booking
    /\ bon \in Seq(BonRec)
    /\ gate \in [Tank -> SUBSET GateRec]
    /\ eir \in [Tank -> Seq(EIRRec)]
    /\ work \in [Tank -> Seq(WorkRec)]
    /\ departures \in [Tank -> Nat]
    /\ enforceAll \in BOOLEAN

(* A master registered by hand is born Gate_Out and has never been in.     *)
Init ==
    /\ status = [t \in Tank |-> "Gate_Out"]
    /\ inDate = [t \in Tank |-> FALSE]
    /\ bk = [k \in Booking |-> "New"]
    /\ code = [k \in Booking |-> [t \in Tank |-> "None"]]
    /\ paid = {}
    /\ bon = << >>
    /\ gate = [t \in Tank |-> {}]
    /\ eir = [t \in Tank |-> << >>]
    /\ work = [t \in Tank |-> << >>]
    /\ departures = [t \in Tank |-> 0]
    /\ enforceAll \in Switch

-----------------------------------------------------------------------------
(* What the code reads off the documents.                                  *)

Newest(S) ==
    IF \E n \in S : \A m \in S : m <= n THEN CHOOSE n \in S : \A m \in S : m <= n ELSE 0

BonsOf(t, d, states) ==
    {b \in DOMAIN bon : /\ bon[b].ds \in states
                        /\ t \in bon[b].tanks
                        /\ DirectionOf(bon[b].booking) = d}

(* Container.last_order_bongkar / last_order_muat: the newest bon that is  *)
(* not voided, drafts included.                                            *)
LastIn(t) == Newest(BonsOf(t, "In", {"Draft", "Submitted"}))
LastOut(t) == Newest(BonsOf(t, "Out", {"Draft", "Submitted"}))

BonRaised(k) == \E b \in DOMAIN bon : bon[b].booking = k
LiveBooking(k) == k \in Booking /\ bk[k] \in {"Draft", "Confirmed"}

OpenEntries(g) == {r \in g : r.st = "Open"}

(* The departure a present tank came back from; 0 when it is away or never *)
(* left, and then every order counts.                                      *)
LastDeparture(st, g) ==
    IF st \in Present THEN Newest({r.out : r \in {q \in g : q.st # "Cancelled"}}) ELSE 0

HoldingEIR(es, since) ==
    {i \in DOMAIN es : es[i].type = "In" /\ es[i].ds = "Draft" /\ es[i].born >= since}
HoldingWork(ws, since) ==
    {i \in DOMAIN ws : ws[i].st \in {"Unstarted", "Working", "Review"} /\ ws[i].born >= since}

(* container_open_orders: is there unfinished work of this visit?          *)
HasOpenOrders(st, g, es, ws) ==
    LET since == LastDeparture(st, g)
    IN  HoldingEIR(es, since) # {} \/ HoldingWork(ws, since) # {}

(* Fault: the recomputation moves an away tank as well.                    *)
SettledAnywhere(st, g, es, ws) == IF HasOpenOrders(st, g, es, ws) THEN "In_Depot" ELSE "Available"

(* recompute_availability: only a present tank is moved.                   *)
Settled(st, g, es, ws) ==
    IF st \notin Present THEN st
    ELSE IF HasOpenOrders(st, g, es, ws) THEN "In_Depot" ELSE "Available"

(* Fault: open work orders are no longer asked about at the gate.          *)
BlockedByEIROnly(t) == HoldingEIR(eir[t], LastDeparture(status[t], gate[t])) # {}

(* order_policy.blocking_orders: with "Wajibkan Semua Order" off only a    *)
(* draft EIR-In holds the tank.                                            *)
Blocked(t) ==
    LET since == LastDeparture(status[t], gate[t])
    IN  \/ HoldingEIR(eir[t], since) # {}
        \/ enforceAll /\ HoldingWork(work[t], since) # {}

PaymentAllowsBon(k) == k \in CashBooking => k \in paid

Drafts(t, d) == {i \in DOMAIN eir[t] : eir[t][i].type = d /\ eir[t][i].ds = "Draft"}

(* Every tank on the bon that owes an EIR-In has one submitted.            *)
AllInspected(b, r, es) ==
    \A t \in r.tanks \ NoEIR[r.booking] :
        \E i \in DOMAIN es[t] : /\ es[t][i].type = "In"
                                /\ es[t][i].ds = "Submitted"
                                /\ es[t][i].bon = b

(* Fault: a bon once completed stays so when an EIR-In goes back to draft. *)
CompletedForGood(b, es) ==
    IF b \in DOMAIN bon /\ bon[b].ds = "Submitted" /\ DirectionOf(bon[b].booking) = "In"
    THEN [bon EXCEPT ![b].completed = @ \/ AllInspected(b, bon[b], es)]
    ELSE bon

(* refresh_completion of one bon, given the EIRs as they now are.          *)
RefreshedBons(b, es) ==
    IF b \in DOMAIN bon /\ bon[b].ds = "Submitted" /\ DirectionOf(bon[b].booking) = "In"
    THEN [bon EXCEPT ![b].completed = AllInspected(b, bon[b], es)]
    ELSE bon

-----------------------------------------------------------------------------
(* Who has spoken for a tank (container_booking._find_booking_conflicts).  *)

DraftHolds(d, st) == IF d = "Out" THEN st \in Present \cup {"Booked"} ELSE st \notin Present

DepartedForCode(k, t) ==
    \E b \in DOMAIN bon :
        /\ bon[b].booking = k /\ t \in bon[b].tanks
        /\ \/ bon[b].ds = "Submitted"
           \/ \E r \in gate[t] : r.muat = b /\ r.st = "Closed"

BonSubmittedForCode(k, t) ==
    \E b \in DOMAIN bon :
        bon[b].booking = k /\ t \in bon[b].tanks /\ bon[b].ds = "Submitted"

UsedCodeHolds(k, t, st) ==
    IF k \in InBooking THEN ~BonSubmittedForCode(k, t)
    ELSE st \in Present /\ ~DepartedForCode(k, t)

Holds(k, t, st) ==
    /\ t \in Lines[k]
    /\ \/ code[k][t] = "Active"
       \/ code[k][t] = "Used" /\ UsedCodeHolds(k, t, st)
       \/ bk[k] = "Draft" /\ DraftHolds(DirectionOf(k), st)

Conflict(k, t, d, st) ==
    \E j \in Booking \ {k} : DirectionOf(j) = d /\ Holds(j, t, st)
=============================================================================
